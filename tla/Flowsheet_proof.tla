---------------------------- MODULE Flowsheet_proof ----------------------------
(***************************************************************************)
(* Proofs about the flowsheet engine and its views (FlowsheetModels,       *)
(* FlowsheetCompiler, FlowsheetRunner, ResultViews), for sheets of any     *)
(* size, with any connections, materials and quantities.                   *)
(*                                                                         *)
(* The compiler's verdict is shown to mean that the case is well posed and *)
(* its order of execution to be topological; the invariant then follows    *)
(* the run along that order; from what each unit conserves, the balances   *)
(* of the sheet are added up.  Induction over the order, over sets of      *)
(* units and over the terms of a sum is done by taking a smallest          *)
(* counterexample, which the library's WFMin provides.                     *)
(***************************************************************************)
EXTENDS ResultViews, FiniteSetTheorems, TLAPS

-------------------------------------------------------------------------------
(* Induction, by a smallest counterexample, and what is defined along it *)

\* Of the subsets of a finite set that are bad, one has no smaller bad one in it.
LEMMA SmallestSubset ==
    ASSUME NEW S, IsFiniteSet(S), NEW Bad \in SUBSET (SUBSET S), Bad # {}
    PROVE  \E N \in Bad : \A K \in SUBSET N : K # N => K \notin Bad
<1>1. IsWellFoundedOn(StrictSubsetOrdering(S), SUBSET S)
  BY FS_StrictSubsetOrderingWellFounded, FS_FiniteSubsetsOfFinite
<1>2. PICK N \in Bad : \A K \in Bad : ~(<<K, N>> \in StrictSubsetOrdering(S))
  BY <1>1, WFMin
<1> QED
  BY <1>2 DEF StrictSubsetOrdering

\* Of the numbers that are bad, one is the first.
LEMMA SmallestNumber ==
    ASSUME NEW Bad \in SUBSET Nat, Bad # {}
    PROVE  \E n \in Bad : \A k \in Bad : n <= k
<1>1. PICK n \in Bad : \A k \in Bad : ~(<<k, n>> \in OpToRel(<, Nat))
  BY NatLessThanWellFounded, WFMin
<1>2. \A k \in Bad : ~(k < n)
  BY <1>1 DEF OpToRel
<1> QED
  BY <1>2

LEMMA MinIsSmallest ==
    ASSUME NEW S \in SUBSET Nat, S # {}
    PROVE  Min(S) \in S
  BY SmallestNumber DEF Min

\* What ExecutionOrder makes of the first n units, as an equation.
FirstUpTo(G, n, f) ==
    [i \in 0 .. n |-> IF i = 0 THEN << >>
                      ELSE Append(f[i - 1], Min(Ready(G, Range(f[i - 1]))))]

\* Such a function exists, for a graph of any size.
LEMMA FirstExists ==
    ASSUME NEW G, NEW n \in Nat
    PROVE  \E f : f = FirstUpTo(G, n, f)
<1> DEFINE Bad == {k \in Nat : ~ \E f : f = FirstUpTo(G, k, f)}
<1>1. SUFFICES ASSUME Bad # {} PROVE FALSE
  OBVIOUS
<1>2. PICK k \in Bad : \A i \in Bad : k <= i
  BY <1>1, SmallestNumber
<1>3. k # 0
  <2>1. [i \in 0 .. 0 |-> << >>] = FirstUpTo(G, 0, [i \in 0 .. 0 |-> << >>])
    BY DEF FirstUpTo
  <2> QED
    BY <1>2, <2>1
<1>4. k - 1 \in Nat /\ k - 1 \notin Bad
  BY <1>2, <1>3
<1>5. PICK f : f = FirstUpTo(G, k - 1, f)
  BY <1>4
<1> DEFINE next == Append(f[k - 1], Min(Ready(G, Range(f[k - 1]))))
           g == [i \in 0 .. k |-> IF i = k THEN next ELSE f[i]]
<1>6. ASSUME NEW i \in 0 .. k
      PROVE  g[i] = IF i = 0 THEN << >> ELSE Append(g[i - 1], Min(Ready(G, Range(g[i - 1]))))
  <2>1. CASE i = k
    BY <1>2, <1>3, <2>1
  <2>2. CASE i # k
    <3>1. i \in 0 .. k - 1 /\ g[i] = f[i] /\ (i # 0 => g[i - 1] = f[i - 1])
      BY <1>2, <2>2
    <3> QED
      BY <1>5, <3>1 DEF FirstUpTo
  <2> QED
    BY <2>1, <2>2
<1>7. g = FirstUpTo(G, k, g)
  BY <1>6 DEF FirstUpTo
<1> QED
  BY <1>2, <1>7

\* ExecutionOrder is what that function makes of all units.
LEMMA OrderOfFirst ==
    ASSUME NEW c
    PROVE  \E f : /\ IsFiniteSet(Sheet(c).node) =>
                        f = FirstUpTo(Sheet(c), Cardinality(Sheet(c).node), f)
                  /\ ExecutionOrder(c) = f[Cardinality(Sheet(c).node)]
<1> DEFINE G == Sheet(c)
           N == Cardinality(G.node)
           f == CHOOSE g : g = FirstUpTo(G, N, g)
<1>1. ExecutionOrder(c) = f[N]
  BY DEF ExecutionOrder, FirstUpTo
<1>2. IsFiniteSet(G.node) => f = FirstUpTo(G, N, f)
  BY FS_CardinalityType, FirstExists
<1> QED
  BY <1>1, <1>2

-------------------------------------------------------------------------------
(* Sums: one of them is what is left after any one of its terms, plus that term *)

SumStep(F, g, s) ==
    IF s = {} THEN 0 ELSE F[CHOOSE x \in s : TRUE] + g[s \ {CHOOSE x \in s : TRUE}]
Sums(F, S, g) == g = [s \in SUBSET S |-> SumStep(F, g, s)]

\* A function from the parts of a finite set that satisfies the fold's equation exists.
LEMMA SumsExist ==
    ASSUME NEW F, NEW S, IsFiniteSet(S)
    PROVE  \E g : Sums(F, S, g)
<1> DEFINE Small(n) == {s \in SUBSET S : Cardinality(s) <= n}
           Has(n) == \E g : g = [s \in Small(n) |-> SumStep(F, g, s)]
           Bad == {n \in Nat : ~ Has(n)}
<1>0. \A s \in SUBSET S : IsFiniteSet(s) /\ Cardinality(s) \in Nat /\ Cardinality(s) <= Cardinality(S)
  BY FS_Subset, FS_CardinalityType
<1>1. Has(Cardinality(S))
  <2>1. SUFFICES ASSUME Bad # {} PROVE FALSE
    BY <1>0
  <2>2. PICK n \in Bad : \A k \in Bad : n <= k
    <3> HIDE DEF Bad
    <3>1. Bad \in SUBSET Nat
      BY DEF Bad
    <3> QED
      BY <2>1, <3>1, SmallestNumber
  <2>3. \A s \in SUBSET S : s # {} =>
           LET c == CHOOSE x \in s : TRUE IN c \in s /\ Cardinality(s \ {c}) = Cardinality(s) - 1
    <3>1. SUFFICES ASSUME NEW s \in SUBSET S, s # {}
                   PROVE  \A c \in s : Cardinality(s \ {c}) = Cardinality(s) - 1
      OBVIOUS
    <3> QED
      BY <1>0, FS_RemoveElement
  <2>4. CASE n = 0
    <3> DEFINE g == [s \in Small(0) |-> 0]
    <3>1. \A s \in Small(0) : s = {}
      BY <1>0, FS_EmptySet
    <3>2. g = [s \in Small(0) |-> SumStep(F, g, s)]
      BY <3>1 DEF SumStep
    <3> HIDE DEF g
    <3> QED
      BY <2>2, <2>4, <3>2
  <2>5. CASE n # 0
    <3>1. n - 1 \in Nat /\ Has(n - 1)
      <4>1. n - 1 \in Nat /\ ~ (n <= n - 1)
        BY <2>2, <2>5
      <4> HIDE DEF Has
      <4> QED
        BY <2>2, <4>1
    <3>2. PICK f : f = [s \in Small(n - 1) |-> SumStep(F, f, s)]
      BY <3>1
    <3> DEFINE g == [s \in Small(n) |-> IF s \in Small(n - 1) THEN f[s] ELSE SumStep(F, f, s)]
    <3>3. ASSUME NEW s \in Small(n) PROVE g[s] = SumStep(F, g, s)
      <4>1. g[s] = SumStep(F, f, s)
        BY <3>2
      <4>2. CASE s = {}
        BY <4>1, <4>2 DEF SumStep
      <4>3. CASE s # {}
        <5> DEFINE r == s \ {CHOOSE x \in s : TRUE}
        <5>1. r \in Small(n - 1) /\ r \in Small(n)
          BY <1>0, <2>2, <2>3, <4>3
        <5>2. g[r] = f[r]
          BY <5>1
        <5> QED
          BY <4>1, <4>3, <5>2 DEF SumStep
      <4> QED
        BY <4>2, <4>3
    <3>4. g = [s \in Small(n) |-> SumStep(F, g, s)]
      BY <3>3
    <3> HIDE DEF g
    <3> QED
      BY <2>2, <3>4
  <2> QED
    BY <2>2, <2>4, <2>5
<1>2. Small(Cardinality(S)) = SUBSET S
  BY <1>0
<1> QED
  BY <1>1, <1>2 DEF Sums

\* What the community modules' fold chooses is one.
LEMMA SumOf ==
    ASSUME NEW F, NEW S, IsFiniteSet(S)
    PROVE  \E g : Sums(F, S, g) /\ SumFunctionOnSet(F, S) = g[S]
<1>1. SumFunctionOnSet(F, S) = (CHOOSE g : Sums(F, S, g))[S]
  BY DEF SumFunctionOnSet, FoldFunctionOnSet, MapThenFoldSet, Sums, SumStep
<1> QED
  BY <1>1, SumsExist

\* Two such functions agree where their terms do.
LEMMA SumsAgree ==
    ASSUME NEW F, NEW S, NEW f, Sums(F, S, f), NEW G, NEW T, NEW g, Sums(G, T, g),
           NEW r \in SUBSET (S \cap T), IsFiniteSet(r), \A x \in r : F[x] = G[x]
    PROVE  f[r] = g[r]
<1> DEFINE Bad == {s \in SUBSET r : f[s] # g[s]}
<1>1. SUFFICES ASSUME Bad # {} PROVE FALSE
  OBVIOUS
<1>2. PICK s \in Bad : \A t \in SUBSET s : t # s => t \notin Bad
  <2> HIDE DEF Bad
  <2>1. Bad \in SUBSET (SUBSET r)
    BY DEF Bad
  <2> QED
    BY <1>1, <2>1, SmallestSubset
<1>3. f[s] = SumStep(F, f, s) /\ g[s] = SumStep(G, g, s)
  BY DEF Sums
<1>4. s # {}
  BY <1>2, <1>3 DEF SumStep
<1> DEFINE c == CHOOSE x \in s : TRUE
<1>5. c \in s /\ F[c] = G[c]
  BY <1>4
<1>6. f[s \ {c}] = g[s \ {c}]
  BY <1>2, <1>5
<1> QED
  BY <1>2, <1>3, <1>5, <1>6 DEF SumStep

\* Whichever term is taken, not only the one the fold chooses, the others add up to the rest.
LEMMA SumsMinus ==
    ASSUME NEW F, NEW S, IsFiniteSet(S), NEW g, Sums(F, S, g), \A x \in S : F[x] \in Int
    PROVE  \A s \in SUBSET S : g[s] \in Int /\ \A x \in s : g[s] = F[x] + g[s \ {x}]
<1> DEFINE P(s) == g[s] \in Int /\ \A x \in s : g[s] = F[x] + g[s \ {x}]
           Bad == {s \in SUBSET S : ~ P(s)}
<1>1. SUFFICES ASSUME Bad # {} PROVE FALSE
  OBVIOUS
<1>2. PICK s \in Bad : \A t \in SUBSET s : t # s => t \notin Bad
  <2> HIDE DEF Bad
  <2>1. Bad \in SUBSET (SUBSET S)
    BY DEF Bad
  <2> QED
    BY <1>1, <2>1, SmallestSubset
<1> DEFINE c == CHOOSE x \in s : TRUE
<1>3. g[s] = SumStep(F, g, s) /\ s \in SUBSET S
  BY <1>2 DEF Sums
<1>4. ASSUME s = {} PROVE FALSE
  BY <1>2, <1>3, <1>4 DEF SumStep
<1>5. c \in s /\ g[s] = F[c] + g[s \ {c}]
  BY <1>3, <1>4 DEF SumStep
<1> HIDE DEF c
<1>6. ASSUME NEW t \in SUBSET s, t # s PROVE P(t)
  BY <1>2, <1>6
<1> HIDE DEF Bad
<1>7. g[s] \in Int
  BY <1>3, <1>5, <1>6
<1>8. ASSUME NEW x \in s PROVE g[s] = F[x] + g[s \ {x}]
  <2>1. CASE x = c
    BY <1>5, <2>1
  <2>2. CASE x # c
    <3> DEFINE t == (s \ {c}) \ {x}
    <3>1. t = (s \ {x}) \ {c}
      OBVIOUS
    <3>2. g[s \ {c}] = F[x] + g[t] /\ g[t] \in Int
      BY <1>5, <1>6, <2>2
    <3>3. g[s \ {x}] = F[c] + g[t]
      BY <1>5, <1>6, <2>2, <3>1
    <3>4. F[x] \in Int /\ F[c] \in Int
      BY <1>3, <1>5
    <3> HIDE DEF t
    <3> QED
      BY <1>5, <3>2, <3>3, <3>4
  <2> QED
    BY <2>1, <2>2
<1> QED
  BY <1>2, <1>7, <1>8 DEF Bad

\* What a sum is: zero over no terms, and any term plus the rest.
LEMMA SumIs ==
    ASSUME NEW F, NEW S, IsFiniteSet(S), \A x \in S : F[x] \in Int
    PROVE  /\ SumFunctionOnSet(F, {}) = 0 /\ SumFunctionOnSet(F, S) \in Int
           /\ \A x \in S : SumFunctionOnSet(F, S) = F[x] + SumFunctionOnSet(F, S \ {x})
<1>1. PICK g : Sums(F, S, g) /\ SumFunctionOnSet(F, S) = g[S]
  BY SumOf
<1>2. SumFunctionOnSet(F, {}) = 0
  <2>1. PICK h : Sums(F, {}, h) /\ SumFunctionOnSet(F, {}) = h[{}]
    BY SumOf, FS_EmptySet
  <2> QED
    BY <2>1 DEF Sums, SumStep
<1>3. SumFunctionOnSet(F, S) \in Int
  <2>1. \A s \in SUBSET S : g[s] \in Int
    BY <1>1, SumsMinus
  <2> QED
    BY <1>1, <2>1
<1>4. ASSUME NEW x \in S
      PROVE  SumFunctionOnSet(F, S) = F[x] + SumFunctionOnSet(F, S \ {x})
  <2> DEFINE T == S \ {x}
  <2>0. IsFiniteSet(T)
    BY FS_Subset
  <2> HIDE DEF T
  <2>1. PICK h : Sums(F, T, h) /\ SumFunctionOnSet(F, T) = h[T]
    BY <2>0, SumOf
  <2>2. T \in SUBSET (S \cap T)
    BY DEF T
  <2>3. g[T] = h[T]
    BY <1>1, <2>0, <2>1, <2>2, SumsAgree
  <2>4. g[S] = F[x] + g[T]
    BY <1>1, SumsMinus DEF T
  <2> QED
    BY <1>1, <2>1, <2>3, <2>4 DEF T
<1> QED
  BY <1>2, <1>3, <1>4

\* Equal terms have equal sums.
LEMMA SumsOfEquals ==
    ASSUME NEW F, NEW G, NEW S, IsFiniteSet(S), \A x \in S : F[x] = G[x]
    PROVE  SumFunctionOnSet(F, S) = SumFunctionOnSet(G, S)
<1>1. PICK f : Sums(F, S, f) /\ SumFunctionOnSet(F, S) = f[S]
  BY SumOf
<1>2. PICK g : Sums(G, S, g) /\ SumFunctionOnSet(G, S) = g[S]
  BY SumOf
<1>3. S \in SUBSET (S \cap S)
  OBVIOUS
<1> QED
  BY <1>1, <1>2, <1>3, SumsAgree

\* A sum does not depend on what its terms are called.
LEMMA SumRenamed ==
    ASSUME NEW S, IsFiniteSet(S), NEW T, NEW h \in [S -> T],
           \A x, y \in S : h[x] = h[y] => x = y, \A y \in T : \E x \in S : h[x] = y,
           NEW F, NEW G, \A x \in S : F[x] \in Int /\ F[x] = G[h[x]]
    PROVE  SumFunctionOnSet(F, S) = SumFunctionOnSet(G, T)
<1> DEFINE Im(s) == {h[x] : x \in s}
           Bad == {s \in SUBSET S : SumFunctionOnSet(F, s) # SumFunctionOnSet(G, Im(s))}
<1>1. SUFFICES ASSUME Bad # {} PROVE FALSE
  <2>1. Im(S) = T
    OBVIOUS
  <2> QED
    BY <2>1
<1>2. PICK s \in Bad : \A t \in SUBSET s : t # s => t \notin Bad
  <2> HIDE DEF Bad
  <2>1. Bad \in SUBSET (SUBSET S)
    BY DEF Bad
  <2> QED
    BY <1>1, <2>1, SmallestSubset
<1>3. IsFiniteSet(s) /\ s \in SUBSET S /\ IsFiniteSet(Im(s))
  <2>1. IsFiniteSet(s) /\ s \in SUBSET S
    BY FS_Subset
  <2> DEFINE I == Im(s)
             k == [x \in s |-> h[x]]
  <2>2. k \in Surjection(s, I)
    BY DEF Surjection
  <2>3. IsFiniteSet(I)
    <3> HIDE DEF I, k
    <3> QED
      BY <2>1, <2>2, FS_Surjection
  <2> QED
    BY <2>1, <2>3
<1>4. \A x \in s : F[x] \in Int
  BY <1>3
<1>5. \A y \in Im(s) : G[y] \in Int
  BY <1>3
<1>6. CASE s = {}
  <2>1. Im(s) = {}
    BY <1>6
  <2>2. SumFunctionOnSet(F, {}) = 0 /\ SumFunctionOnSet(G, {}) = 0
    BY <1>3, <1>4, <1>5, SumIs
  <2> QED
    BY <1>2, <1>6, <2>1, <2>2
<1>7. CASE s # {}
  <2>1. PICK x \in s : TRUE
    BY <1>7
  <2>2. Im(s \ {x}) = Im(s) \ {h[x]} /\ h[x] \in Im(s)
    BY <1>3
  <2>3. SumFunctionOnSet(F, s \ {x}) = SumFunctionOnSet(G, Im(s \ {x}))
    BY <1>2
  <2> DEFINE I == Im(s)
  <2>4. SumFunctionOnSet(G, I) = G[h[x]] + SumFunctionOnSet(G, I \ {h[x]})
    <3>1. IsFiniteSet(I) /\ h[x] \in I /\ \A y \in I : G[y] \in Int
      BY <1>3, <1>5, <2>2
    <3> HIDE DEF I
    <3> QED
      BY <3>1, SumIs
  <2>5. SumFunctionOnSet(F, s) = F[x] + SumFunctionOnSet(F, s \ {x})
    BY <1>3, <1>4, SumIs
  <2>6. F[x] = G[h[x]]
    BY <1>3
  <2> HIDE DEF Im
  <2> QED
    BY <1>2, <2>2, <2>3, <2>4, <2>5, <2>6
<1> QED
  BY <1>6, <1>7
\* The sum of one term.
LEMMA SumAlone ==
    ASSUME NEW F, NEW a, F[a] \in Int
    PROVE  SumFunctionOnSet(F, {}) = 0 /\ SumFunctionOnSet(F, {a}) = F[a]
<1> DEFINE S == {a}
<1>1. IsFiniteSet(S) /\ a \in S /\ \A x \in S : F[x] \in Int
  BY FS_Singleton
<1>2. S \ {a} = {}
  OBVIOUS
<1> HIDE DEF S
<1>3. SumFunctionOnSet(F, {}) = 0 /\ SumFunctionOnSet(F, S) = F[a] + SumFunctionOnSet(F, S \ {a})
  BY <1>1, SumIs
<1>4. SumFunctionOnSet(F, S) = F[a]
  <2>1. SumFunctionOnSet(F, S \ {a}) = SumFunctionOnSet(F, {})
    BY <1>2, Zenon
  <2> QED
    BY <1>3, <2>1
<1> QED
  BY <1>3, <1>4 DEF S

\* Sums over disjoint sets add up.
LEMMA SumUnion ==
    ASSUME NEW A, IsFiniteSet(A), NEW B, IsFiniteSet(B), A \cap B = {},
           NEW F, \A x \in A \cup B : F[x] \in Int
    PROVE  SumFunctionOnSet(F, A \cup B) = SumFunctionOnSet(F, A) + SumFunctionOnSet(F, B)
<1> DEFINE P(s) == SumFunctionOnSet(F, s \cup B) = SumFunctionOnSet(F, s) + SumFunctionOnSet(F, B)
           Bad == {s \in SUBSET A : ~ P(s)}
<1>1. SUFFICES ASSUME Bad # {} PROVE FALSE
  OBVIOUS
<1>2. PICK s \in Bad : \A t \in SUBSET s : t # s => t \notin Bad
  <2> HIDE DEF Bad
  <2>1. Bad \in SUBSET (SUBSET A)
    BY DEF Bad
  <2> QED
    BY <1>1, <2>1, SmallestSubset
<1>3. s \in SUBSET A /\ ~ P(s)
  BY <1>2
<1>4. IsFiniteSet(s) /\ IsFiniteSet(s \cup B)
  BY <1>3, FS_Subset, FS_Union
<1>5. SumFunctionOnSet(F, {}) = 0 /\ SumFunctionOnSet(F, B) \in Int
  BY SumIs
<1>6. CASE s = {}
  BY <1>3, <1>5, <1>6
<1>7. CASE s # {}
  <2>1. PICK x \in s : TRUE
    BY <1>7
  <2> DEFINE r == s \ {x}
  <2>2. P(r)
    <3>1. r \in SUBSET s /\ r # s /\ r \in SUBSET A
      BY <1>3, <2>1
    <3> HIDE DEF P, r
    <3> QED
      BY <1>2, <3>1
  <2>3. SumFunctionOnSet(F, s) = F[x] + SumFunctionOnSet(F, r) /\ F[x] \in Int
    BY <1>3, <1>4, <2>1, SumIs
  <2>4. SumFunctionOnSet(F, s \cup B) = F[x] + SumFunctionOnSet(F, r \cup B)
    <3> DEFINE D == s \cup B
    <3>1. IsFiniteSet(D) /\ x \in D /\ \A y \in D : F[y] \in Int
      BY <1>3, <1>4, <2>1
    <3>2. D \ {x} = r \cup B
      BY <1>3, <2>1
    <3> HIDE DEF D, r
    <3>3. SumFunctionOnSet(F, D) = F[x] + SumFunctionOnSet(F, D \ {x})
      BY <3>1, SumIs
    <3> QED
      BY <3>2, <3>3 DEF D
  <2>5. SumFunctionOnSet(F, r) \in Int
    BY <1>3, <1>4, SumIs, FS_Subset
  <2> HIDE DEF r
  <2> QED
    BY <1>3, <1>5, <2>2, <2>3, <2>4, <2>5
<1> QED
  BY <1>6, <1>7

\* A sum of sums, term by term.
LEMMA SumPlus ==
    ASSUME NEW S, IsFiniteSet(S), NEW F, NEW G, NEW H,
           \A x \in S : F[x] \in Int /\ G[x] \in Int /\ H[x] = F[x] + G[x]
    PROVE  SumFunctionOnSet(H, S) = SumFunctionOnSet(F, S) + SumFunctionOnSet(G, S)
<1> DEFINE P(s) == SumFunctionOnSet(H, s) = SumFunctionOnSet(F, s) + SumFunctionOnSet(G, s)
           Bad == {s \in SUBSET S : ~ P(s)}
<1>1. SUFFICES ASSUME Bad # {} PROVE FALSE
  OBVIOUS
<1>2. PICK s \in Bad : \A t \in SUBSET s : t # s => t \notin Bad
  <2> HIDE DEF Bad
  <2>1. Bad \in SUBSET (SUBSET S)
    BY DEF Bad
  <2> QED
    BY <1>1, <2>1, SmallestSubset
<1>3. s \in SUBSET S /\ ~ P(s) /\ IsFiniteSet(s)
  BY <1>2, FS_Subset
<1>4. \A x \in s : F[x] \in Int /\ G[x] \in Int /\ H[x] \in Int /\ H[x] = F[x] + G[x]
  BY <1>3
<1>5. CASE s = {}
  <2>1. SumFunctionOnSet(F, {}) = 0 /\ SumFunctionOnSet(G, {}) = 0 /\ SumFunctionOnSet(H, {}) = 0
    BY <1>3, <1>4, SumIs
  <2> QED
    BY <1>3, <1>5, <2>1
<1>6. CASE s # {}
  <2>1. PICK x \in s : TRUE
    BY <1>6
  <2> DEFINE r == s \ {x}
  <2>2. r \in SUBSET S /\ r \in SUBSET s /\ r # s /\ IsFiniteSet(r) /\ \A y \in r : y \in s
    BY <1>3, <2>1, FS_Subset
  <2>3. /\ SumFunctionOnSet(F, s) = F[x] + SumFunctionOnSet(F, r)
        /\ SumFunctionOnSet(G, s) = G[x] + SumFunctionOnSet(G, r)
        /\ SumFunctionOnSet(H, s) = H[x] + SumFunctionOnSet(H, r)
    BY <1>3, <1>4, <2>1, SumIs
  <2> HIDE DEF r
  <2>4. SumFunctionOnSet(F, r) \in Int /\ SumFunctionOnSet(G, r) \in Int
    <3>1. \A y \in r : F[y] \in Int /\ G[y] \in Int
      BY <1>4, <2>2
    <3> QED
      BY <2>2, <3>1, SumIs
  <2>5. P(r)
    <3> HIDE DEF P
    <3> QED
      BY <1>2, <2>2
  <2> QED
    BY <1>3, <1>4, <2>1, <2>3, <2>4, <2>5
<1> QED
  BY <1>5, <1>6

\* Only terms that are not zero count.
LEMMA SumWhere ==
    ASSUME NEW S, IsFiniteSet(S), NEW T \in SUBSET S, NEW F, \A x \in S : F[x] \in Int,
           \A x \in S \ T : F[x] = 0
    PROVE  SumFunctionOnSet(F, S) = SumFunctionOnSet(F, T)
<1> DEFINE R == S \ T
           P(s) == SumFunctionOnSet(F, s) = 0
           Bad == {s \in SUBSET R : ~ P(s)}
<1>1. IsFiniteSet(R) /\ IsFiniteSet(T)
  BY FS_Subset
<1>2. SumFunctionOnSet(F, R) = 0
  <2>1. SUFFICES ASSUME Bad # {} PROVE FALSE
    OBVIOUS
  <2>2. PICK s \in Bad : \A t \in SUBSET s : t # s => t \notin Bad
    <3> HIDE DEF Bad
    <3>1. Bad \in SUBSET (SUBSET R)
      BY DEF Bad
    <3> HIDE DEF R
    <3> QED
      BY <1>1, <2>1, <3>1, SmallestSubset
  <2>3. s \in SUBSET R /\ ~ P(s) /\ IsFiniteSet(s) /\ \A x \in s : F[x] \in Int /\ F[x] = 0
    BY <1>1, <2>2, FS_Subset
  <2>4. s # {}
    BY <2>3, SumIs
  <2>5. PICK x \in s : TRUE
    BY <2>4
  <2> DEFINE r == s \ {x}
  <2>6. SumFunctionOnSet(F, s) = F[x] + SumFunctionOnSet(F, r)
    BY <2>3, <2>5, SumIs
  <2>7. P(r)
    <3>1. r \in SUBSET s /\ r # s /\ r \in SUBSET R
      BY <2>3, <2>5
    <3> HIDE DEF P, r, R
    <3> QED
      BY <2>2, <3>1
  <2> QED
    BY <2>3, <2>5, <2>6, <2>7
<1>3. T \cup R = S /\ T \cap R = {}
  OBVIOUS
<1> HIDE DEF R
<1>4. SumFunctionOnSet(F, T \cup R) = SumFunctionOnSet(F, T) + SumFunctionOnSet(F, R)
  BY <1>1, <1>3, SumUnion
<1>5. SumFunctionOnSet(F, T) \in Int
  BY <1>1, SumIs
<1>6. SumFunctionOnSet(F, T \cup R) = SumFunctionOnSet(F, S)
  BY <1>3, Zenon
<1> QED
  BY <1>2, <1>4, <1>5, <1>6

\* A sum of natural numbers is one, and zero only if all its terms are.
LEMMA SumNatural ==
    ASSUME NEW S, IsFiniteSet(S), NEW F, \A x \in S : F[x] \in Nat
    PROVE  SumFunctionOnSet(F, S) \in Nat /\ (SumFunctionOnSet(F, S) = 0 => \A x \in S : F[x] = 0)
<1> DEFINE P(s) == SumFunctionOnSet(F, s) \in Nat
           Bad == {s \in SUBSET S : ~ P(s)}
<1>1. ASSUME NEW s \in SUBSET S PROVE P(s)
  <2>1. SUFFICES ASSUME Bad # {} PROVE FALSE
    OBVIOUS
  <2>2. PICK t \in Bad : \A u \in SUBSET t : u # t => u \notin Bad
    <3> HIDE DEF Bad
    <3>1. Bad \in SUBSET (SUBSET S)
      BY DEF Bad
    <3> QED
      BY <2>1, <3>1, SmallestSubset
  <2>3. t \in SUBSET S /\ ~ P(t) /\ IsFiniteSet(t) /\ \A x \in t : F[x] \in Int
    BY <2>2, FS_Subset
  <2>4. t # {}
    <3>1. t = {} => SumFunctionOnSet(F, t) = SumFunctionOnSet(F, {})
      OBVIOUS
    <3>2. SumFunctionOnSet(F, {}) = 0
      BY <2>3, SumIs
    <3> QED
      BY <2>3, <3>1, <3>2
  <2>5. PICK x \in t : TRUE
    BY <2>4
  <2> DEFINE r == t \ {x}
  <2>6. SumFunctionOnSet(F, t) = F[x] + SumFunctionOnSet(F, r)
    BY <2>3, <2>5, SumIs
  <2>7. P(r)
    <3>1. r \in SUBSET t /\ r # t /\ r \in SUBSET S
      BY <2>3, <2>5
    <3> HIDE DEF P, r
    <3> QED
      BY <2>2, <3>1
  <2> QED
    BY <2>3, <2>5, <2>6, <2>7
<1>2. ASSUME SumFunctionOnSet(F, S) = 0, NEW x \in S PROVE F[x] = 0
  <2>1. SumFunctionOnSet(F, S) = F[x] + SumFunctionOnSet(F, S \ {x})
    BY SumIs
  <2>2. P(S \ {x}) /\ F[x] \in Nat
    BY <1>1
  <2> HIDE DEF Bad
  <2> QED
    BY <1>2, <2>1, <2>2
<1> QED
  BY <1>1, <1>2

\* A sum over the parts of a set, of the sums over each part, is the sum over the set.
LEMMA SumOfParts ==
    ASSUME NEW U, IsFiniteSet(U), NEW K, \A u \in U : IsFiniteSet(K[u]),
           \A u, v \in U : u # v => K[u] \cap K[v] = {},
           NEW F, \A u \in U : \A x \in K[u] : F[x] \in Int,
           NEW G, \A u \in U : G[u] = SumFunctionOnSet(F, K[u]),
           NEW W, \A x : x \in W <=> \E u \in U : x \in K[u]
    PROVE  IsFiniteSet(W) /\ SumFunctionOnSet(G, U) = SumFunctionOnSet(F, W)
<1> DEFINE All(s) == UNION {K[u] : u \in s}
           P(s) == IsFiniteSet(All(s)) /\ SumFunctionOnSet(G, s) = SumFunctionOnSet(F, All(s))
           Bad == {s \in SUBSET U : ~ P(s)}
<1>0. \A u \in U : G[u] \in Int
  BY SumIs
<1>1. SUFFICES ASSUME Bad # {} PROVE FALSE
  <2>1. W = All(U)
    OBVIOUS
  <2> QED
    BY <2>1
<1>2. PICK s \in Bad : \A t \in SUBSET s : t # s => t \notin Bad
  <2> HIDE DEF Bad
  <2>1. Bad \in SUBSET (SUBSET U)
    BY DEF Bad
  <2> QED
    BY <1>1, <2>1, SmallestSubset
<1>3. s \in SUBSET U /\ ~ P(s) /\ IsFiniteSet(s) /\ \A u \in s : G[u] \in Int
  <2>1. s \in SUBSET U /\ ~ P(s)
    BY <1>2
  <2>2. IsFiniteSet(s) /\ \A u \in s : G[u] \in Int
    BY <1>0, <2>1, FS_Subset
  <2> HIDE DEF P
  <2> QED
    BY <2>1, <2>2
<1>4. CASE s = {}
  <2>1. All({}) = {} /\ IsFiniteSet({})
    BY FS_EmptySet
  <2>2. SumFunctionOnSet(G, {}) = 0 /\ SumFunctionOnSet(F, {}) = 0
    BY <2>1, SumIs
  <2> QED
    BY <1>3, <1>4, <2>1, <2>2
<1>5. CASE s # {}
  <2>1. PICK u \in s : TRUE
    BY <1>5
  <2> DEFINE r == s \ {u}
             A == All(r)
             B == K[u]
  <2>2. P(r)
    <3>1. r \in SUBSET s /\ r # s /\ r \in SUBSET U
      BY <1>3, <2>1
    <3> HIDE DEF P, r
    <3> QED
      BY <1>2, <3>1
  <2>3. IsFiniteSet(A) /\ IsFiniteSet(B) /\ A \cap B = {} /\ \A x \in B \cup A : F[x] \in Int
    BY <1>3, <2>1, <2>2
  <2>4. All(s) = B \cup A
    BY <2>1
  <2> HIDE DEF A, B
  <2>5. SumFunctionOnSet(F, B \cup A) = SumFunctionOnSet(F, B) + SumFunctionOnSet(F, A)
    BY <2>3, SumUnion
  <2>6. SumFunctionOnSet(G, s) = G[u] + SumFunctionOnSet(G, r)
    BY <1>3, <2>1, SumIs
  <2>7. G[u] = SumFunctionOnSet(F, B)
    BY <1>3, <2>1 DEF B
  <2>8. SumFunctionOnSet(G, r) = SumFunctionOnSet(F, A)
    BY <2>2 DEF A
  <2>9. IsFiniteSet(B \cup A)
    BY <2>3, FS_Union
  <2> HIDE DEF All, r
  <2> QED
    BY <1>3, <2>4, <2>5, <2>6, <2>7, <2>8, <2>9
<1> QED
  BY <1>4, <1>5

-------------------------------------------------------------------------------
(* The graph of units *)

Graph(G) == IsFiniteSet(G.node) /\ G.node \subseteq Nat /\ G.edge \subseteq G.node \X G.node

\* No unit reaches another one and is reached from it, or itself by a connection.
Acyclic(G) ==
    /\ \A u, v \in G.node : Reaches(G, u, v) /\ Reaches(G, v, u) => u = v
    /\ \A u \in G.node : <<u, u>> \notin G.edge

\* Paths go on along edges.
LEMMA ReachesOn ==
    ASSUME NEW G, NEW u \in G.node, NEW v \in G.node, NEW w \in G.node
    PROVE  /\ Reaches(G, u, u)
           /\ <<u, v>> \in G.edge => Reaches(G, u, v)
           /\ Reaches(G, u, v) /\ Reaches(G, v, w) => Reaches(G, u, w)
<1>1. Reaches(G, u, u)
  BY DEF Reaches
<1>2. ASSUME <<u, v>> \in G.edge PROVE Reaches(G, u, v)
  BY <1>2 DEF Reaches
<1>3. ASSUME Reaches(G, u, v), Reaches(G, v, w) PROVE Reaches(G, u, w)
  BY <1>3 DEF Reaches
<1> QED
  BY <1>1, <1>2, <1>3

\* There is always a next unit: among those not done, one that the fewest others lead to has
\* all of its sources done, or it would be on a cycle.
LEMMA SomeReady ==
    ASSUME NEW G, Graph(G), Acyclic(G), NEW done, G.node \ done # {}
    PROVE  Ready(G, done) # {}
<1> DEFINE rest == G.node \ done
           Before(u) == {v \in rest : Reaches(G, v, u)}
           sets == {Before(u) : u \in rest}
<1>1. PICK N \in sets : \A K \in SUBSET N : K # N => K \notin sets
  <2>1. IsFiniteSet(G.node) /\ sets \in SUBSET (SUBSET G.node) /\ sets # {}
    BY DEF Graph
  <2> HIDE DEF sets
  <2> QED
    BY <2>1, SmallestSubset
<1>2. PICK u \in rest : N = Before(u)
  BY <1>1
<1>3. Predecessors(G, u) \subseteq done
  <2>1. SUFFICES ASSUME NEW v \in rest, <<v, u>> \in G.edge PROVE FALSE
    BY DEF Predecessors
  <2>2. Reaches(G, v, u) /\ Reaches(G, u, u) /\ v # u
    BY <2>1, ReachesOn DEF Acyclic
  <2>3. Before(v) \subseteq Before(u)
    BY <2>2, ReachesOn
  <2>4. u \notin Before(v)
    BY <2>2 DEF Acyclic
  <2>5. u \in Before(u) /\ Before(v) \in sets
    BY <2>1, <2>2
  <2> HIDE DEF Before, sets
  <2> QED
    BY <1>1, <1>2, <2>3, <2>4, <2>5
<1> QED
  BY <1>3 DEF Ready

\* Units in an order in which their sources come before them.
InOrderOf(G, s) ==
    /\ s \in Seq(G.node)
    /\ \A i, j \in 1 .. Len(s) : s[i] = s[j] => i = j
    /\ \A i \in 1 .. Len(s) : \A u \in G.node :
          <<u, s[i]>> \in G.edge => \E j \in 1 .. i - 1 : s[j] = u

\* Units in the order so far: while they are not all, some are left.
LEMMA RangeOfOrder ==
    ASSUME NEW G, Graph(G), NEW s, InOrderOf(G, s)
    PROVE  /\ Range(s) = {s[i] : i \in 1 .. Len(s)} /\ Range(s) \subseteq G.node
           /\ Len(s) < Cardinality(G.node) => G.node \ Range(s) # {}
           /\ Len(s) = Cardinality(G.node) => G.node \subseteq Range(s)
<1>1. s \in [1 .. Len(s) -> G.node] /\ Len(s) \in Nat /\ DOMAIN s = 1 .. Len(s)
  BY DEF InOrderOf
<1>2. Range(s) = {s[i] : i \in 1 .. Len(s)} /\ Range(s) \subseteq G.node
  BY <1>1 DEF Range
<1>3. IsFiniteSet(1 .. Len(s)) /\ Cardinality(1 .. Len(s)) = Len(s)
  <2>1. 1 \in Int /\ Len(s) \in Int
    BY <1>1
  <2>2. /\ IsFiniteSet(1 .. Len(s))
        /\ Cardinality(1 .. Len(s)) = IF 1 > Len(s) THEN 0 ELSE Len(s) - 1 + 1
    BY ONLY <2>1, FS_Interval
  <2> QED
    BY <1>1, <2>2
<1>4. IsFiniteSet(G.node) /\ Cardinality(G.node) \in Nat
  BY FS_CardinalityType DEF Graph
<1>5. s \in Injection(1 .. Len(s), G.node)
  BY <1>1 DEF InOrderOf, Injection, IsInjective
<1>6. Len(s) = Cardinality(G.node) <=> s \in Surjection(1 .. Len(s), G.node)
  BY <1>3, <1>4, <1>5, FS_Injection
<1>7. s \in Surjection(1 .. Len(s), G.node) <=> G.node \subseteq Range(s)
  BY <1>1, <1>2 DEF Surjection
<1> QED
  BY <1>1, <1>2, <1>4, <1>6, <1>7
\* Every prefix of the order is one of distinct units, each after its sources.
LEMMA FirstInOrder ==
    ASSUME NEW G, Graph(G), Acyclic(G), NEW f, f = FirstUpTo(G, Cardinality(G.node), f),
           NEW n \in 0 .. Cardinality(G.node)
    PROVE  InOrderOf(G, f[n]) /\ Len(f[n]) = n
<1> DEFINE N == Cardinality(G.node)
           Good(k) == InOrderOf(G, f[k]) /\ Len(f[k]) = k
           Bad == {k \in 0 .. N : ~ Good(k)}
<1>0. N \in Nat /\ f[0] = << >>
  BY FS_CardinalityType DEF Graph, FirstUpTo
<1>1. SUFFICES ASSUME Bad # {} PROVE FALSE
  OBVIOUS
<1>2. PICK k \in Bad : \A i \in Bad : k <= i
  <2>1. Bad \in SUBSET Nat
    BY <1>0
  <2> HIDE DEF Bad
  <2> QED
    BY <1>1, <2>1, SmallestNumber
<1>3. k # 0
  <2>1. InOrderOf(G, << >>) /\ Len(<< >>) = 0
    BY DEF InOrderOf
  <2> QED
    BY <1>0, <1>2, <2>1
<1> DEFINE s == f[k - 1]
           u == Min(Ready(G, Range(s)))
<1>4. k \in 1 .. N /\ InOrderOf(G, s) /\ Len(s) = k - 1 /\ f[k] = Append(s, u)
  <2>1. k \in 1 .. N /\ k - 1 \in 0 .. N /\ k - 1 \notin Bad
    BY <1>0, <1>2, <1>3
  <2>2. f[k] = Append(s, u)
    <3>1. FirstUpTo(G, N, f)[k] = Append(f[k - 1], Min(Ready(G, Range(f[k - 1]))))
      BY <1>0, <2>1 DEF FirstUpTo
    <3> QED
      BY <3>1
  <2> QED
    BY <2>1, <2>2
<1>5. u \in Ready(G, Range(s))
  <2>1. Ready(G, Range(s)) # {}
    BY <1>0, <1>4, RangeOfOrder, SomeReady
  <2>2. Ready(G, Range(s)) \in SUBSET Nat
    BY DEF Ready, Graph
  <2> QED
    BY <2>1, <2>2, MinIsSmallest
<1> HIDE DEF s, u
<1>6. u \in G.node /\ \A i \in 1 .. Len(s) : s[i] # u
  BY <1>4, <1>5, RangeOfOrder DEF Ready
<1>7. \A v \in G.node : <<v, u>> \in G.edge => \E i \in 1 .. Len(s) : s[i] = v
  <2>1. Predecessors(G, u) \subseteq {s[i] : i \in 1 .. Len(s)}
    BY <1>4, <1>5, RangeOfOrder DEF Ready
  <2> QED
    BY <2>1 DEF Predecessors
<1> DEFINE t == Append(s, u)
<1>8. /\ t \in Seq(G.node) /\ Len(t) = k /\ k \in Nat /\ t[k] = u
      /\ \A i \in 1 .. k - 1 : t[i] = s[i]
  <2>1. s \in Seq(G.node) /\ Len(s) = k - 1 /\ k \in Nat
    BY <1>0, <1>4 DEF InOrderOf
  <2> QED
    BY <1>6, <2>1
<1> HIDE DEF t
<1>9. \A i, j \in 1 .. Len(t) : t[i] = t[j] => i = j
  BY <1>4, <1>6, <1>8 DEF InOrderOf
<1>10. ASSUME NEW i \in 1 .. Len(t), NEW v \in G.node, <<v, t[i]>> \in G.edge
       PROVE  \E j \in 1 .. i - 1 : t[j] = v
  <2>1. CASE i = k
    BY <1>4, <1>7, <1>8, <1>10, <2>1
  <2>2. CASE i # k
    <3>1. i \in 1 .. Len(s) /\ t[i] = s[i]
      BY <1>4, <1>8, <2>2
    <3>2. PICK j \in 1 .. i - 1 : s[j] = v
      BY <1>4, <1>10, <3>1 DEF InOrderOf
    <3>3. j \in 1 .. k - 1
      BY <1>4, <1>8, <3>1, <3>2
    <3> QED
      BY <1>8, <3>2, <3>3
  <2> QED
    BY <2>1, <2>2
<1>11. InOrderOf(G, t) /\ Len(t) = k
  BY <1>8, <1>9, <1>10 DEF InOrderOf
<1> QED
  BY <1>2, <1>4, <1>11 DEF t

\* execution_order of an acyclic sheet has every unit once, and its sources before it.
LEMMA OrderIsTopological ==
    ASSUME NEW c, Graph(Sheet(c)), Acyclic(Sheet(c))
    PROVE  /\ InOrderOf(Sheet(c), ExecutionOrder(c))
           /\ Len(ExecutionOrder(c)) = Cardinality(Sheet(c).node)
           /\ \A u \in Sheet(c).node : \E i \in 1 .. Len(ExecutionOrder(c)) : ExecutionOrder(c)[i] = u
<1> DEFINE G == Sheet(c)
<1>1. IsFiniteSet(G.node) /\ Cardinality(G.node) \in Nat
  BY FS_CardinalityType DEF Graph
<1>2. PICK f : /\ f = FirstUpTo(G, Cardinality(G.node), f)
               /\ ExecutionOrder(c) = f[Cardinality(G.node)]
  BY <1>1, OrderOfFirst
<1>3. Cardinality(G.node) \in 0 .. Cardinality(G.node)
  BY <1>1
<1>4. InOrderOf(G, ExecutionOrder(c)) /\ Len(ExecutionOrder(c)) = Cardinality(G.node)
  BY <1>2, <1>3, FirstInOrder
<1> QED
  BY <1>4, RangeOfOrder

\* A group of units that reach each other is what makes a sheet cyclic.
LEMMA NoRecycle ==
    ASSUME NEW c, Graph(Sheet(c))
    PROVE  RecycleGroups(c) = {} <=> Acyclic(Sheet(c))
<1> DEFINE G == Sheet(c)
           Component(u) == {v \in G.node : Reaches(G, u, v) /\ Reaches(G, v, u)}
           Cycle(g) == Cardinality(g) > 1 \/ \E u \in g : <<u, u>> \in G.edge
<1>1. RecycleGroups(c) = {} <=> \A u \in G.node : ~ Cycle(Component(u))
  BY DEF RecycleGroups
<1>2. ASSUME NEW u \in G.node
      PROVE  /\ IsFiniteSet(Component(u)) /\ u \in Component(u)
             /\ Cardinality(Component(u)) \in Nat
             /\ Cardinality(Component(u)) > 1 <=> Component(u) # {u}
  <2>1. u \in Component(u) /\ Component(u) \in SUBSET G.node
    BY ReachesOn
  <2> HIDE DEF Component
  <2>2. IsFiniteSet(Component(u)) /\ Cardinality(Component(u)) \in Nat
    BY <2>1, FS_Subset, FS_CardinalityType DEF Graph
  <2>3. Cardinality(Component(u)) # 0
    BY <2>1, <2>2, FS_EmptySet
  <2>4. Cardinality(Component(u)) = 1 <=> Component(u) = {u}
    BY <2>1, <2>2, FS_Singleton
  <2> QED
    BY <2>1, <2>2, <2>3, <2>4
<1>3. ASSUME \A u \in G.node : ~ Cycle(Component(u)) PROVE Acyclic(G)
  <2>1. ASSUME NEW u \in G.node
        PROVE  Component(u) = {u} /\ <<u, u>> \notin G.edge
    <3>1. ~ Cycle(Component(u))
      BY <1>3
    <3> HIDE DEF Component
    <3> QED
      BY <1>2, <3>1
  <2> QED
    BY <2>1 DEF Acyclic
<1>4. ASSUME Acyclic(G), NEW u \in G.node PROVE ~ Cycle(Component(u))
  <2>1. Component(u) = {u}
    BY <1>2, <1>4 DEF Acyclic
  <2>2. Cardinality({u}) = 1
    BY FS_Singleton
  <2> HIDE DEF Component
  <2> QED
    BY <1>4, <2>1, <2>2 DEF Acyclic
<1> QED
  BY <1>1, <1>3, <1>4

-------------------------------------------------------------------------------
(* What the compiler calls valid *)

CaseOK == case.units \in Sheets /\ IsFiniteSet(case.connections)

\* Models by name, and the kinds of their ports.
LEMMA PortTable ==
    /\ ModelIds = {"source", "sink", "heater", "mixer", "splitter", "heat_exchanger", "radiator"}
    /\ \A m \in ModelIds : \A p \in ModelPorts[m] :
          /\ p.direction \in {"input", "output"} /\ p.kind \in {"material", "energy"}
          /\ p.direction = "input" => p = In(p.id)
          /\ p.direction = "output" /\ p.kind = "material" => p = Out(p.id)
<1>1. ModelIds = {"source", "sink", "heater", "mixer", "splitter", "heat_exchanger", "radiator"}
  BY DEF ModelIds, ModelPorts
<1>2. \A m \in ModelIds : ModelPorts[m] \subseteq {Port(i, k, d) :
            i \in {"outlet", "inlet", "duty", "inlet-a", "inlet-b", "outlet-a", "outlet-b",
                   "hot-in", "hot-out", "cold-in", "cold-out"},
            k \in {"material", "energy"}, d \in {"input", "output"}}
  BY <1>1 DEF ModelPorts, In, Out, Duty
<1>3. \A m \in ModelIds : \A p \in ModelPorts[m] : p.direction = "input" => p.kind = "material"
  BY <1>1 DEF ModelPorts, In, Out, Duty, Port
<1> QED
  BY <1>1, <1>2, <1>3 DEF Port, In, Out

\* Sets that are written out are finite.
LEMMA FewFinite == \A a, b, c, d : IsFiniteSet({a, b, c, d})
<1>1. ASSUME NEW a, NEW b, NEW c, NEW d PROVE IsFiniteSet({a, b, c, d})
  <2>1. IsFiniteSet({a} \cup {b}) /\ IsFiniteSet({c} \cup {d})
    BY FS_Singleton, FS_Union
  <2>2. IsFiniteSet(({a} \cup {b}) \cup ({c} \cup {d}))
    BY <2>1, FS_Union
  <2>3. {a, b, c, d} = ({a} \cup {b}) \cup ({c} \cup {d})
    OBVIOUS
  <2> QED
    BY <2>2, <2>3
<1> QED
  BY <1>1

LEMMA FamilyFinite ==
    ASSUME NEW F, IsFiniteSet(DOMAIN F), \A u \in DOMAIN F : IsFiniteSet(F[u])
    PROVE  IsFiniteSet(UNION {F[u] : u \in DOMAIN F})
<1> DEFINE T == {F[u] : u \in DOMAIN F}
           H == [u \in DOMAIN F |-> F[u]]
<1>1. H \in Surjection(DOMAIN F, T)
  BY DEF Surjection
<1>2. IsFiniteSet(T)
  <2> HIDE DEF H, T
  <2> QED
    BY <1>1, FS_Surjection
<1>3. \A t \in T : IsFiniteSet(t)
  OBVIOUS
<1>4. IsFiniteSet(UNION T)
  <2> HIDE DEF T
  <2> QED
    BY <1>2, <1>3, FS_UNION
<1> QED
  BY <1>4

LEMMA TablesFinite ==
    \A m \in ModelIds : IsFiniteSet(Required[m]) /\ IsFiniteSet(ModelPorts[m])
<1> DEFINE names == {"mass_flow", "temperature", "pressure", "material_id"}
                    \cup {"duty", "split_fraction", "effectiveness", "emissivity"}
                    \cup {"outlet_temperature", "outlet_temperature", "outlet_temperature", "outlet_temperature"}
           ports == {In("inlet"), In("inlet-a"), In("inlet-b"), In("hot-in")}
                    \cup {In("cold-in"), Out("outlet"), Out("outlet-a"), Out("outlet-b")}
                    \cup {Out("hot-out"), Out("cold-out"), Duty, Duty}
<1>1. IsFiniteSet(names) /\ IsFiniteSet(ports)
  <2>1. \A S, T, U : IsFiniteSet(S) /\ IsFiniteSet(T) /\ IsFiniteSet(U) => IsFiniteSet(S \cup T \cup U)
    BY FS_Union
  <2> QED
    BY <2>1, FewFinite
<1>2. \A m \in ModelIds : Required[m] \in SUBSET names
  BY PortTable DEF Required
<1>3. \A m \in ModelIds : ModelPorts[m] \in SUBSET ports
  BY PortTable DEF ModelPorts
<1> HIDE DEF names, ports
<1> QED
  BY <1>1, <1>2, <1>3, FS_Subset

\* No degrees of freedom: every parameter is given and every inlet connected.
LEMMA NothingMissing ==
    ASSUME CaseOK
    PROVE  DegreesOfFreedom(case) = 0 <=> Missing(case) = {} /\ Unconnected(case) = {}
<1>0. IsFiniteSet(Known(case))
  <2>1. IsFiniteSet(DOMAIN case.units)
    BY SheetsAssumption DEF CaseOK
  <2>2. Known(case) \in SUBSET (DOMAIN case.units)
    BY DEF Known
  <2> QED
    BY <2>1, <2>2, FS_Subset
<1>1. IsFiniteSet(Missing(case))
  <2> DEFINE F == [u \in Known(case) |-> {u} \X Required[case.units[u].model]]
  <2>1. \A u \in DOMAIN F : IsFiniteSet(F[u])
    BY TablesFinite, FS_Singleton, FS_Product DEF Known
  <2>2. IsFiniteSet(UNION {F[u] : u \in DOMAIN F})
    <3>1. IsFiniteSet(DOMAIN F)
      BY <1>0
    <3> HIDE DEF F
    <3> QED
      BY <2>1, <3>1, FamilyFinite
  <2>3. Missing(case) \in SUBSET (UNION {F[u] : u \in DOMAIN F})
    BY DEF Missing
  <2> QED
    BY <2>2, <2>3, FS_Subset
<1>2. IsFiniteSet(Unconnected(case))
  <2> DEFINE F == [u \in Known(case) |-> {u} \X Inlets(case, u)]
  <2>1. \A u \in DOMAIN F : IsFiniteSet(F[u])
    <3>1. \A u \in Known(case) : IsFiniteSet(PortsOf(case, u)) /\ Inlets(case, u) \in SUBSET PortsOf(case, u)
      BY TablesFinite DEF Known, PortsOf, Inlets
    <3>2. \A u \in Known(case) : IsFiniteSet(Inlets(case, u))
      BY <3>1, FS_Subset
    <3> QED
      BY <3>2, FS_Singleton, FS_Product
  <2>2. IsFiniteSet(UNION {F[u] : u \in DOMAIN F})
    <3>1. IsFiniteSet(DOMAIN F)
      BY <1>0
    <3> HIDE DEF F
    <3> QED
      BY <2>1, <3>1, FamilyFinite
  <2>3. Unconnected(case) \in SUBSET (UNION {F[u] : u \in DOMAIN F})
    BY DEF Unconnected
  <2> QED
    BY <2>2, <2>3, FS_Subset
<1>3. \A S : IsFiniteSet(S) => Cardinality(S) \in Nat /\ (Cardinality(S) = 0 <=> S = {})
  BY FS_CardinalityType, FS_EmptySet
<1> QED
  BY <1>1, <1>2, <1>3 DEF DegreesOfFreedom
\* The units and their connections are a finite graph.
LEMMA SheetIsGraph ==
    ASSUME CaseOK
    PROVE  /\ Graph(Sheet(case)) /\ Sheet(case).node = Units
           /\ Sheet(case).edge = {<<c.source, c.target>> : c \in Joined(case)}
<1>1. IsFiniteSet(Units) /\ Units \subseteq Nat
  BY SheetsAssumption DEF CaseOK, Units
<1>2. Sheet(case).node = Units /\ Sheet(case).edge = {<<c.source, c.target>> : c \in Joined(case)}
  BY DEF Sheet, Units
<1>3. \A c \in Joined(case) : c.source \in Units /\ c.target \in Units
  BY DEF Joined, PortsFound, OfKnownModels, Known, Units
<1> QED
  BY <1>1, <1>2, <1>3 DEF Graph

\* A ranking that every connection follows leaves no way back.
LEMMA RankedIsAcyclic ==
    ASSUME NEW G, G.edge \subseteq G.node \X G.node, NEW rank \in [G.node -> Nat],
           \A e \in G.edge : rank[e[1]] < rank[e[2]]
    PROVE  Acyclic(G)
<1>1. ASSUME NEW u \in G.node, NEW v \in G.node, Reaches(G, u, v)
      PROVE  u = v \/ rank[u] < rank[v]
  <2> DEFINE S == {w \in G.node : u = w \/ rank[u] < rank[w]}
  <2>1. \A e \in G.edge : e[1] \in S => e[2] \in S
    <3>1. SUFFICES ASSUME NEW e \in G.edge, e[1] \in S PROVE e[2] \in S
      OBVIOUS
    <3>2. e[1] \in G.node /\ e[2] \in G.node /\ rank[e[1]] < rank[e[2]]
      OBVIOUS
    <3>3. rank[e[1]] \in Nat /\ rank[e[2]] \in Nat /\ rank[u] \in Nat
      BY <3>2
    <3> QED
      BY <3>1, <3>2, <3>3
  <2>2. u \in S /\ S \in SUBSET G.node
    OBVIOUS
  <2>3. v \in S
    <3> HIDE DEF S
    <3> QED
      BY <1>1, <2>1, <2>2 DEF Reaches
  <2> QED
    BY <2>3
<1>2. \A u \in G.node : rank[u] \in Nat
  OBVIOUS
<1>3. ASSUME NEW u \in G.node, NEW v \in G.node, Reaches(G, u, v), Reaches(G, v, u)
      PROVE  u = v
  BY <1>1, <1>2, <1>3
<1>4. ASSUME NEW u \in G.node, <<u, u>> \in G.edge PROVE FALSE
  <2>1. rank[<<u, u>>[1]] < rank[<<u, u>>[2]]
    BY <1>4
  <2> QED
    BY <1>2, <2>1
<1> QED
  BY <1>3, <1>4 DEF Acyclic

\* A connection of a valid case is found, joins an output to an input, and is the only one of both.
LEMMA ValidJoins ==
    ASSUME CaseOK, Valid(case)
    PROVE  /\ Known(case) = Units /\ Joined(case) = case.connections
           /\ Missing(case) = {} /\ Unconnected(case) = {}
           /\ Fanout(case) = {} /\ MultipleFeeds(case) = {}
           /\ Acyclic(Sheet(case))
<1>1. Known(case) = Units /\ UnknownUnit(case) = {}
  BY DEF Valid, Units
<1>2. OfKnownModels(case) = case.connections
  BY <1>1 DEF UnknownUnit, OfKnownModels, Units
<1>3. Joined(case) = case.connections
  BY <1>2 DEF Valid
<1>4. Missing(case) = {} /\ Unconnected(case) = {}
  BY NothingMissing DEF Valid
<1>5. Acyclic(Sheet(case))
  BY NoRecycle, SheetIsGraph DEF Valid
<1> QED
  BY <1>1, <1>3, <1>4, <1>5 DEF Valid

\* In a valid case the place of a unit in the execution order is a rank.
LEMMA ValidOrders ==
    ASSUME CaseOK, Valid(case)
    PROVE  CanBeOrdered
<1> DEFINE G == Sheet(case)
           order == ExecutionOrder(case)
           N == Cardinality(Units)
<1>1. Graph(G) /\ G.node = Units /\ G.edge = {<<c.source, c.target>> : c \in case.connections}
  BY SheetIsGraph, ValidJoins
<1>2. /\ InOrderOf(G, order) /\ Len(order) = N
      /\ \A u \in Units : \E i \in 1 .. Len(order) : order[i] = u
  BY <1>1, ValidJoins, OrderIsTopological
<1> HIDE DEF order
<1> DEFINE at(u) == CHOOSE i \in 1 .. Len(order) : order[i] = u
           rank == [u \in Units |-> at(u)]
<1>3. \A u \in Units : at(u) \in 1 .. N /\ order[at(u)] = u
  BY <1>2
<1>4. rank \in [Units -> 1 .. N]
  BY <1>3
<1>5. ASSUME NEW c \in case.connections
      PROVE  rank[c.source] < rank[c.target]
  <2>0. <<c.source, c.target>> \in G.edge
    BY <1>1
  <2>1. c.source \in Units /\ c.target \in Units
    BY <1>1, <2>0 DEF Graph
  <2>2. at(c.target) \in 1 .. Len(order) /\ order[at(c.target)] = c.target
    BY <1>2, <1>3, <2>1
  <2> HIDE DEF at
  <2>3. PICK j \in 1 .. at(c.target) - 1 : order[j] = c.source
    BY <1>1, <2>0, <1>2, <2>1, <2>2 DEF InOrderOf
  <2>4. at(c.source) \in 1 .. Len(order) /\ order[at(c.source)] = c.source
    BY <1>2, <1>3, <2>1
  <2>5. j \in 1 .. Len(order) /\ Len(order) \in Nat
    BY <1>2, <2>2, <2>3 DEF InOrderOf
  <2>6. at(c.source) = j
    BY <1>2, <2>3, <2>4, <2>5 DEF InOrderOf
  <2> QED
    BY <2>1, <2>2, <2>3, <2>5, <2>6
<1> QED
  BY <1>4, <1>5 DEF CanBeOrdered

\* One direction of the verdict: what is called valid is well posed.
LEMMA ValidIsEvaluable ==
    ASSUME CaseOK, Valid(case)
    PROVE  WellPosed
<1>1. /\ Known(case) = Units /\ Joined(case) = case.connections
      /\ Missing(case) = {} /\ Unconnected(case) = {}
      /\ Fanout(case) = {} /\ MultipleFeeds(case) = {}
  BY ValidJoins
<1>2. ASSUME NEW u \in Units
      PROVE  /\ case.units[u].model \in ModelIds
             /\ Required[case.units[u].model] \subseteq DOMAIN case.units[u].parameters
  <2>1. u \in Known(case)
    BY <1>1
  <2>2. ASSUME NEW name \in Required[case.units[u].model]
        PROVE  name \in DOMAIN case.units[u].parameters
    <3>1. <<u, name>> \in UNION {{v} \X Required[case.units[v].model] : v \in Known(case)}
      BY <2>1
    <3>2. <<u, name>> \notin Missing(case)
      BY <1>1
    <3> QED
      BY <3>1, <3>2 DEF Missing
  <2> QED
    BY <2>1, <2>2 DEF Known
<1>3. ASSUME NEW c \in case.connections
      PROVE  /\ {c.source, c.target} \subseteq Units
             /\ Out(c.out) \in PortsOf(case, c.source) /\ In(c.in) \in PortsOf(case, c.target)
  <2>1. c \in Joined(case) /\ c.source \in Known(case) /\ c.target \in Known(case)
    BY <1>1 DEF Joined, PortsFound, OfKnownModels
  <2>2. PICK p \in PortsOf(case, c.source), q \in PortsOf(case, c.target) :
          p.id = c.out /\ q.id = c.in /\ PortsAreCompatible(p, q)
    BY <2>1 DEF Joined
  <2>3. case.units[c.source].model \in ModelIds /\ case.units[c.target].model \in ModelIds
    BY <2>1 DEF Known
  <2>4. q = In(c.in) /\ q.kind = "material"
    BY <2>2, <2>3, PortTable DEF PortsOf, PortsAreCompatible, In, Port
  <2>5. p = Out(c.out)
    BY <2>2, <2>3, <2>4, PortTable DEF PortsOf, PortsAreCompatible
  <2> QED
    BY <1>1, <2>1, <2>2, <2>4, <2>5
<1>4. ASSUME NEW u \in Units, NEW p \in Inlets(case, u)
      PROVE  Cardinality({c \in case.connections : c.target = u /\ c.in = p.id}) = 1
  <2> DEFINE S == {c \in case.connections : c.target = u /\ c.in = p.id}
  <2>1. <<u, p>> \notin Unconnected(case) /\ <<u, p>>[1] = u /\ <<u, p>>[2] = p
    BY <1>1
  <2>2. S # {}
    BY <1>1, <2>1 DEF Unconnected
  <2>3. \A c, d \in S : c = d
    BY <1>1 DEF MultipleFeeds
  <2>4. \E c : S = {c}
    BY <2>2, <2>3
  <2> QED
    BY <2>4, FS_Singleton
<1>5. \A c, d \in case.connections : c.source = d.source /\ c.out = d.out => c = d
  BY <1>1 DEF Fanout
<1> QED
  BY <1>2, <1>3, <1>4, <1>5, ValidOrders DEF WellPosed

\* The other: what is well posed is called valid.
LEMMA EvaluableIsValid ==
    ASSUME CaseOK, WellPosed
    PROVE  Valid(case)
<1>1. Known(case) = DOMAIN case.units /\ UnknownUnit(case) = {}
  BY DEF WellPosed, Known, UnknownUnit, Units
<1>2. OfKnownModels(case) = case.connections
  BY <1>1 DEF OfKnownModels, WellPosed, Units
<1>3. ASSUME NEW c \in case.connections PROVE c \in PortsFound(case) /\ c \in Joined(case)
  <2>1. Out(c.out) \in PortsOf(case, c.source) /\ In(c.in) \in PortsOf(case, c.target)
    BY DEF WellPosed
  <2>2. Out(c.out).id = c.out /\ In(c.in).id = c.in /\ PortsAreCompatible(Out(c.out), In(c.in))
    BY DEF Out, In, Port, PortsAreCompatible
  <2>3. c \in PortsFound(case)
    BY <1>2, <2>1, <2>2 DEF PortsFound
  <2> QED
    BY <2>1, <2>2, <2>3 DEF Joined
<1>4. PortsFound(case) = OfKnownModels(case) /\ Joined(case) = PortsFound(case)
      /\ Joined(case) = case.connections
  BY <1>2, <1>3 DEF PortsFound, Joined
<1>5. Missing(case) = {}
  BY <1>1 DEF WellPosed, Missing, Units
<1>6. ASSUME NEW u \in Units, NEW p \in Inlets(case, u)
      PROVE  \E c \in case.connections :
                /\ c.target = u /\ c.in = p.id
                /\ \A d \in case.connections : d.target = u /\ d.in = p.id => d = c
  <2> DEFINE S == {c \in case.connections : c.target = u /\ c.in = p.id}
  <2>1. Cardinality(S) = 1
    BY DEF WellPosed
  <2>2. IsFiniteSet(S)
    <3>1. S \in SUBSET case.connections
      OBVIOUS
    <3> QED
      BY <3>1, FS_Subset DEF CaseOK
  <2>3. \E c : S = {c}
    <3> HIDE DEF S
    <3> QED
      BY <2>1, <2>2, FS_Singleton
  <2> QED
    BY <2>3
<1>7. Unconnected(case) = {}
  <2>1. SUFFICES ASSUME NEW u \in Known(case), NEW p \in Inlets(case, u)
                 PROVE  \E c \in Joined(case) : c.target = u /\ c.in = p.id
    BY DEF Unconnected
  <2> QED
    BY <1>1, <1>4, <1>6 DEF Units
<1>8. MultipleFeeds(case) = {}
  <2>1. SUFFICES ASSUME NEW c \in case.connections, NEW d \in case.connections,
                        d.target = c.target, d.in = c.in
                 PROVE  d = c
    BY <1>4 DEF MultipleFeeds
  <2>2. c.target \in Units /\ In(c.in) \in Inlets(case, c.target) /\ In(c.in).id = c.in
    BY DEF WellPosed, Inlets, In, Port
  <2> QED
    BY <1>6, <2>1, <2>2
<1>9. Fanout(case) = {}
  BY <1>4 DEF Fanout, WellPosed
<1>10. RecycleGroups(case) = {}
  <2>1. PICK rank \in [Units -> 1 .. Cardinality(Units)] :
          \A c \in case.connections : rank[c.source] < rank[c.target]
    BY DEF WellPosed, CanBeOrdered
  <2>2. /\ Graph(Sheet(case)) /\ Sheet(case).node = Units
        /\ Sheet(case).edge = {<<c.source, c.target>> : c \in case.connections}
    BY <1>4, SheetIsGraph
  <2>3. rank \in [Sheet(case).node -> Nat]
    BY <2>1, <2>2
  <2>4. \A e \in Sheet(case).edge : rank[e[1]] < rank[e[2]]
    BY <2>1, <2>2
  <2>5. Acyclic(Sheet(case))
    BY <2>2, <2>3, <2>4, RankedIsAcyclic DEF Graph
  <2> QED
    BY <2>2, <2>5, NoRecycle
<1> QED
  BY <1>1, <1>4, <1>5, <1>7, <1>8, <1>9, <1>10, NothingMissing DEF Valid

-------------------------------------------------------------------------------
(* What an evaluation makes of its inputs *)

Validity == DOMAIN Rank

\* Validities and their ranks.
LEMMA Ranks ==
    /\ Validity = {"UNKNOWN", "VALID", "EXTRAPOLATED", "INVALID"}
    /\ Rank["UNKNOWN"] = 0 /\ Rank["VALID"] = 1 /\ Rank["EXTRAPOLATED"] = 2 /\ Rank["INVALID"] = 3
  BY DEF Validity, Rank

\* The worst of a set of validities is one of them and no better than any.
LEMMA WorstIsWorst ==
    ASSUME NEW S \in SUBSET Validity
    PROVE  /\ WorstValidity(S) \in Validity
           /\ S # {} => WorstValidity(S) \in S
           /\ \A v \in S : Rank[v] <= Rank[WorstValidity(S)]
<1>1. CASE S = {}
  BY <1>1, Ranks DEF WorstValidity
<1>2. CASE S # {}
  <2>1. \E v \in S : \A w \in S : Rank[v] >= Rank[w]
    <3>1. CASE "INVALID" \in S
      BY <3>1, Ranks
    <3>2. CASE "INVALID" \notin S /\ "EXTRAPOLATED" \in S
      BY <3>2, Ranks
    <3>3. CASE "INVALID" \notin S /\ "EXTRAPOLATED" \notin S /\ "VALID" \in S
      BY <3>3, Ranks
    <3>4. CASE S = {"UNKNOWN"}
      BY <3>4, Ranks
    <3> QED
      BY <1>2, <3>1, <3>2, <3>3, <3>4, Ranks
  <2>2. WorstValidity(S) \in S /\ \A w \in S : Rank[WorstValidity(S)] >= Rank[w]
    BY <1>2, <2>1 DEF WorstValidity
  <2>3. \A v \in Validity : Rank[v] \in Nat
    BY Ranks
  <2> QED
    BY <2>2, <2>3
<1> QED
  BY <1>1, <1>2

\* A material value: whole quantities, and the validity that the data give its temperature.
IsStream(s) ==
    /\ DOMAIN s = {"kind", "material", "flow", "heat", "temperature", "validity"}
    /\ s.kind = "material"
    /\ s.flow \in Int /\ s.heat \in Int /\ s.temperature \in Int
    /\ s.validity = FlashValidity(s.material, s.temperature)
Carries(p, v, validity) ==
    /\ v.kind = p.kind
    /\ v.kind = "energy" => v.duty \in Int
    /\ v.kind = "material" => IsStream(v) /\ Rank[v.validity] <= Rank[validity]

\* What holds of an evaluation whose inlets carry streams.
Inputs(m) == {p \in ModelPorts[m] : p.direction = "input"}
Outputs(m) == {p \in ModelPorts[m] : p.direction = "output"}
Fed(m, x) == \A p \in Inputs(m) : IsStream(x[p.id])
Sound(m, e) ==
    /\ e.validity \in Validity
    /\ DOMAIN e.outputs = {p.id : p \in Outputs(m)}
    /\ \A p \in Outputs(m) : Carries(p, e.outputs[p.id], e.validity)

\* The fields of a stream.
LEMMA StreamIs ==
    ASSUME NEW m, NEW f \in Int, NEW h \in Int, NEW t \in Int
    PROVE  /\ IsStream(Stream(m, f, h, t)) /\ Stream(m, f, h, t).validity \in Validity
           /\ Stream(m, f, h, t).kind = "material" /\ Stream(m, f, h, t).material = m
           /\ Stream(m, f, h, t).flow = f /\ Stream(m, f, h, t).heat = h
           /\ Stream(m, f, h, t).temperature = t
  BY Ranks DEF IsStream, Stream, FlashValidity

\* The same for a stream that is given by its heat.
LEMMA StreamOfHeatIs ==
    ASSUME NEW m, NEW f \in Int, NEW h \in Int, CanFlashHeat(m, f, h)
    PROVE  /\ IsStream(StreamOfHeat(m, f, h)) /\ StreamOfHeat(m, f, h).validity \in Validity
           /\ StreamOfHeat(m, f, h).kind = "material" /\ StreamOfHeat(m, f, h).material = m
           /\ StreamOfHeat(m, f, h).flow = f /\ StreamOfHeat(m, f, h).heat = h
<1>1. TemperatureOf(f, h) \in Int
  <2>1. f # 0
    BY DEF CanFlashHeat
  <2>2. CASE f > 0
    BY <2>2 DEF TemperatureOf
  <2>3. CASE f < 0
    <3>1. - f > 0 /\ - f \in Int /\ - h \in Int
      BY <2>3
    <3>2. (- h) \div (- f) \in Int
      BY <3>1
    <3> QED
      BY <2>3, <3>2 DEF TemperatureOf
  <2> QED
    BY <2>1, <2>2, <2>3
<1> QED
  BY <1>1, StreamIs DEF StreamOfHeat

LEMMA StreamValidity ==
    ASSUME NEW s, IsStream(s)
    PROVE  /\ s.validity \in Validity /\ s.kind = "material"
           /\ s.validity = "VALID" => s.temperature \in Evidence[s.material]
  BY Ranks DEF IsStream, FlashValidity

\* The ports of each model, by direction.
LEMMA PortsOfModels ==
    /\ Inputs("source") = {} /\ Outputs("source") = {Out("outlet")}
    /\ Inputs("sink") = {In("inlet")} /\ Outputs("sink") = {}
    /\ Inputs("heater") = {In("inlet")} /\ Outputs("heater") = {Out("outlet"), Duty}
    /\ Inputs("mixer") = {In("inlet-a"), In("inlet-b")} /\ Outputs("mixer") = {Out("outlet")}
    /\ Inputs("splitter") = {In("inlet")} /\ Outputs("splitter") = {Out("outlet-a"), Out("outlet-b")}
    /\ Inputs("heat_exchanger") = {In("hot-in"), In("cold-in")}
    /\ Outputs("heat_exchanger") = {Out("hot-out"), Out("cold-out")}
    /\ Inputs("radiator") = {In("inlet")} /\ Outputs("radiator") = {Out("outlet"), Duty}
<1>1. \A i : In(i).direction = "input" /\ Out(i).direction = "output" /\ Duty.direction = "output"
  BY DEF In, Out, Duty, Port
<1> QED
  BY <1>1 DEF Inputs, Outputs, ModelPorts

LEMMA PortFields ==
    /\ \A i : In(i).id = i /\ Out(i).id = i /\ Out(i).kind = "material"
    /\ Duty.id = "duty" /\ Duty.kind = "energy"
  BY DEF In, Out, Duty, Port
\* Parameters that a unit of model m is evaluated with.
Given(m, p) == Required[m] \subseteq DOMAIN p /\ \A name \in DOMAIN p \ {"material_id"} : p[name] \in Int

LEMMA RecordDomains ==
    /\ \A a : DOMAIN [outlet |-> a] = {"outlet"} /\ [outlet |-> a].outlet = a
    /\ \A a, b : /\ DOMAIN [outlet |-> a, duty |-> b] = {"outlet", "duty"}
                 /\ [outlet |-> a, duty |-> b].outlet = a /\ [outlet |-> a, duty |-> b].duty = b
<1>1. \A a : DOMAIN [outlet |-> a] = {"outlet"} /\ [outlet |-> a].outlet = a
  OBVIOUS
<1>2. \A a, b : /\ DOMAIN [outlet |-> a, duty |-> b] = {"outlet", "duty"}
                /\ [outlet |-> a, duty |-> b].outlet = a /\ [outlet |-> a, duty |-> b].duty = b
  OBVIOUS
<1> QED
  BY <1>1, <1>2

\* A source: what it is given, at its temperature.
LEMMA SourceSound ==
    ASSUME NEW p, Given("source", p), NEW x, NEW e \in EvaluateSource(p, x)
    PROVE  /\ Sound("source", e) /\ p.mass_flow \in Int /\ p.temperature \in Int
           /\ e.outputs.outlet.flow = p.mass_flow
           /\ e.outputs.outlet.heat = p.mass_flow * p.temperature
<1> DEFINE s == Stream(p.material_id, p.mass_flow, p.mass_flow * p.temperature, p.temperature)
<1>1. e = [outputs |-> [outlet |-> s], validity |-> s.validity]
  BY DEF EvaluateSource, Evaluation
<1>2. p.mass_flow \in Int /\ p.temperature \in Int
  BY DEF Given, Required
<1>3. /\ IsStream(s) /\ s.validity \in Validity /\ s.kind = "material"
      /\ s.flow = p.mass_flow /\ s.heat = p.mass_flow * p.temperature
  BY <1>2, StreamIs
<1> HIDE DEF s
<1>4. Rank[s.validity] <= Rank[s.validity]
  BY <1>3, Ranks
<1>5. Sound("source", e)
  BY <1>1, <1>3, <1>4, PortsOfModels, PortFields, RecordDomains DEF Sound, Carries
<1>6. e.outputs.outlet = s
  BY <1>1, RecordDomains
<1> QED
  BY <1>2, <1>3, <1>5, <1>6

LEMMA SinkSound ==
    ASSUME NEW p, NEW x, Fed("sink", x), NEW e \in EvaluateSink(p, x)
    PROVE  Sound("sink", e)
<1>1. e = [outputs |-> << >>, validity |-> x.inlet.validity] /\ IsStream(x.inlet)
  BY PortsOfModels, PortFields DEF EvaluateSink, Evaluation, Fed
<1> QED
  BY <1>1, StreamValidity, PortsOfModels DEF Sound

LEMMA WorstOfTwo ==
    ASSUME NEW v \in Validity, NEW w \in Validity
    PROVE  /\ WorstValidity({v, w}) \in Validity
           /\ Rank[v] <= Rank[WorstValidity({v, w})] /\ Rank[w] <= Rank[WorstValidity({v, w})]
  BY WorstIsWorst

\* A heater: the flow of its inlet, and its heat with the duty.
LEMMA HeaterSound ==
    ASSUME NEW p, p.duty \in Int, NEW x, IsStream(x.inlet), NEW e \in EvaluateHeater(p, x)
    PROVE  /\ Sound("heater", e) /\ e.outputs.outlet.heat = x.inlet.heat + p.duty
           /\ e.outputs.outlet.flow = x.inlet.flow /\ e.outputs.outlet.material = x.inlet.material
           /\ e.outputs.duty.duty = p.duty /\ x.inlet.flow > 0
<1> DEFINE i == x.inlet
           s == StreamOfHeat(i.material, i.flow, i.heat + p.duty)
<1>1. /\ i.flow > 0 /\ CanFlashHeat(i.material, i.flow, i.heat + p.duty)
      /\ e = [outputs |-> [outlet |-> s, duty |-> Power(p.duty)],
              validity |-> WorstValidity({i.validity, s.validity})]
  BY DEF EvaluateHeater, Evaluation, IsStream
<1>2. i.flow \in Int /\ i.heat \in Int /\ i.heat + p.duty \in Int /\ i.validity \in Validity
  <2>1. i.flow \in Int /\ i.heat \in Int
    BY DEF IsStream
  <2>2. i.validity \in Validity
    BY StreamValidity
  <2> HIDE DEF i
  <2> QED
    BY <2>1, <2>2
<1>3. /\ IsStream(s) /\ s.validity \in Validity /\ s.kind = "material" /\ s.material = i.material
      /\ s.flow = i.flow /\ s.heat = i.heat + p.duty
  BY <1>1, <1>2, StreamOfHeatIs
<1>4. Power(p.duty).kind = "energy" /\ Power(p.duty).duty = p.duty
  BY DEF Power
<1> HIDE DEF s, i
<1>5. /\ WorstValidity({i.validity, s.validity}) \in Validity
      /\ Rank[s.validity] <= Rank[WorstValidity({i.validity, s.validity})]
  BY <1>2, <1>3, WorstOfTwo
<1>6. e.outputs.outlet = s /\ e.outputs.duty = Power(p.duty) /\ DOMAIN e.outputs = {"outlet", "duty"}
      /\ e.validity = WorstValidity({i.validity, s.validity})
  BY <1>1, RecordDomains
<1>7. Sound("heater", e)
  <2>1. Carries(Out("outlet"), e.outputs["outlet"], e.validity)
    BY <1>3, <1>5, <1>6, PortFields DEF Carries
  <2>2. Carries(Duty, e.outputs["duty"], e.validity)
    BY <1>4, <1>6, PortFields DEF Carries
  <2>3. \A q \in {Out("outlet"), Duty} : Carries(q, e.outputs[q.id], e.validity)
    BY <2>1, <2>2, PortFields
  <2>4. {q.id : q \in {Out("outlet"), Duty}} = {"outlet", "duty"}
    BY PortFields
  <2> QED
    BY <1>5, <1>6, <2>3, <2>4, PortsOfModels DEF Sound
<1>8. i.flow > 0
  BY <1>1
<1> QED
  BY <1>3, <1>4, <1>6, <1>7, <1>8 DEF i

\* A radiator: the same, with the duty that its target takes.
LEMMA RadiatorSound ==
    ASSUME NEW p, Given("radiator", p), NEW x, IsStream(x.inlet), NEW e \in EvaluateRadiator(p, x)
    PROVE  /\ Sound("radiator", e) /\ RadiatorDuty(p, x) \in Int
           /\ e.outputs.outlet.heat = x.inlet.heat + RadiatorDuty(p, x)
           /\ e.outputs.outlet.flow = x.inlet.flow /\ e.outputs.outlet.material = x.inlet.material
           /\ e.outputs.duty.duty = RadiatorDuty(p, x) /\ x.inlet.flow > 0
<1>1. RadiatorDuty(p, x) \in Int
  <2>1. p.outlet_temperature \in Int /\ x.inlet.flow \in Int /\ x.inlet.heat \in Int
    BY DEF Given, Required, IsStream
  <2> QED
    BY <2>1 DEF RadiatorDuty
<1> DEFINE q == [duty |-> RadiatorDuty(p, x)]
<1>2. e \in EvaluateHeater(q, x) /\ q.duty = RadiatorDuty(p, x)
  BY DEF EvaluateRadiator
<1> HIDE DEF q
<1>3. /\ Sound("heater", e) /\ e.outputs.outlet.heat = x.inlet.heat + q.duty
      /\ e.outputs.outlet.flow = x.inlet.flow /\ e.outputs.outlet.material = x.inlet.material
      /\ e.outputs.duty.duty = q.duty /\ x.inlet.flow > 0
  BY <1>1, <1>2, HeaterSound
<1>4. Sound("radiator", e)
  BY <1>3, PortsOfModels DEF Sound
<1> QED
  BY <1>1, <1>2, <1>3, <1>4

\* A mixer: flows and heats of both inlets.
LEMMA MixerSound ==
    ASSUME NEW p, NEW x, Fed("mixer", x), NEW e \in EvaluateMixer(p, x)
    PROVE  /\ Sound("mixer", e) /\ e.outputs.outlet.heat = x["inlet-a"].heat + x["inlet-b"].heat
           /\ e.outputs.outlet.flow = x["inlet-a"].flow + x["inlet-b"].flow
           /\ e.outputs.outlet.flow # 0
<1> DEFINE a == x["inlet-a"]
           b == x["inlet-b"]
           s == StreamOfHeat(a.material, a.flow + b.flow, a.heat + b.heat)
<1>0. IsStream(a) /\ IsStream(b)
  BY PortsOfModels, PortFields DEF Fed
<1>1. /\ CanFlashHeat(a.material, a.flow + b.flow, a.heat + b.heat)
      /\ e = [outputs |-> [outlet |-> s], validity |-> WorstValidity({a.validity, b.validity, s.validity})]
  BY DEF EvaluateMixer, Evaluation
<1>2. a.flow + b.flow \in Int /\ a.heat + b.heat \in Int /\ {a.validity, b.validity} \subseteq Validity
  <2>1. a.flow \in Int /\ b.flow \in Int /\ a.heat \in Int /\ b.heat \in Int
    BY <1>0 DEF IsStream
  <2>2. a.validity \in Validity /\ b.validity \in Validity
    BY <1>0, StreamValidity
  <2> HIDE DEF a, b
  <2> QED
    BY <2>1, <2>2
<1>3. /\ IsStream(s) /\ s.validity \in Validity /\ s.kind = "material"
      /\ s.flow = a.flow + b.flow /\ s.heat = a.heat + b.heat /\ s.flow # 0
  BY <1>1, <1>2, StreamOfHeatIs DEF CanFlashHeat
<1> HIDE DEF s
<1> DEFINE w == WorstValidity({a.validity, b.validity, s.validity})
<1>4. w \in Validity /\ Rank[s.validity] <= Rank[w]
  BY <1>2, <1>3, WorstIsWorst
<1> HIDE DEF w
<1>5. e.outputs.outlet = s /\ DOMAIN e.outputs = {"outlet"} /\ e.validity = w
  BY <1>1, RecordDomains DEF w
<1>6. Sound("mixer", e)
  BY <1>3, <1>4, <1>5, PortsOfModels, PortFields DEF Sound, Carries
<1> QED
  BY <1>3, <1>5, <1>6

\* A splitter: shares that make up the inlet.
LEMMA SplitterSound ==
    ASSUME NEW p, NEW x, Fed("splitter", x), NEW e \in EvaluateSplitter(p, x)
    PROVE  /\ Sound("splitter", e) /\ p.split_fraction \in 0 .. 2
           /\ e.outputs["outlet-a"].flow = (x.inlet.flow * p.split_fraction) \div 2
           /\ e.outputs["outlet-b"].flow = (x.inlet.flow * (2 - p.split_fraction)) \div 2
           /\ e.outputs["outlet-a"].heat = (x.inlet.heat * p.split_fraction) \div 2
           /\ e.outputs["outlet-b"].heat = (x.inlet.heat * (2 - p.split_fraction)) \div 2
           /\ x.inlet.flow % 2 = 0 /\ x.inlet.heat % 2 = 0
<1> DEFINE i == x.inlet
           n == p.split_fraction
           Share(k) == [i EXCEPT !.flow = (i.flow * k) \div 2, !.heat = (i.heat * k) \div 2]
<1>0. IsStream(i)
  BY PortsOfModels, PortFields DEF Fed
<1>1. /\ n \in 0 .. 2 /\ i.flow % 2 = 0 /\ i.heat % 2 = 0
      /\ e = [outputs |-> [o \in {"outlet-a", "outlet-b"} |-> Share(IF o = "outlet-a" THEN n ELSE 2 - n)],
              validity |-> i.validity]
  BY DEF EvaluateSplitter, Evaluation
<1>2. ASSUME NEW k \in 0 .. 2
      PROVE  /\ IsStream(Share(k)) /\ Share(k).validity = i.validity /\ Share(k).kind = "material"
             /\ Share(k).flow = (i.flow * k) \div 2 /\ Share(k).heat = (i.heat * k) \div 2
  <2>1. (i.flow * k) \div 2 \in Int /\ (i.heat * k) \div 2 \in Int
    BY <1>0 DEF IsStream
  <2> DEFINE f == (i.flow * k) \div 2
             h == (i.heat * k) \div 2
  <2>2. Share(k) = [i EXCEPT !.flow = f, !.heat = h]
    OBVIOUS
  <2> HIDE DEF Share, i, f, h
  <2>3. /\ DOMAIN Share(k) = DOMAIN i /\ Share(k).kind = i.kind /\ Share(k).material = i.material
        /\ Share(k).flow = f /\ Share(k).heat = h
        /\ Share(k).temperature = i.temperature /\ Share(k).validity = i.validity
    BY <1>0, <2>2 DEF IsStream
  <2> QED
    BY <1>0, <2>1, <2>3 DEF IsStream, f, h
<1>3. n \in 0 .. 2 /\ 2 - n \in 0 .. 2
  BY <1>1
<1> HIDE DEF Share, n, i
<1>4. i.validity \in Validity /\ Rank[i.validity] <= Rank[i.validity]
  BY <1>0, StreamValidity, Ranks
<1>5. /\ DOMAIN e.outputs = {"outlet-a", "outlet-b"} /\ e.validity = i.validity
      /\ e.outputs["outlet-a"] = Share(n) /\ e.outputs["outlet-b"] = Share(2 - n)
  <2>1. e.outputs = [o \in {"outlet-a", "outlet-b"} |-> Share(IF o = "outlet-a" THEN n ELSE 2 - n)]
    BY <1>1
  <2> QED
    BY <1>1, <2>1
<1>6. Sound("splitter", e)
  BY <1>2, <1>3, <1>4, <1>5, PortsOfModels, PortFields DEF Sound, Carries
<1> QED
  BY <1>1, <1>2, <1>3, <1>5, <1>6 DEF i, n

\* A heat exchanger: what one stream loses, the other gains.
LEMMA ExchangerSound ==
    ASSUME NEW p, Given("heat_exchanger", p), NEW x, Fed("heat_exchanger", x), NEW e \in EvaluateExchanger(p, x)
    PROVE  /\ Sound("heat_exchanger", e) /\ ExchangerDuty(p, x) \in Int
           /\ e.outputs["hot-out"].heat = x["hot-in"].heat - ExchangerDuty(p, x)
           /\ e.outputs["cold-out"].heat = x["cold-in"].heat + ExchangerDuty(p, x)
           /\ e.outputs["hot-out"].flow = x["hot-in"].flow /\ e.outputs["cold-out"].flow = x["cold-in"].flow
           /\ x["hot-in"].flow # 0 /\ x["cold-in"].flow # 0
           /\ e.outputs["hot-out"].material = x["hot-in"].material
           /\ e.outputs["cold-out"].material = x["cold-in"].material
<1> DEFINE h == x["hot-in"]
           c == x["cold-in"]
           q == ExchangerDuty(p, x)
           hot == StreamOfHeat(h.material, h.flow, h.heat - q)
           cold == StreamOfHeat(c.material, c.flow, c.heat + q)
           w == WorstValidity({h.validity, c.validity, hot.validity, cold.validity})
<1>0. IsStream(h) /\ IsStream(c)
  BY PortsOfModels, PortFields DEF Fed
<1>1. /\ CanFlashHeat(h.material, h.flow, h.heat - q) /\ CanFlashHeat(c.material, c.flow, c.heat + q)
      /\ e = [outputs |-> [o \in {"hot-out", "cold-out"} |-> IF o = "hot-out" THEN hot ELSE cold],
              validity |-> w]
  BY DEF EvaluateExchanger, Evaluation
<1>2. q \in Int
  <2>1. p.effectiveness \in Int
    BY DEF Given, Required
  <2> DEFINE a == h.heat - h.flow * c.temperature
             b == c.flow * h.temperature - c.heat
  <2>2. a \in Int /\ b \in Int
    BY <1>0 DEF IsStream
  <2>3. q = (p.effectiveness * Min({a, b})) \div 2
    BY DEF ExchangerDuty
  <2> HIDE DEF a, b, q
  <2>4. Min({a, b}) \in {a, b}
    BY <2>2 DEF Min
  <2> HIDE DEF q
  <2>5. Min({a, b}) \in Int
    BY <2>2, <2>4
  <2>6. \A m \in Int : (p.effectiveness * m) \div 2 \in Int
    BY <2>1
  <2> QED
    BY <2>3, <2>5, <2>6
<1> HIDE DEF q
<1>3. /\ h.flow \in Int /\ c.flow \in Int /\ h.heat - q \in Int /\ c.heat + q \in Int
      /\ {h.validity, c.validity} \subseteq Validity
  <2>1. h.flow \in Int /\ c.flow \in Int /\ h.heat \in Int /\ c.heat \in Int
    BY <1>0 DEF IsStream
  <2>2. h.validity \in Validity /\ c.validity \in Validity
    BY <1>0, StreamValidity
  <2> HIDE DEF h, c
  <2> QED
    BY <1>2, <2>1, <2>2
<1>4. /\ IsStream(hot) /\ hot.validity \in Validity /\ hot.kind = "material"
      /\ hot.flow = h.flow /\ hot.heat = h.heat - q /\ hot.material = h.material
  BY <1>1, <1>3, StreamOfHeatIs
<1>5. /\ IsStream(cold) /\ cold.validity \in Validity /\ cold.kind = "material"
      /\ cold.flow = c.flow /\ cold.heat = c.heat + q /\ cold.material = c.material
  BY <1>1, <1>3, StreamOfHeatIs
<1> HIDE DEF hot, cold, h, c
<1>6. w \in Validity /\ Rank[hot.validity] <= Rank[w] /\ Rank[cold.validity] <= Rank[w]
  BY <1>3, <1>4, <1>5, WorstIsWorst
<1> HIDE DEF w
<1>7. /\ DOMAIN e.outputs = {"hot-out", "cold-out"} /\ e.validity = w
      /\ e.outputs["hot-out"] = hot /\ e.outputs["cold-out"] = cold
  <2>1. e.outputs = [o \in {"hot-out", "cold-out"} |-> IF o = "hot-out" THEN hot ELSE cold]
    BY <1>1
  <2> QED
    BY <1>1, <2>1
<1>8. Sound("heat_exchanger", e)
  <2>1. /\ Carries(Out("hot-out"), e.outputs["hot-out"], e.validity)
        /\ Carries(Out("cold-out"), e.outputs["cold-out"], e.validity)
    BY <1>4, <1>5, <1>6, <1>7, PortFields DEF Carries
  <2> QED
    BY <1>6, <1>7, <2>1, PortsOfModels, PortFields DEF Sound
<1>9. h.flow # 0 /\ c.flow # 0
  BY <1>1 DEF CanFlashHeat
<1> QED
  BY <1>2, <1>4, <1>5, <1>7, <1>8, <1>9 DEF h, c, q

\* Whatever the model, an evaluation has its outlets, none less valid than it says.
LEMMA EvaluateSound ==
    ASSUME NEW unit, unit.model \in ModelIds, Given(unit.model, unit.parameters),
           NEW x, Fed(unit.model, x), NEW e \in Evaluate(unit, x)
    PROVE  Sound(unit.model, e)
<1>1. CASE unit.model = "source"
  BY <1>1, SourceSound DEF Evaluate
<1>2. CASE unit.model = "sink"
  BY <1>2, SinkSound DEF Evaluate
<1>3. CASE unit.model = "heater"
  <2>1. unit.parameters.duty \in Int /\ IsStream(x.inlet) /\ e \in EvaluateHeater(unit.parameters, x)
    BY <1>3, PortsOfModels, PortFields DEF Evaluate, Given, Required, Fed
  <2> QED
    BY <1>3, <2>1, HeaterSound
<1>4. CASE unit.model = "mixer"
  BY <1>4, MixerSound DEF Evaluate
<1>5. CASE unit.model = "splitter"
  BY <1>5, SplitterSound DEF Evaluate
<1>6. CASE unit.model = "heat_exchanger"
  BY <1>6, ExchangerSound DEF Evaluate
<1>7. CASE unit.model = "radiator"
  <2>1. IsStream(x.inlet) /\ e \in EvaluateRadiator(unit.parameters, x)
    BY <1>7, PortsOfModels, PortFields DEF Evaluate, Fed
  <2> QED
    BY <1>7, <2>1, RadiatorSound
<1> QED
  BY <1>1, <1>2, <1>3, <1>4, <1>5, <1>6, <1>7, PortTable

-------------------------------------------------------------------------------
(* The inductive invariant *)

\* Units are, or have been, evaluated.
Evaluating == pc = "evaluate" \/ (pc = "returned" /\ report.valid)

Setting ==
    /\ pc \in {"drawn", "compiled", "evaluate", "returned"}
    /\ DOMAIN case = {"units", "connections"} /\ case.units \in Sheets
    /\ case.connections \subseteq Connections(case.units) /\ IsFiniteSet(case.connections)
    /\ pc # "drawn" => report = Compile(case)
    /\ pc = "evaluate" => report.valid
    /\ ~ Evaluating => evaluations = << >> /\ outputs = << >>
    /\ result \in Statuses /\ (pc # "returned" => result = NoResult)
    /\ Converged => /\ Evaluating /\ Len(evaluations) = Len(Order)
                    /\ result.correlation = WorstValidity(Validities) /\ result.closure = Closure

\* The units of the order are evaluated one after the other, and the values are those of their outlets.
Model(u) == case.units[u].model
Progress ==
    /\ evaluations \in Seq(Units \X Validity) /\ Len(evaluations) <= Len(Order)
    /\ \A i \in 1 .. Len(evaluations) : evaluations[i][1] = Order[i]
    /\ \A i \in 1 .. Len(evaluations) : \A p \in Outputs(Model(Order[i])) :
          <<Order[i], p.id>> \in DOMAIN outputs
    /\ \A k \in DOMAIN outputs : \E i \in 1 .. Len(evaluations) : \E p \in Outputs(Model(Order[i])) :
          k = <<Order[i], p.id>>

\* The values of a unit are still what it makes of the values at its inlets now.
Solved(u, validity) ==
    \E e \in Evaluate(case.units[u], InputValues(u)) :
        validity = e.validity /\ \A o \in DOMAIN e.outputs : outputs[<<u, o>>] = e.outputs[o]
Carried(u, validity) == \A p \in Outputs(Model(u)) : Carries(p, outputs[<<u, p.id>>], validity)
EvaluatedAll ==
    \A u, validity :
        (\E i \in 1 .. Len(evaluations) : evaluations[i][1] = u /\ evaluations[i][2] = validity)
        => Solved(u, validity) /\ Carried(u, validity)

IInv == Setting /\ (Evaluating => Progress /\ EvaluatedAll)

\* What the lemmas about the compiler assume of a case.
LEMMA CaseIsOK ==
    ASSUME Setting
    PROVE  CaseOK
  BY DEF Setting, CaseOK

\* What the compiler's verdict means for the evaluation.
LEMMA Ordered ==
    ASSUME Setting, Evaluating
    PROVE  /\ Valid(case) /\ WellPosed /\ Order = ExecutionOrder(case)
           /\ Order \in Seq(Units) /\ Len(Order) \in Nat
           /\ \A i, j \in 1 .. Len(Order) : Order[i] = Order[j] => i = j
           /\ \A u \in Units : \E i \in 1 .. Len(Order) : Order[i] = u
           /\ \A c \in case.connections : \A i \in 1 .. Len(Order) :
                 Order[i] = c.target => \E j \in 1 .. i - 1 : Order[j] = c.source
<1>1. report = Compile(case) /\ report.valid /\ CaseOK
  BY CaseIsOK DEF Setting, Evaluating
<1>2. Valid(case) /\ Order = ExecutionOrder(case)
  BY <1>1 DEF Compile, Valid, Order
<1>3. /\ Graph(Sheet(case)) /\ Acyclic(Sheet(case)) /\ Sheet(case).node = Units
      /\ Sheet(case).edge = {<<c.source, c.target>> : c \in case.connections}
  BY <1>1, <1>2, SheetIsGraph, ValidJoins
<1>4. InOrderOf(Sheet(case), Order) /\ \A u \in Units : \E i \in 1 .. Len(Order) : Order[i] = u
  BY <1>2, <1>3, OrderIsTopological
<1>5. Order \in Seq(Units) /\ Len(Order) \in Nat /\ \A i, j \in 1 .. Len(Order) : Order[i] = Order[j] => i = j
  BY <1>3, <1>4 DEF InOrderOf
<1>6. ASSUME NEW c \in case.connections, NEW i \in 1 .. Len(Order), Order[i] = c.target
      PROVE  \E j \in 1 .. i - 1 : Order[j] = c.source
  <2>1. <<c.source, c.target>> \in Sheet(case).edge
    BY <1>3
  <2>2. c.source \in Sheet(case).node
    BY <1>3, <2>1 DEF Graph
  <2> QED
    BY <1>4, <1>6, <2>1, <2>2 DEF InOrderOf
<1> QED
  BY <1>1, <1>2, <1>4, <1>5, <1>6, ValidIsEvaluable

\* An inlet of a unit is fed by an outlet of a unit before it in the order.
LEMMA FedFrom ==
    ASSUME Setting, Evaluating, NEW i \in 1 .. Len(Order), NEW p \in Inputs(Model(Order[i]))
    PROVE  \E j \in 1 .. i - 1 : \E q \in Outputs(Model(Order[j])) :
              /\ Upstream(Order[i], p.id) = <<Order[j], q.id>> /\ q.kind = "material"
              /\ j \in 1 .. Len(Order)
<1> DEFINE u == Order[i]
           c == Feed(u, p.id)
<1>1. u \in Units /\ p \in Inlets(case, u)
  BY Ordered DEF Inputs, Inlets, PortsOf, Model
<1>2. WellPosed
  BY Ordered
<1>3. \E d \in case.connections : d.target = u /\ d.in = p.id
  <2> DEFINE S == {d \in case.connections : d.target = u /\ d.in = p.id}
  <2>1. Cardinality(S) = 1
    BY <1>1, <1>2 DEF WellPosed
  <2>2. S # {}
    <3> HIDE DEF S
    <3> QED
      BY <2>1, FS_EmptySet, SMTT(30)
  <2> QED
    BY <2>2
<1>4. c \in case.connections /\ c.target = u /\ c.in = p.id
  BY <1>3 DEF Feed
<1> HIDE DEF c
<1>5. PICK j \in 1 .. i - 1 : Order[j] = c.source
  BY <1>4, Ordered
<1>6. Out(c.out) \in Outputs(Model(Order[j])) /\ Out(c.out).id = c.out /\ Out(c.out).kind = "material"
  <2>1. Out(c.out) \in PortsOf(case, Order[j])
    BY <1>2, <1>4, <1>5 DEF WellPosed
  <2> QED
    BY <2>1 DEF Outputs, Model, PortsOf, Out, Port
<1>7. Upstream(u, p.id) = <<Order[j], c.out>>
  BY <1>5 DEF Upstream, c
<1>8. j \in 1 .. Len(Order)
  BY Ordered
<1> QED
  BY <1>5, <1>6, <1>7, <1>8
LEMMA InputPortsOf ==
    ASSUME NEW u
    PROVE  InputPorts(u) = {p.id : p \in Inputs(Model(u))}
  BY DEF InputPorts, Inlets, PortsOf, Inputs, Model

\* What is at the inlets of a unit whose turn has come are streams.
LEMMA InletsCarry ==
    ASSUME IInv, Evaluating, NEW i \in 1 .. Len(Order), i <= Len(evaluations) + 1
    PROVE  /\ Fed(Model(Order[i]), InputValues(Order[i]))
           /\ \A id \in InputPorts(Order[i]) : \E j \in 1 .. Len(evaluations) :
                 /\ j < i /\ Upstream(Order[i], id)[1] = Order[j]
                 /\ Upstream(Order[i], id) \in DOMAIN outputs
<1>1. Setting /\ Progress /\ EvaluatedAll /\ Len(evaluations) \in Nat /\ Len(Order) \in Nat
  BY Ordered DEF IInv, Progress
<1>2. ASSUME NEW p \in Inputs(Model(Order[i]))
      PROVE  /\ IsStream(InputValues(Order[i])[p.id])
             /\ \E j \in 1 .. Len(evaluations) :
                   /\ j < i /\ Upstream(Order[i], p.id)[1] = Order[j]
                   /\ Upstream(Order[i], p.id) \in DOMAIN outputs
  <2>1. PICK j \in 1 .. i - 1 : \E q \in Outputs(Model(Order[j])) :
          /\ Upstream(Order[i], p.id) = <<Order[j], q.id>> /\ q.kind = "material"
          /\ j \in 1 .. Len(Order)
    BY <1>1, FedFrom
  <2>2. PICK q \in Outputs(Model(Order[j])) :
          Upstream(Order[i], p.id) = <<Order[j], q.id>> /\ q.kind = "material"
    BY <2>1
  <2>3. j \in 1 .. Len(evaluations) /\ j < i
    BY <1>1
  <2>4. InputValues(Order[i])[p.id] = outputs[<<Order[j], q.id>>]
    BY <2>2, InputPortsOf DEF InputValues
  <2>5. Carries(q, outputs[<<Order[j], q.id>>], evaluations[j][2])
    BY <1>1, <2>3 DEF Progress, EvaluatedAll, Carried
  <2>6. <<Order[j], q.id>> \in DOMAIN outputs
    BY <1>1, <2>3 DEF Progress
  <2> QED
    BY <2>2, <2>3, <2>4, <2>5, <2>6 DEF Carries
<1> QED
  BY <1>2, InputPortsOf DEF Fed

\* A unit of a valid case has its parameters.
LEMMA UnitIsGiven ==
    ASSUME Setting, Evaluating, NEW u \in Units
    PROVE  Model(u) \in ModelIds /\ Given(Model(u), case.units[u].parameters)
<1>1. WellPosed /\ case.units \in Sheets
  BY Ordered DEF Setting
<1>2. \A name \in DOMAIN case.units[u].parameters \ {"material_id"} : case.units[u].parameters[name] \in Int
  BY <1>1, SheetsAssumption DEF Units
<1> QED
  BY <1>1, <1>2 DEF WellPosed, Given, Model

\* The step that matters: a unit is evaluated, and those before it keep their values.
LEMMA EvaluateNextInv ==
    ASSUME IInv, EvaluateNext
    PROVE  IInv'
<1> DEFINE n == Len(evaluations) + 1
           u == Order[n]
<1>1. /\ Setting /\ Evaluating /\ Progress /\ EvaluatedAll /\ pc = "evaluate"
      /\ Len(evaluations) \in Nat /\ n \in 1 .. Len(Order)
      /\ pc' = pc /\ case' = case /\ report' = report /\ result' = result
  BY Ordered DEF IInv, EvaluateNext, Evaluating, Progress
<1>2. /\ Order \in Seq(Units) /\ u \in Units /\ \A i, j \in 1 .. Len(Order) : Order[i] = Order[j] => i = j
  <2>1. Order \in Seq(Units) /\ \A i, j \in 1 .. Len(Order) : Order[i] = Order[j] => i = j
    BY <1>1, Ordered
  <2> HIDE DEF n
  <2> QED
    BY <1>1, <2>1
<1>3. PICK e \in Evaluate(case.units[u], InputValues(u)) : Put(u, e)
  BY DEF EvaluateNext, Next_unit
<1>4. Sound(Model(u), e) /\ Fed(Model(u), InputValues(u))
  BY <1>1, <1>2, <1>3, InletsCarry, UnitIsGiven, EvaluateSound DEF Model
<1>5. Order' = Order /\ Units' = Units /\ Evaluating' /\ \A v : Model(v)' = Model(v)
  BY <1>1 DEF Order, Units, Evaluating, Model
<1> HIDE DEF u
<1>6. /\ evaluations' = Append(evaluations, <<u, e.validity>>) /\ Len(evaluations') = n
      /\ evaluations'[n] = <<u, e.validity>>
      /\ \A i \in 1 .. Len(evaluations) : evaluations'[i] = evaluations[i]
      /\ evaluations' \in Seq(Units \X Validity)
  <2>1. evaluations' = Append(evaluations, <<u, e.validity>>)
    BY <1>3 DEF Put
  <2>2. evaluations \in Seq(Units \X Validity) /\ <<u, e.validity>> \in Units \X Validity
    BY <1>1, <1>2, <1>4 DEF Progress, Sound
  <2> QED
    BY <2>1, <2>2
<1>7. ASSUME NEW i \in 1 .. Len(evaluations)
      PROVE  i \in 1 .. Len(Order) /\ Order[i] # u /\ i # n
  BY <1>1, <1>2 DEF u
<1> DEFINE values == {<<u, o>> : o \in DOMAIN e.outputs}
<1>8. /\ DOMAIN outputs' = DOMAIN outputs \cup values
      /\ \A o \in DOMAIN e.outputs : outputs'[<<u, o>>] = e.outputs[o]
      /\ \A k \in DOMAIN outputs : k[1] # u => outputs'[k] = outputs[k]
  BY <1>3 DEF Put
<1>9. DOMAIN e.outputs = {p.id : p \in Outputs(Model(u))}
  BY <1>4 DEF Sound
<1>10. ASSUME NEW i \in 1 .. n
       PROVE  InputValues(Order[i])' = InputValues(Order[i])
  <2> DEFINE v == Order[i]
  <2>1. \A id \in InputPorts(v) : Upstream(v, id) \in DOMAIN outputs /\ Upstream(v, id)[1] # u
    BY <1>1, <1>7, InletsCarry
  <2>2. \A id \in InputPorts(v) : outputs'[Upstream(v, id)] = outputs[Upstream(v, id)]
    BY <1>8, <2>1
  <2>3. v' = v
    BY <1>5
  <2> HIDE DEF v
  <2>4. InputPorts(v)' = InputPorts(v) /\ \A id : Upstream(v, id)' = Upstream(v, id)
    BY <1>1, <2>3 DEF InputPorts, Inlets, PortsOf, Upstream, Feed
  <2>5. InputValues(v)' = InputValues(v)
    BY <2>2, <2>3, <2>4 DEF InputValues
  <2> QED
    BY <2>5 DEF v
<1>11. Setting'
  BY <1>1, <1>5 DEF Setting, Converged, NoResult, Result, Order
<1>12. Progress'
  <2>1. Len(evaluations') <= Len(Order') /\ (\A i \in 1 .. Len(evaluations') : evaluations'[i][1] = Order[i])
    <3>1. ASSUME NEW i \in 1 .. n PROVE evaluations'[i][1] = Order[i]
      BY <1>1, <1>6 DEF Progress, u
    <3> QED
      BY <1>1, <1>5, <1>6, <3>1
  <2>2. ASSUME NEW i \in 1 .. n, NEW p \in Outputs(Model(Order[i]))
        PROVE  <<Order[i], p.id>> \in DOMAIN outputs'
    <3>1. CASE i = n
      BY <1>8, <1>9, <3>1 DEF u
    <3>2. CASE i # n
      BY <1>1, <1>8, <3>2 DEF Progress
    <3> QED
      BY <3>1, <3>2
  <2>3. ASSUME NEW k \in DOMAIN outputs'
        PROVE  \E i \in 1 .. n : \E p \in Outputs(Model(Order[i])) : k = <<Order[i], p.id>>
    <3>1. CASE k \in values
      BY <1>1, <1>9, <3>1 DEF u
    <3>2. CASE k \in DOMAIN outputs
      <4>1. PICK i \in 1 .. Len(evaluations) : \E p \in Outputs(Model(Order[i])) : k = <<Order[i], p.id>>
        BY <1>1, <3>2 DEF Progress
      <4>2. i \in 1 .. n
        BY <1>1
      <4> QED
        BY <4>1, <4>2
    <3> QED
      BY <1>8, <3>1, <3>2
  <2> QED
    BY <1>5, <1>6, <2>1, <2>2, <2>3 DEF Progress
<1>13. EvaluatedAll'
  <2>1. ASSUME NEW v, NEW w, NEW i \in 1 .. n, evaluations'[i][1] = v, evaluations'[i][2] = w
        PROVE  Solved(v, w)' /\ Carried(v, w)'
    <3>0. v = Order[i]
      BY <1>1, <1>6, <2>1 DEF Progress, u
    <3>1. InputValues(v)' = InputValues(v) /\ Model(v)' = Model(v) /\ case' = case
      BY <1>1, <1>5, <1>10, <3>0
    <3>2. CASE i = n
      <4>1. v = u /\ w = e.validity
        BY <1>6, <2>1, <3>2
      <4>2. Solved(v, w)'
        BY <1>3, <1>8, <3>1, <4>1 DEF Solved
      <4>3. Carried(v, w)'
        BY <1>4, <1>8, <1>9, <3>1, <4>1 DEF Carried, Sound
      <4> QED
        BY <4>2, <4>3
    <3>3. CASE i # n
      <4>1. i \in 1 .. Len(evaluations) /\ w = evaluations[i][2] /\ v = evaluations[i][1] /\ v # u
        BY <1>1, <1>6, <1>7, <2>1, <3>0, <3>3
      <4>2. Solved(v, w) /\ Carried(v, w)
        BY <1>1, <4>1 DEF EvaluatedAll
      <4> DEFINE ports == Outputs(Model(v))
      <4>3. \A p \in ports : outputs'[<<v, p.id>>] = outputs[<<v, p.id>>]
        BY <1>1, <1>8, <3>0, <4>1 DEF Progress
      <4>4. \A f \in Evaluate(case.units[v], InputValues(v)) : DOMAIN f.outputs = {p.id : p \in ports}
        <5>0. i \in 1 .. Len(Order) /\ i <= Len(evaluations) + 1
          BY <1>1, <1>7, <4>1
        <5>1. v \in Units /\ Fed(Model(v), InputValues(v))
          BY <1>1, <1>2, <3>0, <5>0, InletsCarry
        <5> QED
          BY <1>1, <5>1, UnitIsGiven, EvaluateSound DEF Model, Sound
      <4>5. Solved(v, w)'
        BY <3>1, <4>2, <4>3, <4>4 DEF Solved
      <4>6. Carried(v, w)'
        BY <3>1, <4>2, <4>3 DEF Carried
      <4> QED
        BY <4>5, <4>6
    <3> QED
      BY <3>2, <3>3
  <2> QED
    BY <1>5, <1>6, <2>1 DEF EvaluatedAll
<1> QED
  BY <1>11, <1>12, <1>13 DEF IInv
\* The other steps change little of what the invariant says.
LEMMA InitInv ==
    ASSUME Init
    PROVE  IInv
<1>1. /\ pc = "drawn" /\ evaluations = << >> /\ outputs = << >> /\ result = NoResult
      /\ \E units \in Sheets : case = [units |-> units, connections |-> {}]
  BY DEF Init
<1>2. NoResult \in Statuses /\ NoResult.convergence = "NOT_RUN"
  BY Ranks DEF NoResult, Result, Statuses, Validity
<1>3. IsFiniteSet({})
  BY FS_EmptySet
<1> QED
  BY <1>1, <1>2, <1>3 DEF IInv, Setting, Evaluating, Converged

LEMMA ConnectInv ==
    ASSUME IInv, NEW c \in Connections(case.units), Connect(c)
    PROVE  IInv'
<1>1. /\ pc = "drawn" /\ pc' = pc /\ evaluations' = evaluations /\ outputs' = outputs /\ result' = result
      /\ Setting /\ result = NoResult
  BY DEF Connect, IInv, Setting
<1>2. /\ DOMAIN case' = DOMAIN case /\ case'.units = case.units
      /\ case'.connections = case.connections \cup {c}
  BY <1>1 DEF Connect, Setting
<1>3. IsFiniteSet(case'.connections)
  BY <1>1, <1>2, FS_AddElement DEF Setting
<1>4. NoResult.convergence = "NOT_RUN"
  BY DEF NoResult, Result
<1> QED
  BY <1>1, <1>2, <1>3, <1>4 DEF IInv, Setting, Evaluating, Converged

LEMMA RunInv ==
    ASSUME IInv, Run
    PROVE  IInv'
<1>1. NoResult.convergence = "NOT_RUN"
  BY DEF NoResult, Result
<1> QED
  BY <1>1 DEF IInv, Setting, Evaluating, Converged, Run

\* A valid case begins to be evaluated with no unit done and no value there.
LEMMA ValidateInv ==
    ASSUME IInv, Validate
    PROVE  IInv'
<1>1. /\ Setting /\ pc = "compiled" /\ report = Compile(case) /\ evaluations = << >> /\ outputs = << >>
      /\ case' = case /\ report' = report /\ evaluations' = evaluations /\ outputs' = outputs
      /\ result = NoResult
  BY DEF IInv, Setting, Evaluating, Validate
<1>2. NoResult.convergence = "NOT_RUN"
  BY DEF NoResult, Result
<1>3. CASE report.valid
  <2>1. pc' = "evaluate" /\ result' = result
    BY <1>3 DEF Validate
  <2>2. Setting'
    BY <1>1, <1>2, <1>3, <2>1 DEF Setting, Evaluating, Converged
  <2>3. Order \in Seq(Units) /\ Len(Order) \in Nat
    <3>1. CaseOK /\ Valid(case) /\ Order = ExecutionOrder(case)
      BY <1>1, <1>3, CaseIsOK DEF Compile, Valid, Order
    <3>2. Graph(Sheet(case)) /\ Acyclic(Sheet(case)) /\ Sheet(case).node = Units
      BY <3>1, SheetIsGraph, ValidJoins
    <3>3. InOrderOf(Sheet(case), Order)
      BY <3>1, <3>2, OrderIsTopological
    <3> QED
      BY <3>2, <3>3 DEF InOrderOf
  <2>4. Progress' /\ EvaluatedAll'
    BY <1>1, <2>3 DEF Progress, EvaluatedAll, Order
  <2> QED
    BY <2>2, <2>4 DEF IInv
<1>4. CASE ~ report.valid
  <2> DEFINE r == Result("FAILED", "NOT_CHECKED", "INVALID", "UNKNOWN")
  <2>1. pc' = "returned" /\ result' = r
    BY <1>4 DEF Validate, Finish
  <2>2. r \in Statuses /\ r.convergence = "FAILED"
    BY Ranks DEF Result, Statuses, Validity
  <2> HIDE DEF r
  <2>3. ~ Evaluating' /\ ~ Converged'
    BY <1>1, <1>4, <2>1, <2>2 DEF Evaluating, Converged
  <2> QED
    BY <1>1, <2>1, <2>2, <2>3 DEF IInv, Setting
<1> QED
  BY <1>3, <1>4

LEMMA ValiditiesAre ==
    ASSUME Progress
    PROVE  Validities \in SUBSET Validity
  BY DEF Progress, Validities

LEMMA ClosureStays ==
    ASSUME case' = case, outputs' = outputs
    PROVE  Closure' = Closure
<1>1. /\ SourceValues' = SourceValues /\ OfModel("sink")' = OfModel("sink")
      /\ \A u : Upstream(u, "inlet")' = Upstream(u, "inlet")
  BY DEF SourceValues, OfModel, Units, Upstream, Feed
<1>2. SourceFlow' = SourceFlow /\ SourceHeat' = SourceHeat
  BY <1>1 DEF SourceFlow, SourceHeat
<1>3. SinkFlow' = SinkFlow
  <2>1. \A u : outputs'[Upstream(u, "inlet")'].flow = outputs[Upstream(u, "inlet")].flow
    BY <1>1
  <2> QED
    BY <1>1, <2>1 DEF SinkFlow
<1>4. SinkHeat' = SinkHeat
  <2>1. \A u : outputs'[Upstream(u, "inlet")'].heat = outputs[Upstream(u, "inlet")].heat
    BY <1>1
  <2> QED
    BY <1>1, <2>1 DEF SinkHeat
<1>5. EquipmentDuty' = EquipmentDuty
  BY DEF EquipmentDuty
<1> QED
  BY <1>2, <1>3, <1>4, <1>5 DEF Closure, MassResidual, EnergyResidual

\* A run ends with a result about what has been evaluated.
LEMMA FinishInv ==
    ASSUME IInv, pc = "evaluate", NEW r \in Statuses, Finish(r),
           UNCHANGED <<case, report, evaluations, outputs>>,
           r.convergence = "CONVERGED" =>
              Len(evaluations) = Len(Order) /\ r.correlation = WorstValidity(Validities) /\ r.closure = Closure
    PROVE  IInv'
<1>1. Setting /\ Progress /\ EvaluatedAll /\ report.valid
  BY DEF IInv, Setting, Evaluating
<1>2. pc' = "returned" /\ result' = r /\ case' = case /\ report' = report /\ evaluations' = evaluations
      /\ outputs' = outputs
  BY DEF Finish
<1>3. Evaluating' /\ Order' = Order /\ Validities' = Validities
  BY <1>1, <1>2 DEF Evaluating, Order, Validities
<1>4. Closure' = Closure
  BY <1>2, ClosureStays
<1>5. Setting'
  BY <1>1, <1>2, <1>3, <1>4 DEF Setting, Converged
<1>6. Progress'
  BY <1>1, <1>2, <1>3 DEF Progress, Units, Model
<1>7. ASSUME NEW u, NEW w
      PROVE  Solved(u, w)' = Solved(u, w) /\ Carried(u, w)' = Carried(u, w)
  BY <1>2 DEF Solved, Carried, Model, InputValues, InputPorts, Inlets, PortsOf, Upstream, Feed
<1>8. EvaluatedAll'
  BY <1>1, <1>2, <1>7 DEF EvaluatedAll
<1> QED
  BY <1>5, <1>6, <1>8 DEF IInv

LEMMA EvaluationFailsInv ==
    ASSUME IInv, EvaluationFails
    PROVE  IInv'
<1> DEFINE r == Result("FAILED", "NOT_CHECKED", "INVALID", WorstValidity(Validities))
<1>1. Progress /\ pc = "evaluate" /\ Finish(r) /\ UNCHANGED <<case, report, evaluations, outputs>>
  BY DEF EvaluationFails, IInv, Evaluating
<1>2. WorstValidity(Validities) \in Validity
  BY <1>1, ValiditiesAre, WorstIsWorst
<1>3. r \in Statuses /\ r.convergence = "FAILED"
  BY <1>2, Ranks DEF Result, Statuses, Validity
<1> HIDE DEF r
<1> QED
  BY <1>1, <1>3, FinishInv

\* After the last unit the run has converged.
LEMMA BalanceInv ==
    ASSUME IInv, Balance
    PROVE  IInv'
<1> DEFINE worst == WorstValidity(Validities)
           r == Result("CONVERGED", Closure, IF worst = "INVALID" THEN "INVALID" ELSE "VALID", worst)
<1>1. /\ Progress /\ pc = "evaluate" /\ Finish(r) /\ UNCHANGED <<case, report, evaluations, outputs>>
      /\ Len(evaluations) = Len(Order)
  BY DEF Balance, IInv, Evaluating
<1>2. worst \in Validity /\ Closure \in {"PASSED", "FAILED"}
  BY <1>1, ValiditiesAre, WorstIsWorst DEF Closure
<1> HIDE DEF worst
<1>3. r \in Statuses /\ r.correlation = worst /\ r.closure = Closure
  BY <1>2, Ranks DEF Result, Statuses, Validity
<1> HIDE DEF r
<1> QED
  BY <1>1, <1>3, FinishInv DEF worst

LEMMA StutterInv ==
    ASSUME IInv, UNCHANGED vars
    PROVE  IInv'
<1>1. /\ pc' = pc /\ case' = case /\ report' = report /\ evaluations' = evaluations
      /\ outputs' = outputs /\ result' = result
  BY DEF vars
<1>2. Closure' = Closure
  BY <1>1, ClosureStays
<1>3. Setting' = Setting /\ Evaluating' = Evaluating /\ Progress' = Progress
  BY <1>1, <1>2 DEF Setting, Evaluating, Converged, Order, Validities, Progress, Units, Model
<1>4. ASSUME NEW u, NEW w
      PROVE  Solved(u, w)' = Solved(u, w) /\ Carried(u, w)' = Carried(u, w)
  BY <1>1 DEF Solved, Carried, Model, InputValues, InputPorts, Inlets, PortsOf, Upstream, Feed
<1>5. EvaluatedAll' = EvaluatedAll
  BY <1>1, <1>4 DEF EvaluatedAll
<1> QED
  BY <1>3, <1>5 DEF IInv

\* Spec keeps the inductive invariant.
THEOREM Invariant == Spec => []IInv
<1>1. Init => IInv
  BY InitInv
<1>2. IInv /\ [Next]_vars => IInv'
  <2> SUFFICES ASSUME IInv, [Next]_vars PROVE IInv'
    OBVIOUS
  <2>1. ASSUME NEW c \in Connections(case.units), Connect(c) PROVE IInv'
    BY <2>1, ConnectInv
  <2> QED
    BY <2>1, RunInv, ValidateInv, EvaluateNextInv, EvaluationFailsInv, BalanceInv, StutterInv DEF Next
<1> QED
  BY <1>1, <1>2, PTL DEF Spec

-------------------------------------------------------------------------------
(* The properties *)

\* The compiler's word can be relied on, both ways: of every case that can be drawn, it calls
\* valid the ones in which some order of all units feeds every inlet from a unit before it.
THEOREM CompilerDecides == Spec => []ValidIsWellPosed
<1>1. IInv => ValidIsWellPosed
  <2> SUFFICES ASSUME IInv, pc = "compiled" PROVE report.valid <=> WellPosed
    BY DEF ValidIsWellPosed
  <2>1. CaseOK /\ report = Compile(case)
    BY CaseIsOK DEF IInv, Setting
  <2>2. report.valid = Valid(case)
    BY <2>1 DEF Compile
  <2> QED
    BY <2>1, <2>2, ValidIsEvaluable, EvaluableIsValid
<1> QED
  BY <1>1, Invariant, PTL

\* Where the run is and what it has put down so far are as its other variables say.
THEOREM TypeCorrect == Spec => []TypeOK
<1>1. IInv => TypeOK
  <2> SUFFICES ASSUME IInv PROVE TypeOK
    OBVIOUS
  <2>1. /\ pc \in {"drawn", "compiled", "evaluate", "returned"}
        /\ case.units \in Sheets /\ case.connections \subseteq Connections(case.units)
        /\ result \in Statuses
    BY DEF IInv, Setting
  <2>2. CASE ~ Evaluating
    BY <2>1, <2>2 DEF IInv, Setting, TypeOK
  <2>3. CASE Evaluating
    <3>1. Progress /\ EvaluatedAll /\ evaluations \in Seq(Units \X Validity) /\ Len(evaluations) \in Nat
          /\ DOMAIN evaluations = 1 .. Len(evaluations)
      BY <2>3 DEF IInv, Progress
    <3>2. ASSUME NEW k \in DOMAIN outputs
          PROVE  /\ \E i \in DOMAIN evaluations : evaluations[i][1] = k[1]
                 /\ \E p \in PortsOf(case, k[1]) :
                      p.id = k[2] /\ p.direction = "output" /\ p.kind = outputs[k].kind
      <4>1. PICK i \in 1 .. Len(evaluations) : \E p \in Outputs(Model(Order[i])) : k = <<Order[i], p.id>>
        BY <3>1 DEF Progress
      <4>2. PICK p \in Outputs(Model(Order[i])) : k = <<Order[i], p.id>>
        BY <4>1
      <4>3. evaluations[i][1] = Order[i] /\ k[1] = Order[i] /\ k[2] = p.id
        BY <3>1, <4>2 DEF Progress
      <4>4. outputs[k].kind = p.kind
        BY <3>1, <4>2, <4>3 DEF EvaluatedAll, Carried, Carries
      <4>5. p \in PortsOf(case, k[1]) /\ p.direction = "output"
        BY <4>3 DEF Outputs, PortsOf, Model
      <4> QED
        BY <3>1, <4>3, <4>4, <4>5
    <3> QED
      BY <2>1, <3>1, <3>2 DEF TypeOK, Validity
  <2> QED
    BY <2>2, <2>3
<1> QED
  BY <1>1, Invariant, PTL

\* What is known of a unit that has been evaluated.
KnownOf(u, validity) ==
    /\ u \in Units /\ validity \in Validity
    /\ Solved(u, validity) /\ Carried(u, validity)
    /\ Model(u) \in ModelIds /\ Given(Model(u), case.units[u].parameters)
    /\ Fed(Model(u), InputValues(u))
    /\ \A p \in Outputs(Model(u)) : <<u, p.id>> \in DOMAIN outputs
    /\ \A id \in InputPorts(u) : Upstream(u, id) \in DOMAIN outputs

\* This is known of each of them,
LEMMA EvaluatedUnits ==
    ASSUME IInv, NEW i \in DOMAIN evaluations
    PROVE  Evaluating /\ KnownOf(evaluations[i][1], evaluations[i][2])
<1>1. Setting /\ Evaluating /\ Progress /\ EvaluatedAll
  BY DEF IInv, Setting
<1>2. /\ evaluations \in Seq(Units \X Validity) /\ DOMAIN evaluations = 1 .. Len(evaluations)
      /\ Len(evaluations) \in Nat /\ Len(Order) \in Nat
      /\ evaluations[i] \in Units \X Validity /\ i \in 1 .. Len(evaluations)
  <2>1. evaluations \in Seq(Units \X Validity)
    BY <1>1 DEF Progress
  <2> QED
    BY <1>1, <2>1, Ordered
<1> DEFINE u == evaluations[i][1]
<1>3. u = Order[i] /\ i \in 1 .. Len(Order) /\ i <= Len(evaluations) + 1
  BY <1>1, <1>2 DEF Progress
<1>4. u \in Units /\ evaluations[i][2] \in Validity /\ \A p \in Outputs(Model(u)) : <<u, p.id>> \in DOMAIN outputs
  BY <1>1, <1>2, <1>3 DEF Progress
<1>5. Solved(u, evaluations[i][2]) /\ Carried(u, evaluations[i][2])
  BY <1>1, <1>2 DEF EvaluatedAll
<1>6. Fed(Model(u), InputValues(u)) /\ \A id \in InputPorts(u) : Upstream(u, id) \in DOMAIN outputs
  BY <1>1, <1>3, InletsCarry
<1>7. Model(u) \in ModelIds /\ Given(Model(u), case.units[u].parameters)
  BY <1>1, <1>4, UnitIsGiven
<1> QED
  BY <1>1, <1>4, <1>5, <1>6, <1>7 DEF KnownOf

\* which at the end are all.
LEMMA ConvergedUnits ==
    ASSUME IInv, Converged, NEW u \in Units
    PROVE  \E i \in DOMAIN evaluations : evaluations[i][1] = u /\ KnownOf(u, evaluations[i][2])
<1>1. Setting /\ Evaluating /\ Len(evaluations) = Len(Order) /\ Progress
  BY DEF IInv, Setting
<1>2. PICK i \in 1 .. Len(Order) : Order[i] = u
  BY <1>1, Ordered
<1>3. i \in DOMAIN evaluations /\ evaluations[i][1] = u
  BY <1>1, <1>2 DEF Progress
<1> QED
  BY <1>3, EvaluatedUnits

\* One pass is enough, for every sheet: when the run has converged, each unit's outputs are
\* what it makes of the inputs that are there at the end.
THEOREM OnePassSolves == Spec => []SolvesTheSheet
<1>1. IInv => SolvesTheSheet
  <2> SUFFICES ASSUME IInv, Converged, NEW u \in Units
               PROVE  \E e \in Evaluate(case.units[u],
                          [p \in InputPorts(u) |->
                             LET c == CHOOSE c \in case.connections : c.target = u /\ c.in = p
                             IN  outputs[<<c.source, c.out>>]]) :
                        \A o \in DOMAIN e.outputs : outputs[<<u, o>>] = e.outputs[o]
    BY DEF SolvesTheSheet
  <2>1. \E e \in Evaluate(case.units[u], InputValues(u)) :
            \A o \in DOMAIN e.outputs : outputs[<<u, o>>] = e.outputs[o]
    BY ConvergedUnits DEF KnownOf, Solved
  <2> QED
    BY <2>1 DEF InputValues, Upstream, Feed
<1> QED
  BY <1>1, Invariant, PTL

\* A result that is called VALID has no stream outside the evidence of its material: the
\* worst of the units' validities is also the worst of the streams'.
THEOREM ValidityReachesStreams == Spec => []ValidStreamsAreBacked
<1>1. IInv => ValidStreamsAreBacked
  <2> SUFFICES ASSUME IInv, Converged, result.correlation = "VALID",
                      NEW k \in DOMAIN outputs, outputs[k].kind = "material"
               PROVE  outputs[k].temperature \in Evidence[outputs[k].material]
    BY DEF ValidStreamsAreBacked
  <2>1. Progress /\ EvaluatedAll /\ WorstValidity(Validities) = "VALID"
    BY DEF IInv, Setting
  <2>2. PICK i \in 1 .. Len(evaluations) : \E p \in Outputs(Model(Order[i])) : k = <<Order[i], p.id>>
    BY <2>1 DEF Progress
  <2>3. PICK p \in Outputs(Model(Order[i])) : k = <<Order[i], p.id>>
    BY <2>2
  <2> DEFINE v == evaluations[i][2]
  <2>4. v \in Validities /\ evaluations[i][1] = Order[i]
    BY <2>1, <2>2 DEF Progress, Validities
  <2>5. Carries(p, outputs[k], v)
    BY <2>1, <2>3, <2>4 DEF EvaluatedAll, Carried
  <2> DEFINE s == outputs[k]
  <2>6. IsStream(s) /\ Rank[s.validity] <= Rank[v]
    BY <2>5 DEF Carries
  <2>7. Rank[v] <= Rank["VALID"] /\ v \in Validity
    BY <2>1, <2>4, ValiditiesAre, WorstIsWorst
  <2> HIDE DEF v, s
  <2>8. s.validity \in {"VALID", "EXTRAPOLATED"}
    BY <2>6 DEF IsStream, FlashValidity
  <2>9. s.validity = "VALID"
    BY <2>6, <2>7, <2>8, Ranks
  <2> QED
    BY <2>6, <2>9, StreamValidity DEF s
<1> QED
  BY <1>1, Invariant, PTL

-------------------------------------------------------------------------------
(* Profiles *)

\* A connection to a unit carries what its inlet is fed with.
LEMMA FeedIs ==
    ASSUME Setting, Evaluating, NEW c \in case.connections
    PROVE  /\ c.target \in Units /\ In(c.in) \in Inputs(Model(c.target)) /\ c.in \in InputPorts(c.target)
           /\ Feed(c.target, c.in) = c
           /\ outputs[<<c.source, c.out>>] = InputValues(c.target)[c.in]
<1> DEFINE u == c.target
           S == {d \in case.connections : d.target = u /\ d.in = c.in}
<1>1. WellPosed /\ IsFiniteSet(case.connections)
  BY Ordered DEF Setting
<1>2. u \in Units /\ In(c.in) \in Inlets(case, u) /\ In(c.in).id = c.in
  BY <1>1 DEF WellPosed, Inlets, In, Port
<1>3. Cardinality(S) = 1
  BY <1>1, <1>2 DEF WellPosed
<1>4. IsFiniteSet(S)
  <2>1. S \in SUBSET case.connections
    OBVIOUS
  <2> HIDE DEF S
  <2> QED
    BY <1>1, <2>1, FS_Subset
<1>5. \A d \in S : d = c
  <2>1. c \in S
    OBVIOUS
  <2> HIDE DEF S
  <2>2. \E d : S = {d}
    BY <1>3, <1>4, FS_Singleton
  <2> QED
    BY <2>1, <2>2
<1>6. Feed(u, c.in) = c
  <2>1. c \in case.connections /\ c.target = u /\ c.in = c.in
    OBVIOUS
  <2>2. Feed(u, c.in) \in S
    BY <2>1 DEF Feed
  <2> QED
    BY <1>5, <2>2
<1>7. In(c.in) \in Inputs(Model(u)) /\ c.in \in InputPorts(u)
  BY <1>2 DEF Inlets, PortsOf, Inputs, Model, InputPorts
<1> HIDE DEF u
<1>8. InputValues(u)[c.in] = outputs[<<c.source, c.out>>]
  BY <1>6, <1>7 DEF InputValues, Upstream
<1> QED
  BY <1>2, <1>6, <1>7, <1>8 DEF u

\* Each series of an exchanger follows one of its two streams,
LEMMA ExchangerProfile ==
    ASSUME IInv, NEW i \in DOMAIN evaluations, NEW u, u = evaluations[i][1], Model(u) = "heat_exchanger",
           NEW s \in ExchangerSeries(u)
    PROVE  IsOfStream(u, s)
<1>1. Setting /\ Evaluating /\ KnownOf(u, evaluations[i][2])
  BY EvaluatedUnits DEF IInv
<1> DEFINE p == case.units[u].parameters
           x == InputValues(u)
           q == ExchangerDuty(p, x)
<1>2. PICK c \in Feeds(u), out \in {"hot-out", "cold-out"} :
        /\ <<c.in, out>> \in {<<"hot-in", "hot-out">>, <<"cold-in", "cold-out">>}
        /\ s = <<<<0, Temperature(c)>>, <<q, outputs[<<u, out>>].temperature>>>>
  <2>1. Duties(u) = {q}
    BY DEF Duties, Model
  <2>2. PICK m \in Feeds(u) \X {"hot-out", "cold-out"} :
          /\ <<m[1].in, m[2]>> \in {<<"hot-in", "hot-out">>, <<"cold-in", "cold-out">>}
          /\ s = <<<<0, Temperature(m[1])>>, <<q, outputs[<<u, m[2]>>].temperature>>>>
    <3> HIDE DEF q
    <3> QED
      BY <2>1 DEF ExchangerSeries
  <2> HIDE DEF q
  <2> QED
    BY <2>2
<1>3. PICK e \in EvaluateExchanger(p, x) : \A o \in DOMAIN e.outputs : outputs[<<u, o>>] = e.outputs[o]
  BY <1>1 DEF KnownOf, Solved, Model, Evaluate
<1>4. Given("heat_exchanger", p) /\ Fed("heat_exchanger", x)
  BY <1>1 DEF KnownOf
<1> HIDE DEF p, x
<1>5. /\ Sound("heat_exchanger", e) /\ q \in Int
      /\ e.outputs["hot-out"].heat = x["hot-in"].heat - q
      /\ e.outputs["cold-out"].heat = x["cold-in"].heat + q
      /\ e.outputs["hot-out"].flow = x["hot-in"].flow /\ e.outputs["cold-out"].flow = x["cold-in"].flow
      /\ e.outputs["hot-out"].material = x["hot-in"].material
      /\ e.outputs["cold-out"].material = x["cold-in"].material
  BY <1>3, <1>4, ExchangerSound
<1> HIDE DEF q
<1>6. DOMAIN e.outputs = {"hot-out", "cold-out"} /\ x["hot-in"].heat \in Int /\ x["cold-in"].heat \in Int
  BY <1>4, <1>5, PortsOfModels, PortFields DEF Sound, Fed, IsStream
<1>7. outputs[<<u, out>>] = e.outputs[out] /\ <<u, out>> \in DOMAIN outputs /\ outputs[<<u, out>>].kind = "material"
  <2>1. \A r \in {Out("hot-out"), Out("cold-out")} :
           <<u, r.id>> \in DOMAIN outputs /\ Carries(r, outputs[<<u, r.id>>], evaluations[i][2])
    BY <1>1, PortsOfModels DEF KnownOf, Carried
  <2> QED
    BY <1>3, <1>6, <2>1, PortFields DEF Carries
<1>8. c \in case.connections /\ c.target = u /\ outputs[<<c.source, c.out>>] = x[c.in]
  BY <1>1, FeedIs DEF Feeds, x
<1>9. <<u, out>> \in {k \in DOMAIN outputs : k[1] = u /\ IsMaterial(k)}
  BY <1>7 DEF IsMaterial
<1>10. s[1] = <<0, x[c.in].temperature>> /\ s[2][2] = outputs[<<u, out>>].temperature /\ s[2][1] = q
  BY <1>2, <1>8 DEF Temperature
<1> DEFINE inlet == outputs[<<c.source, c.out>>]
           outlet == outputs[<<u, out>>]
<1>11. /\ outlet.material = inlet.material /\ outlet.flow = inlet.flow
       /\ q \in {outlet.heat - inlet.heat, - (outlet.heat - inlet.heat)}
  <2>1. CASE c.in = "hot-in" /\ out = "hot-out"
    BY <1>5, <1>6, <1>7, <1>8, <2>1
  <2>2. CASE c.in = "cold-in" /\ out = "cold-out"
    BY <1>5, <1>6, <1>7, <1>8, <2>2
  <2> QED
    BY <1>2, <2>1, <2>2
<1> QED
  BY <1>2, <1>8, <1>9, <1>10, <1>11 DEF IsOfStream

\* Heaters and radiators: an inlet, an outlet, and a duty that goes to the stream.
LEMMA ThermalProfile ==
    ASSUME IInv, NEW i \in DOMAIN evaluations, NEW u, u = evaluations[i][1],
           Model(u) \in {"heater", "radiator"}, NEW s \in ThermalSeries(u)
    PROVE  IsOfStream(u, s)
<1>1. Setting /\ Evaluating /\ KnownOf(u, evaluations[i][2])
  BY EvaluatedUnits DEF IInv
<1> DEFINE p == case.units[u].parameters
           x == InputValues(u)
<1>2. PICK c \in Feeds(u), q \in Duties(u) :
        s = <<<<0, Temperature(c)>>, <<IF q < 0 THEN - q ELSE q, outputs[<<u, "outlet">>].temperature>>>>
  BY DEF ThermalSeries
<1>3. PICK e \in Evaluate(case.units[u], x) : \A o \in DOMAIN e.outputs : outputs[<<u, o>>] = e.outputs[o]
  BY <1>1 DEF KnownOf, Solved
<1>4. IsStream(x.inlet)
  BY <1>1, PortsOfModels, PortFields DEF KnownOf, Fed
<1>5. /\ Sound(Model(u), e) /\ q \in Int /\ e.outputs.outlet.heat = x.inlet.heat + q
      /\ e.outputs.outlet.flow = x.inlet.flow /\ e.outputs.outlet.material = x.inlet.material
  <2>1. CASE Model(u) = "heater"
    <3>1. q = p.duty /\ e \in EvaluateHeater(p, x)
      BY <1>3, <2>1 DEF Duties, Model, Evaluate
    <3>2. p.duty \in Int
      BY <1>1, <2>1 DEF KnownOf, Given, Required
    <3> HIDE DEF p, x
    <3> QED
      BY <1>4, <2>1, <3>1, <3>2, HeaterSound
  <2>2. CASE Model(u) = "radiator"
    <3>1. q = RadiatorDuty(p, x) /\ e \in EvaluateRadiator(p, x)
      BY <1>3, <2>2 DEF Duties, Model, Evaluate
    <3>2. Given("radiator", p)
      BY <1>1, <2>2 DEF KnownOf
    <3> HIDE DEF p, x
    <3> QED
      BY <1>4, <2>2, <3>1, <3>2, RadiatorSound
  <2> QED
    BY <2>1, <2>2
<1>6. Inputs(Model(u)) = {In("inlet")} /\ Out("outlet") \in Outputs(Model(u))
  BY PortsOfModels
<1>7. /\ outputs[<<u, "outlet">>] = e.outputs.outlet /\ <<u, "outlet">> \in DOMAIN outputs
      /\ outputs[<<u, "outlet">>].kind = "material"
  <2>1. <<u, "outlet">> \in DOMAIN outputs /\ Carries(Out("outlet"), outputs[<<u, "outlet">>], evaluations[i][2])
    BY <1>1, <1>6, PortFields DEF KnownOf, Carried
  <2>2. "outlet" \in DOMAIN e.outputs
    BY <1>5, <1>6, PortFields DEF Sound
  <2> QED
    BY <1>3, <2>1, <2>2, PortFields DEF Carries
<1>8. c \in case.connections /\ c.target = u /\ c.in = "inlet" /\ outputs[<<c.source, c.out>>] = x.inlet
  <2>1. c \in case.connections /\ c.target = u
    BY DEF Feeds
  <2>2. In(c.in) = In("inlet") /\ outputs[<<c.source, c.out>>] = x[c.in]
    BY <1>1, <1>6, <2>1, FeedIs
  <2>3. c.in = "inlet"
    BY <2>2, PortFields
  <2> QED
    BY <2>1, <2>2, <2>3
<1>9. <<u, "outlet">> \in {k \in DOMAIN outputs : k[1] = u /\ IsMaterial(k)}
  BY <1>7 DEF IsMaterial
<1> DEFINE inlet == outputs[<<c.source, c.out>>]
           outlet == outputs[<<u, "outlet">>]
<1>10. /\ outlet.material = inlet.material /\ outlet.flow = inlet.flow
       /\ (IF q < 0 THEN - q ELSE q) \in {outlet.heat - inlet.heat, - (outlet.heat - inlet.heat)}
  <2>1. x.inlet.heat \in Int
    BY <1>4 DEF IsStream
  <2> HIDE DEF x
  <2> QED
    BY <1>5, <1>7, <1>8, <2>1
<1>11. /\ s[1] = <<0, inlet.temperature>> /\ s[2][2] = outlet.temperature
       /\ s[2][1] = IF q < 0 THEN - q ELSE q
  BY <1>2 DEF Temperature
<1> QED
  BY <1>2, <1>9, <1>10, <1>11 DEF IsOfStream

\* What is drawn for a unit is a stream through it, whatever is connected and wherever the
\* run stopped.
THEOREM ProfilesFollowStreams == Spec => []ProfilesAreStreams
<1>1. IInv => ProfilesAreStreams
  <2> SUFFICES ASSUME IInv, NEW u \in Units, NEW s \in Plot(u).series
               PROVE  IsOfStream(u, s)
    BY DEF ProfilesAreStreams
  <2>1. u \in Evaluated
    BY DEF Plot
  <2>2. PICK i \in DOMAIN evaluations : u = evaluations[i][1]
    BY <2>1 DEF Evaluated
  <2>3. CASE Model(u) = "heat_exchanger"
    <3>1. s \in ExchangerSeries(u)
      BY <2>1, <2>3 DEF Plot, Model
    <3> QED
      BY <2>2, <2>3, <3>1, ExchangerProfile
  <2>4. CASE Model(u) # "heat_exchanger"
    <3>1. s \in ThermalSeries(u)
      BY <2>1, <2>4 DEF Plot, Model
    <3>2. Duties(u) # {}
      BY <3>1 DEF ThermalSeries
    <3>3. Model(u) \in {"heater", "radiator"}
      BY <2>4, <3>2 DEF Duties, Model
    <3> QED
      BY <2>2, <3>1, <3>3, ThermalProfile
  <2> QED
    BY <2>3, <2>4
<1> QED
  BY <1>1, Invariant, PTL

-------------------------------------------------------------------------------
(* Balances *)

\* A value is that of an outlet of a unit that was evaluated.
LEMMA KeyIs ==
    ASSUME IInv, NEW k \in DOMAIN outputs
    PROVE  Evaluating /\ \E u \in Units, validity \in Validity : \E p \in Outputs(Model(u)) :
              k = <<u, p.id>> /\ KnownOf(u, validity) /\ Carries(p, outputs[k], validity)
<1>1. Setting /\ Evaluating /\ Progress /\ Len(evaluations) \in Nat
  <2>1. Evaluating
    BY DEF IInv, Setting
  <2>2. Setting /\ Progress
    BY <2>1 DEF IInv
  <2>3. evaluations \in Seq(Units \X Validity)
    BY <2>2 DEF Progress
  <2> QED
    BY <2>1, <2>2, <2>3
<1>2. PICK i \in 1 .. Len(evaluations) : \E p \in Outputs(Model(Order[i])) : k = <<Order[i], p.id>>
  BY <1>1 DEF Progress
<1>3. PICK p \in Outputs(Model(Order[i])) : k = <<Order[i], p.id>>
  BY <1>2
<1>4. i \in DOMAIN evaluations /\ evaluations[i][1] = Order[i]
  BY <1>1, <1>2 DEF Progress
<1>5. KnownOf(Order[i], evaluations[i][2])
  BY <1>4, EvaluatedUnits
<1> QED
  BY <1>1, <1>3, <1>5 DEF KnownOf, Carried

\* There are finitely many of them.
LEMMA KeysFinite ==
    ASSUME IInv
    PROVE  IsFiniteSet(Units) /\ IsFiniteSet(DOMAIN outputs)
<1>1. IsFiniteSet(Units)
  BY SheetsAssumption DEF IInv, Setting, Units
<1> DEFINE ids == {"outlet", "duty", "outlet-a", "outlet-b", "hot-out", "cold-out"}
<1>2. IsFiniteSet(ids)
  <2> DEFINE a == {"outlet", "duty", "outlet-a", "outlet-b"}
             b == {"hot-out", "cold-out", "hot-out", "cold-out"}
  <2>1. IsFiniteSet(a) /\ IsFiniteSet(b)
    BY FewFinite
  <2>2. ids = a \cup b
    OBVIOUS
  <2> HIDE DEF a, b, ids
  <2> QED
    BY <2>1, <2>2, FS_Union
<1>3. DOMAIN outputs \subseteq Units \X ids
  <2> SUFFICES ASSUME NEW k \in DOMAIN outputs PROVE k \in Units \X ids
    OBVIOUS
  <2>1. PICK u \in Units : Model(u) \in ModelIds /\ \E p \in Outputs(Model(u)) : k = <<u, p.id>>
    BY KeyIs DEF KnownOf
  <2>3. PICK p \in Outputs(Model(u)) : k = <<u, p.id>>
    BY <2>1
  <2>2. p.id \in ids
    BY <2>1, PortTable, PortsOfModels, PortFields
  <2> QED
    BY <2>1, <2>2, <2>3
<1> HIDE DEF ids
<1> QED
  BY <1>1, <1>2, <1>3, FS_Product, FS_Subset

\* Each value is a stream at a material outlet, or the duty of a heater or radiator.
LEMMA QuantitiesAre ==
    ASSUME IInv, NEW k \in DOMAIN outputs
    PROVE  /\ k[1] \in Units /\ outputs[k].kind \in {"material", "energy"}
           /\ outputs[k].kind = "material" => IsStream(outputs[k]) /\ Out(k[2]) \in Outputs(Model(k[1]))
           /\ outputs[k].kind = "energy" =>
                outputs[k].duty \in Int /\ k[2] = "duty" /\ Model(k[1]) \in {"heater", "radiator"}
           /\ Model(k[1]) = "source" => outputs[k].kind = "material"
<1>0. PICK u \in Units, validity \in Validity : \E p \in Outputs(Model(u)) :
        k = <<u, p.id>> /\ KnownOf(u, validity) /\ Carries(p, outputs[k], validity)
  BY KeyIs
<1>1. PICK p \in Outputs(Model(u)) : k = <<u, p.id>> /\ KnownOf(u, validity) /\ Carries(p, outputs[k], validity)
  BY <1>0
<1>2. Model(u) \in ModelIds /\ p \in ModelPorts[Model(u)] /\ p.direction = "output"
  BY <1>1 DEF KnownOf, Outputs
<1>3. p.kind \in {"material", "energy"} /\ (p.kind = "material" => p = Out(p.id))
  BY <1>2, PortTable
<1>4. p.kind = "energy" => p.id = "duty" /\ Model(u) \in {"heater", "radiator"}
  BY <1>2, PortTable, PortsOfModels, PortFields
<1>5. Model(u) = "source" => p.kind = "material"
  BY PortsOfModels, PortFields
<1> QED
  BY <1>1, <1>3, <1>4, <1>5 DEF Carries

\* An inlet has its connection, and what that carries is there.
LEMMA InletIs ==
    ASSUME IInv, NEW u, NEW validity, KnownOf(u, validity), NEW p \in Inputs(Model(u)), Evaluating
    PROVE  /\ Feed(u, p.id) \in case.connections /\ Feed(u, p.id).target = u /\ Feed(u, p.id).in = p.id
           /\ Upstream(u, p.id) = <<Feed(u, p.id).source, Feed(u, p.id).out>>
           /\ Upstream(u, p.id) \in DOMAIN outputs
           /\ InputValues(u)[p.id] = outputs[Upstream(u, p.id)]
           /\ IsStream(outputs[Upstream(u, p.id)])
<1>1. p.id \in InputPorts(u) /\ p \in Inlets(case, u)
  BY InputPortsOf DEF Inlets, Inputs, PortsOf, Model
<1>2. InputValues(u)[p.id] = outputs[Upstream(u, p.id)] /\ Upstream(u, p.id) \in DOMAIN outputs
      /\ IsStream(InputValues(u)[p.id])
  BY <1>1 DEF InputValues, KnownOf, Fed
<1>3. \E d \in case.connections : d.target = u /\ d.in = p.id
  <2> DEFINE S == {d \in case.connections : d.target = u /\ d.in = p.id}
  <2>1. Cardinality(S) = 1
    BY <1>1, Ordered DEF WellPosed, IInv, KnownOf
  <2>2. S # {}
    <3> HIDE DEF S
    <3> QED
      BY <2>1, FS_EmptySet
  <2> QED
    BY <2>2
<1>4. Feed(u, p.id) \in case.connections /\ Feed(u, p.id).target = u /\ Feed(u, p.id).in = p.id
  BY <1>3 DEF Feed
<1>5. Upstream(u, p.id) = <<Feed(u, p.id).source, Feed(u, p.id).out>>
  BY DEF Upstream
<1> QED
  BY <1>2, <1>4, <1>5

\* Values of streams and of duties, and what is summed over them.
Streams == {k \in DOMAIN outputs : outputs[k].kind = "material"}
Powers == {k \in DOMAIN outputs : outputs[k].kind = "energy"}
Flow == [k \in Streams |-> outputs[k].flow]
Heat == [k \in Streams |-> outputs[k].heat]
DutyAt == [k \in Powers |-> outputs[k].duty]
SinkTerms(F) == [u \in OfModel("sink") |-> F[Upstream(u, "inlet")]]

\* All sums are over finitely many whole numbers.
LEMMA TermsAre ==
    ASSUME IInv
    PROVE  /\ IsFiniteSet(Streams) /\ IsFiniteSet(Powers) /\ IsFiniteSet(SourceValues)
           /\ IsFiniteSet(OfModel("sink")) /\ IsFiniteSet(case.connections)
           /\ \A k \in Streams : Flow[k] \in Int /\ Heat[k] \in Int
           /\ \A k \in Powers : DutyAt[k] \in Int
           /\ SourceValues \subseteq Streams
<1>1. IsFiniteSet(Units) /\ IsFiniteSet(DOMAIN outputs) /\ IsFiniteSet(case.connections)
  BY KeysFinite DEF IInv, Setting
<1>2. /\ Streams \subseteq DOMAIN outputs /\ Powers \subseteq DOMAIN outputs
      /\ SourceValues \subseteq DOMAIN outputs /\ OfModel("sink") \subseteq Units
  BY DEF Streams, Powers, SourceValues, OfModel
<1>3. \A k \in Streams : Flow[k] \in Int /\ Heat[k] \in Int
  BY QuantitiesAre DEF Streams, Flow, Heat, IsStream
<1>4. \A k \in Powers : DutyAt[k] \in Int
  BY QuantitiesAre DEF Powers, DutyAt
<1>5. SourceValues \subseteq Streams
  BY QuantitiesAre DEF SourceValues, OfModel, Streams, Model
<1> QED
  BY <1>1, <1>2, <1>3, <1>4, <1>5, FS_Subset

\* The connections to sinks, and what they carry at the end of a run.
LEMMA SinksAreFed ==
    ASSUME IInv, Converged
    PROVE  /\ \A u \in OfModel("sink") :
                 /\ Upstream(u, "inlet") \in Streams
                 /\ Feed(u, "inlet") \in SinkConnections /\ Feed(u, "inlet").target = u
                 /\ Upstream(u, "inlet") = <<Feed(u, "inlet").source, Feed(u, "inlet").out>>
           /\ \A c \in SinkConnections :
                 c.target \in OfModel("sink") /\ c = Feed(c.target, "inlet")
<1>0. Setting /\ Evaluating
  BY DEF IInv, Setting
<1>1. ASSUME NEW u \in OfModel("sink")
      PROVE  /\ Upstream(u, "inlet") \in Streams
             /\ Feed(u, "inlet") \in SinkConnections /\ Feed(u, "inlet").target = u
             /\ Upstream(u, "inlet") = <<Feed(u, "inlet").source, Feed(u, "inlet").out>>
  <2>1. u \in Units /\ Model(u) = "sink"
    BY DEF OfModel, Model
  <2>2. PICK validity : KnownOf(u, validity)
    BY <2>1, ConvergedUnits
  <2>3. In("inlet") \in Inputs(Model(u)) /\ In("inlet").id = "inlet"
    BY <2>1, PortsOfModels, PortFields
  <2>4. /\ Feed(u, "inlet") \in case.connections /\ Feed(u, "inlet").target = u
        /\ Upstream(u, "inlet") = <<Feed(u, "inlet").source, Feed(u, "inlet").out>>
        /\ Upstream(u, "inlet") \in DOMAIN outputs /\ IsStream(outputs[Upstream(u, "inlet")])
    BY <1>0, <2>2, <2>3, InletIs
  <2>5. Upstream(u, "inlet") \in Streams
    BY <2>4 DEF Streams, IsStream
  <2>6. Feed(u, "inlet") \in SinkConnections
    BY <2>4, <2>5 DEF SinkConnections, IsMaterial, Streams
  <2> QED
    BY <2>4, <2>5, <2>6
<1>2. ASSUME NEW c \in SinkConnections
      PROVE  c.target \in OfModel("sink") /\ c = Feed(c.target, "inlet")
  <2>1. c \in case.connections /\ c.target \in OfModel("sink") /\ Model(c.target) = "sink"
    BY DEF SinkConnections, OfModel, Model
  <2>2. In(c.in) = In("inlet") /\ Feed(c.target, c.in) = c
    BY <1>0, <2>1, FeedIs, PortsOfModels
  <2> QED
    BY <2>1, <2>2, PortFields
<1> QED
  BY <1>1, <1>2

\* A sum over the connections to sinks is one over the sinks.
LEMMA SinkSums ==
    ASSUME IInv, Converged, NEW F, \A k \in Streams : F[k] \in Int
    PROVE  LET atSinks == [c \in SinkConnections |-> F[<<c.source, c.out>>]]
           IN  /\ SumFunction(SinkTerms(F)) \in Int
               /\ SumFunction(atSinks) = SumFunction(SinkTerms(F))
<1> DEFINE S == SinkConnections
           T == OfModel("sink")
           A == [c \in S |-> F[<<c.source, c.out>>]]
           B == SinkTerms(F)
           h == [c \in S |-> c.target]
<1>1. IsFiniteSet(S) /\ IsFiniteSet(T)
  <2>1. S \subseteq case.connections
    BY DEF SinkConnections
  <2> HIDE DEF S
  <2> QED
    BY <2>1, TermsAre, FS_Subset
<1>2. h \in [S -> T] /\ (\A c, d \in S : h[c] = h[d] => c = d) /\ \A u \in T : \E c \in S : h[c] = u
  BY SinksAreFed
<1>3. \A c \in S : <<c.source, c.out>> = Upstream(h[c], "inlet")
  BY SinksAreFed
<1>4. \A c \in S : A[c] \in Int /\ A[c] = B[h[c]]
  BY <1>2, <1>3, SinksAreFed DEF SinkTerms
<1>5. \A u \in T : B[u] \in Int
  BY SinksAreFed DEF SinkTerms
<1>6. DOMAIN A = S /\ DOMAIN B = T
  BY DEF SinkTerms
<1> HIDE DEF S, T, A, B, h
<1>7. SumFunctionOnSet(A, S) = SumFunctionOnSet(B, T)
  BY <1>1, <1>2, <1>4, SumRenamed
<1>8. SumFunctionOnSet(B, T) \in Int
  BY <1>1, <1>5, SumIs
<1> QED
  BY <1>6, <1>7, <1>8 DEF SumFunction, A, B, S

\* The totals of the run as sums of streams and duties,
LEMMA RunTotals ==
    ASSUME IInv, Converged
    PROVE  /\ SourceFlow = SumFunctionOnSet(Flow, SourceValues) /\ SourceFlow \in Int
           /\ SourceHeat = SumFunctionOnSet(Heat, SourceValues) /\ SourceHeat \in Int
           /\ SinkFlow = SumFunction(SinkTerms(Flow)) /\ SinkFlow \in Int
           /\ SinkHeat = SumFunction(SinkTerms(Heat)) /\ SinkHeat \in Int
           /\ EquipmentDuty = SumFunctionOnSet(DutyAt, Powers) /\ EquipmentDuty \in Int
<1>1. SourceFlow = SumFunctionOnSet(Flow, SourceValues) /\ SourceHeat = SumFunctionOnSet(Heat, SourceValues)
  <2> DEFINE f == [k \in SourceValues |-> outputs[k].flow]
             g == [k \in SourceValues |-> outputs[k].heat]
  <2>1. /\ \A k \in SourceValues : f[k] = Flow[k] /\ g[k] = Heat[k]
        /\ DOMAIN f = SourceValues /\ DOMAIN g = SourceValues
    BY TermsAre DEF Flow, Heat
  <2>2. SourceFlow = SumFunction(f) /\ SourceHeat = SumFunction(g)
    BY DEF SourceFlow, SourceHeat
  <2> HIDE DEF f, g
  <2>3. SumFunctionOnSet(f, SourceValues) = SumFunctionOnSet(Flow, SourceValues)
    BY <2>1, TermsAre, SumsOfEquals
  <2>4. SumFunctionOnSet(g, SourceValues) = SumFunctionOnSet(Heat, SourceValues)
    BY <2>1, TermsAre, SumsOfEquals
  <2> QED
    BY <2>1, <2>2, <2>3, <2>4 DEF SumFunction
<1>2. SumFunctionOnSet(Flow, SourceValues) \in Int /\ SumFunctionOnSet(Heat, SourceValues) \in Int
  <2>1. \A k \in SourceValues : Flow[k] \in Int /\ Heat[k] \in Int
    BY TermsAre
  <2> QED
    BY <2>1, TermsAre, SumIs
<1>3. SinkFlow = SumFunction(SinkTerms(Flow)) /\ SinkHeat = SumFunction(SinkTerms(Heat))
  <2>1. [u \in OfModel("sink") |-> outputs[Upstream(u, "inlet")].flow] = SinkTerms(Flow)
    BY SinksAreFed DEF SinkTerms, Flow
  <2>2. [u \in OfModel("sink") |-> outputs[Upstream(u, "inlet")].heat] = SinkTerms(Heat)
    BY SinksAreFed DEF SinkTerms, Heat
  <2> QED
    BY <2>1, <2>2 DEF SinkFlow, SinkHeat
<1>4. SumFunction(SinkTerms(Flow)) \in Int /\ SumFunction(SinkTerms(Heat)) \in Int
  BY TermsAre, SinkSums
<1>5. EquipmentDuty = SumFunctionOnSet(DutyAt, Powers)
  BY DEF EquipmentDuty, SumFunction, DutyAt, Powers
<1>6. SumFunctionOnSet(DutyAt, Powers) \in Int
  BY TermsAre, SumIs
<1> QED
  BY <1>1, <1>2, <1>3, <1>4, <1>5, <1>6

\* which those of the workbook are equal to.
LEMMA ViewTotals ==
    ASSUME IInv, Converged
    PROVE  /\ InletTotal("flow") = SourceFlow /\ InletTotal("heat") = SourceHeat
           /\ OutletTotal("flow") = SinkFlow /\ OutletTotal("heat") = SinkHeat
           /\ DutyTotal = EquipmentDuty
<1>1. SourceKeys = SourceValues
  BY TermsAre DEF SourceKeys, SourceValues, IsMaterial, Streams
<1>2. InletTotal("flow") = SourceFlow
  BY <1>1 DEF InletTotal, Total, SourceFlow
<1>3. InletTotal("heat") = SourceHeat
  BY <1>1 DEF InletTotal, Total, SourceHeat
<1>4. DutyTotal = EquipmentDuty
  <2>1. {k \in DOMAIN outputs : IsEnergy(k)} = {k \in DOMAIN outputs : outputs[k].kind = "energy"}
    BY DEF IsEnergy
  <2> QED
    BY <2>1 DEF DutyTotal, DutiesOf, Total, EquipmentDuty
<1>5. ASSUME NEW F, NEW field, \A k \in Streams : F[k] \in Int /\ F[k] = outputs[k][field]
      PROVE  OutletTotal(field) = SumFunction(SinkTerms(F))
  <2> DEFINE A == [c \in SinkConnections |-> F[<<c.source, c.out>>]]
  <2>1. \A c \in SinkConnections : <<c.source, c.out>> \in Streams
    BY SinksAreFed
  <2>2. [c \in SinkConnections |-> outputs[<<c.source, c.out>>][field]] = A
    BY <1>5, <2>1
  <2>3. OutletTotal(field) = SumFunction(A)
    BY <2>2 DEF OutletTotal, Total
  <2>4. SumFunction(A) = SumFunction(SinkTerms(F))
    BY <1>5, SinkSums
  <2> QED
    BY <2>3, <2>4
<1>6. OutletTotal("flow") = SinkFlow
  <2>1. \A k \in Streams : Flow[k] \in Int /\ Flow[k] = outputs[k]["flow"]
    BY TermsAre DEF Flow
  <2> QED
    BY <1>5, <2>1, RunTotals
<1>7. OutletTotal("heat") = SinkHeat
  <2>1. \A k \in Streams : Heat[k] \in Int /\ Heat[k] = outputs[k]["heat"]
    BY TermsAre DEF Heat
  <2> QED
    BY <1>5, <2>1, RunTotals
<1> QED
  BY <1>2, <1>3, <1>4, <1>6, <1>7

\* The balances that the workbook adds up anew are those of the run, in every sheet: they
\* leave the residuals that the run found, and close exactly if it says so.
THEOREM WorkbookBalances == Spec => []BalancesAccount
<1>1. IInv => BalancesAccount
  <2> SUFFICES ASSUME IInv, Converged
               PROVE  /\ \A b \in Balances :
                           b.inlet_total + b.generation_or_duty - b.outlet_total = b.residual
                      /\ result.closure = "PASSED" <=>
                           \A b \in Balances : b.inlet_total + b.generation_or_duty = b.outlet_total
    BY DEF BalancesAccount, Balances, Converged
  <2> DEFINE mass == [balance_type |-> "MASS", inlet_total |-> SourceFlow, outlet_total |-> SinkFlow,
                      generation_or_duty |-> 0, residual |-> MassResidual]
             energy == [balance_type |-> "ENERGY", inlet_total |-> SourceHeat, outlet_total |-> SinkHeat,
                        generation_or_duty |-> EquipmentDuty, residual |-> EnergyResidual]
  <2>1. Balances = {mass, energy}
    BY ViewTotals DEF Balances, Converged
  <2>2. /\ mass.inlet_total = SourceFlow /\ mass.outlet_total = SinkFlow
        /\ mass.generation_or_duty = 0 /\ mass.residual = MassResidual
        /\ energy.inlet_total = SourceHeat /\ energy.outlet_total = SinkHeat
        /\ energy.generation_or_duty = EquipmentDuty /\ energy.residual = EnergyResidual
    OBVIOUS
  <2> HIDE DEF mass, energy
  <2>3. /\ SourceFlow \in Int /\ SinkFlow \in Int /\ SourceHeat \in Int /\ SinkHeat \in Int
        /\ EquipmentDuty \in Int
    BY RunTotals
  <2>4. \A b \in {mass, energy} : b.inlet_total + b.generation_or_duty - b.outlet_total = b.residual
    BY <2>2, <2>3 DEF MassResidual, EnergyResidual
  <2>5. result.closure = Closure
    BY DEF IInv, Setting
  <2>6. Closure = "PASSED" <=> MassResidual = 0 /\ EnergyResidual = 0
    BY DEF Closure
  <2>7. MassResidual = 0 <=> SourceFlow + 0 = SinkFlow
    BY <2>3 DEF MassResidual
  <2>8. EnergyResidual = 0 <=> SourceHeat + EquipmentDuty = SinkHeat
    BY <2>3 DEF EnergyResidual
  <2> QED
    BY <2>1, <2>2, <2>4, <2>5, <2>6, <2>7, <2>8
<1> QED
  BY <1>1, Invariant, PTL

-------------------------------------------------------------------------------
(* What a converged run conserves *)

\* What unit u makes of a quantity F of its streams, and of a duty.
Conserves(u, F, duty) ==
    /\ Model(u) \in {"heater", "radiator"} => F[<<u, "outlet">>] = F[Upstream(u, "inlet")] + duty
    /\ Model(u) = "mixer" =>
         F[<<u, "outlet">>] = F[Upstream(u, "inlet-a")] + F[Upstream(u, "inlet-b")]
    /\ Model(u) = "splitter" =>
         F[<<u, "outlet-a">>] + F[<<u, "outlet-b">>] = F[Upstream(u, "inlet")]
    /\ Model(u) = "heat_exchanger" =>
         F[<<u, "hot-out">>] + F[<<u, "cold-out">>]
           = F[Upstream(u, "hot-in")] + F[Upstream(u, "cold-in")]
DutyOf(u) == IF Model(u) \in {"heater", "radiator"} THEN outputs[<<u, "duty">>].duty ELSE 0

\* The halves of an even quantity, however they are dealt out, make it up.
LEMMA Halves ==
    ASSUME NEW f \in Int, f % 2 = 0, NEW n \in 0 .. 2
    PROVE  (f * n) \div 2 + (f * (2 - n)) \div 2 = f
<1>1. PICK g \in Int : f = 2 * g
  BY Z3
<1>2. CASE n = 0
  BY <1>1, <1>2
<1>3. CASE n = 1
  BY <1>1, <1>3
<1>4. CASE n = 2
  BY <1>1, <1>4
<1> QED
  BY <1>2, <1>3, <1>4

\* The streams of a unit: what is at its outlets is what it made of what is at its inlets.
LEMMA StreamsOfUnit ==
    ASSUME IInv, Converged, NEW u \in Units
    PROVE  /\ Model(u) \in ModelIds
           /\ \A p \in Inputs(Model(u)) :
                /\ Upstream(u, p.id) \in Streams
                /\ InputValues(u)[p.id] = outputs[Upstream(u, p.id)]
           /\ \A p \in Outputs(Model(u)) : p.kind = "material" => <<u, p.id>> \in Streams
           /\ \A p \in Outputs(Model(u)) : p.kind = "energy" => <<u, p.id>> \in Powers
           /\ \E e \in Evaluate(case.units[u], InputValues(u)) :
                /\ Sound(Model(u), e)
                /\ \A p \in Outputs(Model(u)) : outputs[<<u, p.id>>] = e.outputs[p.id]
<1>0. Evaluating
  BY DEF IInv, Setting
<1>1. PICK validity : KnownOf(u, validity)
  BY ConvergedUnits
<1>2. ASSUME NEW p \in Inputs(Model(u))
      PROVE  /\ Upstream(u, p.id) \in Streams
             /\ InputValues(u)[p.id] = outputs[Upstream(u, p.id)]
  BY <1>0, <1>1, InletIs DEF Streams, IsStream
<1>3. ASSUME NEW p \in Outputs(Model(u))
      PROVE  <<u, p.id>> \in DOMAIN outputs /\ outputs[<<u, p.id>>].kind = p.kind
  BY <1>1 DEF KnownOf, Carried, Carries
<1>4. PICK e \in Evaluate(case.units[u], InputValues(u)) :
        \A o \in DOMAIN e.outputs : outputs[<<u, o>>] = e.outputs[o]
  BY <1>1 DEF KnownOf, Solved
<1>5. Sound(Model(u), e)
  BY <1>1, <1>4, EvaluateSound DEF KnownOf, Model
<1>6. \A p \in Outputs(Model(u)) : outputs[<<u, p.id>>] = e.outputs[p.id]
  BY <1>4, <1>5 DEF Sound
<1> QED
  BY <1>1, <1>2, <1>3, <1>5, <1>6 DEF KnownOf, Streams, Powers

\* What is summed, at one stream.
LEMMA FieldsOfStreams ==
    ASSUME IInv, NEW k \in Streams
    PROVE  /\ IsStream(outputs[k]) /\ Flow[k] = outputs[k].flow /\ Heat[k] = outputs[k].heat
           /\ outputs[k].flow \in Int /\ outputs[k].heat \in Int
<1>1. IsStream(outputs[k])
  BY QuantitiesAre DEF Streams
<1> QED
  BY <1>1 DEF Flow, Heat, IsStream

\* Each model conserves flow, and heat but for its duty.
LEMMA ThermalConserves ==
    ASSUME IInv, Converged, NEW u \in Units, Model(u) \in {"heater", "radiator"}
    PROVE  Conserves(u, Flow, 0) /\ Conserves(u, Heat, DutyOf(u)) /\ Flow[<<u, "outlet">>] > 0
<1> DEFINE p == case.units[u].parameters
           x == InputValues(u)
           i == Upstream(u, "inlet")
           o == <<u, "outlet">>
           d == <<u, "duty">>
<1>1. PICK e \in Evaluate(case.units[u], x) :
        /\ Sound(Model(u), e)
        /\ \A q \in Outputs(Model(u)) : outputs[<<u, q.id>>] = e.outputs[q.id]
  BY StreamsOfUnit
<1>2. Inputs(Model(u)) = {In("inlet")} /\ Outputs(Model(u)) = {Out("outlet"), Duty}
  BY PortsOfModels
<1>3. i \in Streams /\ x.inlet = outputs[i] /\ o \in Streams
  BY <1>2, StreamsOfUnit, PortFields
<1>4. outputs[o] = e.outputs.outlet /\ outputs[d] = e.outputs.duty
  BY <1>1, <1>2, PortFields
<1>5. IsStream(x.inlet)
  BY <1>3, FieldsOfStreams
<1>6. Given(Model(u), p)
  BY UnitIsGiven DEF IInv, Setting
<1>7. /\ e.outputs.outlet.flow = x.inlet.flow /\ e.outputs.outlet.heat = x.inlet.heat + e.outputs.duty.duty
      /\ x.inlet.flow > 0
  <2>1. CASE Model(u) = "heater"
    <3>1. e \in EvaluateHeater(p, x)
      BY <2>1 DEF Model, Evaluate
    <3>2. p.duty \in Int
      BY <1>6, <2>1 DEF Given, Required
    <3> HIDE DEF p, x
    <3> QED
      BY <1>5, <3>1, <3>2, HeaterSound
  <2>2. CASE Model(u) = "radiator"
    <3>1. e \in EvaluateRadiator(p, x)
      BY <2>2 DEF Model, Evaluate
    <3> HIDE DEF p, x
    <3> QED
      BY <1>5, <1>6, <2>2, <3>1, RadiatorSound
  <2> QED
    BY <2>1, <2>2
<1> HIDE DEF i, o, d, x
<1>8. Flow[o] = Flow[i] /\ Heat[o] = Heat[i] + outputs[d].duty /\ Flow[i] \in Int /\ Flow[o] > 0
  BY <1>3, <1>4, <1>7, FieldsOfStreams
<1>9. Flow[o] = Flow[i] + 0
  BY <1>8
<1> QED
  BY <1>8, <1>9 DEF Conserves, DutyOf, i, o, d

LEMMA MixerConserves ==
    ASSUME IInv, Converged, NEW u \in Units, Model(u) = "mixer"
    PROVE  Conserves(u, Flow, 0) /\ Conserves(u, Heat, DutyOf(u)) /\ Flow[<<u, "outlet">>] # 0
<1> DEFINE x == InputValues(u)
           a == Upstream(u, "inlet-a")
           b == Upstream(u, "inlet-b")
           o == <<u, "outlet">>
<1>1. PICK e \in Evaluate(case.units[u], x) :
        /\ Sound(Model(u), e)
        /\ \A q \in Outputs(Model(u)) : outputs[<<u, q.id>>] = e.outputs[q.id]
  BY StreamsOfUnit
<1>2. Inputs(Model(u)) = {In("inlet-a"), In("inlet-b")} /\ Outputs(Model(u)) = {Out("outlet")}
  BY PortsOfModels
<1>3. a \in Streams /\ b \in Streams /\ x["inlet-a"] = outputs[a] /\ x["inlet-b"] = outputs[b] /\ o \in Streams
  BY <1>2, StreamsOfUnit, PortFields
<1>4. outputs[o] = e.outputs.outlet
  BY <1>1, <1>2, PortFields
<1>5. Fed("mixer", x)
  BY <1>2, <1>3, FieldsOfStreams, PortFields DEF Fed
<1>6. e \in EvaluateMixer(case.units[u].parameters, x)
  BY <1>1 DEF Model, Evaluate
<1> HIDE DEF x, a, b, o
<1>7. /\ e.outputs.outlet.heat = x["inlet-a"].heat + x["inlet-b"].heat
      /\ e.outputs.outlet.flow = x["inlet-a"].flow + x["inlet-b"].flow
      /\ e.outputs.outlet.flow # 0
  BY <1>5, <1>6, MixerSound
<1>8. Flow[o] = Flow[a] + Flow[b] /\ Heat[o] = Heat[a] + Heat[b] /\ Flow[o] # 0
  BY <1>3, <1>4, <1>7, FieldsOfStreams
<1> QED
  BY <1>8 DEF Conserves, a, b, o

LEMMA SplitterConserves ==
    ASSUME IInv, Converged, NEW u \in Units, Model(u) = "splitter"
    PROVE  /\ Conserves(u, Flow, 0) /\ Conserves(u, Heat, DutyOf(u))
           /\ LET s == outputs[Upstream(u, "inlet")]
              IN  \A id \in {"outlet-a", "outlet-b"} : \E n \in 0 .. 2 :
                    /\ s.flow % 2 = 0 /\ Flow[<<u, id>>] = (s.flow * n) \div 2
                    /\ s.heat % 2 = 0 /\ Heat[<<u, id>>] = (s.heat * n) \div 2
<1> DEFINE x == InputValues(u)
           i == Upstream(u, "inlet")
           a == <<u, "outlet-a">>
           b == <<u, "outlet-b">>
           p == case.units[u].parameters
           n == p.split_fraction
<1>1. PICK e \in Evaluate(case.units[u], x) :
        /\ Sound(Model(u), e)
        /\ \A q \in Outputs(Model(u)) : outputs[<<u, q.id>>] = e.outputs[q.id]
  BY StreamsOfUnit
<1>2. Inputs(Model(u)) = {In("inlet")} /\ Outputs(Model(u)) = {Out("outlet-a"), Out("outlet-b")}
  BY PortsOfModels
<1>3. i \in Streams /\ x.inlet = outputs[i] /\ a \in Streams /\ b \in Streams
  BY <1>2, StreamsOfUnit, PortFields
<1>4. outputs[a] = e.outputs["outlet-a"] /\ outputs[b] = e.outputs["outlet-b"]
  BY <1>1, <1>2, PortFields
<1>5. Fed("splitter", x)
  BY <1>2, <1>3, FieldsOfStreams, PortFields DEF Fed
<1>6. e \in EvaluateSplitter(p, x)
  BY <1>1 DEF Model, Evaluate
<1> DEFINE s == outputs[i]
<1> HIDE DEF x, i, a, b, p
<1>7. /\ n \in 0 .. 2 /\ s.flow % 2 = 0 /\ s.heat % 2 = 0
      /\ outputs[a].flow = (s.flow * n) \div 2 /\ outputs[b].flow = (s.flow * (2 - n)) \div 2
      /\ outputs[a].heat = (s.heat * n) \div 2 /\ outputs[b].heat = (s.heat * (2 - n)) \div 2
  BY <1>3, <1>4, <1>5, <1>6, SplitterSound
<1>8. /\ s.flow \in Int /\ s.heat \in Int /\ Flow[i] = s.flow /\ Heat[i] = s.heat
      /\ Flow[a] = outputs[a].flow /\ Flow[b] = outputs[b].flow
      /\ Heat[a] = outputs[a].heat /\ Heat[b] = outputs[b].heat
  BY <1>3, FieldsOfStreams
<1> HIDE DEF n, s
<1>9. Flow[a] + Flow[b] = Flow[i] /\ Heat[a] + Heat[b] = Heat[i]
  BY <1>7, <1>8, Halves, ZenonT(40)
<1>10. \E m \in 0 .. 2 : Flow[a] = (s.flow * m) \div 2 /\ Heat[a] = (s.heat * m) \div 2
  BY <1>7, <1>8
<1>11. \E m \in 0 .. 2 : Flow[b] = (s.flow * m) \div 2 /\ Heat[b] = (s.heat * m) \div 2
  <2>1. 2 - n \in 0 .. 2
    BY <1>7
  <2> QED
    BY <1>7, <1>8, <2>1
<1>12. Conserves(u, Flow, 0) /\ Conserves(u, Heat, DutyOf(u))
  BY <1>9 DEF Conserves, i, a, b
<1> QED
  BY <1>7, <1>10, <1>11, <1>12 DEF i, s, a, b

LEMMA ExchangerConserves ==
    ASSUME IInv, Converged, NEW u \in Units, Model(u) = "heat_exchanger"
    PROVE  /\ Conserves(u, Flow, 0) /\ Conserves(u, Heat, DutyOf(u))
           /\ Flow[<<u, "hot-out">>] = Flow[Upstream(u, "hot-in")] /\ Flow[<<u, "hot-out">>] # 0
           /\ Flow[<<u, "cold-out">>] = Flow[Upstream(u, "cold-in")] /\ Flow[<<u, "cold-out">>] # 0
<1> DEFINE x == InputValues(u)
           p == case.units[u].parameters
           h == Upstream(u, "hot-in")
           c == Upstream(u, "cold-in")
           a == <<u, "hot-out">>
           b == <<u, "cold-out">>
<1>1. PICK e \in Evaluate(case.units[u], x) :
        /\ Sound(Model(u), e)
        /\ \A q \in Outputs(Model(u)) : outputs[<<u, q.id>>] = e.outputs[q.id]
  BY StreamsOfUnit
<1>2. /\ Inputs(Model(u)) = {In("hot-in"), In("cold-in")}
      /\ Outputs(Model(u)) = {Out("hot-out"), Out("cold-out")}
  BY PortsOfModels
<1>3. /\ h \in Streams /\ c \in Streams /\ x["hot-in"] = outputs[h] /\ x["cold-in"] = outputs[c]
      /\ a \in Streams /\ b \in Streams
  BY <1>2, StreamsOfUnit, PortFields
<1>4. outputs[a] = e.outputs["hot-out"] /\ outputs[b] = e.outputs["cold-out"]
  BY <1>1, <1>2, PortFields
<1>5. Fed("heat_exchanger", x)
  BY <1>2, <1>3, FieldsOfStreams, PortFields DEF Fed
<1>6. e \in EvaluateExchanger(p, x) /\ Given("heat_exchanger", p)
  BY <1>1, UnitIsGiven DEF Model, Evaluate, IInv, Setting
<1> HIDE DEF x, h, c, a, b, p
<1> DEFINE q == ExchangerDuty(p, x)
<1>7. /\ q \in Int
      /\ outputs[a].heat = outputs[h].heat - q /\ outputs[b].heat = outputs[c].heat + q
      /\ outputs[a].flow = outputs[h].flow /\ outputs[b].flow = outputs[c].flow
      /\ outputs[h].flow # 0 /\ outputs[c].flow # 0
  BY <1>3, <1>4, <1>5, <1>6, ExchangerSound
<1> HIDE DEF q
<1>8. /\ Heat[a] = outputs[h].heat - q /\ Heat[b] = outputs[c].heat + q
      /\ Heat[h] = outputs[h].heat /\ Heat[c] = outputs[c].heat
      /\ outputs[h].heat \in Int /\ outputs[c].heat \in Int
      /\ Flow[a] = Flow[h] /\ Flow[b] = Flow[c] /\ Flow[a] # 0 /\ Flow[b] # 0
  BY <1>3, <1>7, FieldsOfStreams
<1>9. Heat[a] + Heat[b] = Heat[h] + Heat[c]
  BY <1>7, <1>8
<1> QED
  BY <1>8, <1>9 DEF Conserves, h, c, a, b

LEMMA UnitsConserve ==
    ASSUME IInv, Converged, NEW u \in Units
    PROVE  Conserves(u, Flow, 0) /\ Conserves(u, Heat, DutyOf(u))
<1>1. CASE Model(u) \in {"source", "sink"}
  BY <1>1 DEF Conserves
<1>2. Model(u) \in ModelIds
  BY StreamsOfUnit
<1> QED
  BY <1>1, <1>2, PortTable, ThermalConserves, MixerConserves, SplitterConserves, ExchangerConserves

\* The streams out of a unit, and the connections to it.
Of(u) == {k \in Streams : k[1] = u}
Into(u) == {c \in case.connections : c.target = u}

\* One stream per outlet of the model,
LEMMA OfIs ==
    ASSUME IInv, Converged, NEW u \in Units
    PROVE  Of(u) = {<<u, p.id>> : p \in {q \in Outputs(Model(u)) : q.kind = "material"}}
<1>1. ASSUME NEW k \in Of(u)
      PROVE  k \in {<<u, p.id>> : p \in {q \in Outputs(Model(u)) : q.kind = "material"}}
  <2>1. k \in DOMAIN outputs /\ k[1] = u /\ outputs[k].kind = "material"
    BY DEF Of, Streams
  <2>2. PICK v \in Units : \E p \in Outputs(Model(v)) : k = <<v, p.id>>
    BY <2>1, KeyIs
  <2>3. k = <<k[1], k[2]>>
    BY <2>2
  <2>4. Out(k[2]) \in Outputs(Model(u)) /\ Out(k[2]).id = k[2] /\ Out(k[2]).kind = "material"
    BY <2>1, QuantitiesAre, PortFields
  <2> QED
    BY <2>1, <2>3, <2>4
<1>2. ASSUME NEW p \in Outputs(Model(u)), p.kind = "material"
      PROVE  <<u, p.id>> \in Of(u)
  BY <1>2, StreamsOfUnit DEF Of
<1> QED
  BY <1>1, <1>2

\* one connection per inlet.
LEMMA IntoIs ==
    ASSUME IInv, Converged, NEW u \in Units
    PROVE  /\ Into(u) = {Feed(u, p.id) : p \in Inputs(Model(u))}
           /\ \A p \in Inputs(Model(u)) :
                /\ Feed(u, p.id) \in case.connections /\ Feed(u, p.id).in = p.id
                /\ <<Feed(u, p.id).source, Feed(u, p.id).out>> = Upstream(u, p.id)
<1>0. Setting /\ Evaluating
  BY DEF IInv, Setting
<1>1. PICK validity : KnownOf(u, validity)
  BY ConvergedUnits
<1>2. \A p \in Inputs(Model(u)) :
        /\ Feed(u, p.id) \in Into(u) /\ Feed(u, p.id) \in case.connections /\ Feed(u, p.id).in = p.id
        /\ <<Feed(u, p.id).source, Feed(u, p.id).out>> = Upstream(u, p.id)
  BY <1>0, <1>1, InletIs DEF Into
<1>3. ASSUME NEW c \in Into(u) PROVE c \in {Feed(u, p.id) : p \in Inputs(Model(u))}
  <2>1. c \in case.connections /\ c.target = u
    BY DEF Into
  <2>2. In(c.in) \in Inputs(Model(u)) /\ Feed(u, c.in) = c
    BY <1>0, <2>1, FeedIs
  <2> QED
    BY <2>2, PortFields
<1> QED
  BY <1>2, <1>3

\* The sum of two terms.
LEMMA SumPair ==
    ASSUME NEW F, NEW a, NEW b, a # b, F[a] \in Int, F[b] \in Int
    PROVE  SumFunctionOnSet(F, {a, b}) = F[a] + F[b]
<1> DEFINE A == {a}
           B == {b}
<1>1. IsFiniteSet(A) /\ IsFiniteSet(B) /\ A \cap B = {} /\ \A x \in A \cup B : F[x] \in Int
  BY FS_Singleton
<1>2. SumFunctionOnSet(F, A) = F[a] /\ SumFunctionOnSet(F, B) = F[b]
  BY SumAlone
<1> HIDE DEF A, B
<1>3. SumFunctionOnSet(F, A \cup B) = SumFunctionOnSet(F, A) + SumFunctionOnSet(F, B)
  BY <1>1, SumUnion
<1>4. A \cup B = {a, b}
  BY DEF A, B
<1>5. SumFunctionOnSet(F, A \cup B) = SumFunctionOnSet(F, {a, b})
  BY <1>4, Zenon
<1> QED
  BY <1>2, <1>3, <1>5

\* What comes out of a unit, but for sources, is what goes in, but for sinks.
Arriving(F) == [c \in case.connections |-> F[<<c.source, c.out>>]]

\* The balance of one unit, as sums over its outlets and over the connections to it.
LEMMA LocalBalance ==
    ASSUME IInv, Converged, NEW u \in Units, NEW F, \A k \in Streams : F[k] \in Int,
           NEW d \in Int, Conserves(u, F, d), Model(u) \notin {"heater", "radiator"} => d = 0
    PROVE  /\ SumFunctionOnSet(F, Of(u)) \in Int /\ SumFunctionOnSet(Arriving(F), Into(u)) \in Int
           /\ Model(u) = "source" => SumFunctionOnSet(Arriving(F), Into(u)) = 0 /\ d = 0
           /\ Model(u) = "sink" =>
                /\ SumFunctionOnSet(F, Of(u)) = 0 /\ d = 0
                /\ SumFunctionOnSet(Arriving(F), Into(u)) = F[Upstream(u, "inlet")]
           /\ Model(u) \notin {"source", "sink"} =>
                SumFunctionOnSet(F, Of(u)) = SumFunctionOnSet(Arriving(F), Into(u)) + d
<1> DEFINE G == Arriving(F)
           fed(id) == Feed(u, id)
<1>1. ASSUME NEW p \in Inputs(Model(u))
      PROVE  /\ G[fed(p.id)] = F[Upstream(u, p.id)] /\ G[fed(p.id)] \in Int
             /\ fed(p.id).in = p.id
  BY IntoIs, StreamsOfUnit DEF Arriving
<1>2. ASSUME NEW p \in Outputs(Model(u)), p.kind = "material" PROVE F[<<u, p.id>>] \in Int
  BY <1>2, StreamsOfUnit
<1> DEFINE none == SumFunctionOnSet(F, {}) = 0 /\ SumFunctionOnSet(G, {}) = 0
<1> HIDE DEF G
<1>3. none
  <2>1. IsFiniteSet({})
    BY FS_EmptySet
  <2> QED
    BY <2>1, SumIs
<1>4. Model(u) \in ModelIds
  BY StreamsOfUnit
<1> HIDE DEF fed
<1>5. CASE Model(u) = "source"
  <2>1. Of(u) = {<<u, "outlet">>} /\ Into(u) = {} /\ F[<<u, "outlet">>] \in Int
    BY <1>2, <1>5, OfIs, IntoIs, PortsOfModels, PortFields
  <2> QED
    BY <1>3, <1>5, <2>1, SumAlone DEF G
<1>6. CASE Model(u) = "sink"
  <2>1. /\ Of(u) = {} /\ Into(u) = {fed("inlet")}
        /\ G[fed("inlet")] = F[Upstream(u, "inlet")] /\ G[fed("inlet")] \in Int
    BY <1>1, <1>6, OfIs, IntoIs, PortsOfModels, PortFields DEF fed
  <2> QED
    BY <1>3, <1>6, <2>1, SumAlone DEF G
<1>7. CASE Model(u) \in {"heater", "radiator"}
  <2>1. /\ Of(u) = {<<u, "outlet">>} /\ Into(u) = {fed("inlet")} /\ F[<<u, "outlet">>] \in Int
        /\ G[fed("inlet")] = F[Upstream(u, "inlet")] /\ G[fed("inlet")] \in Int
    BY <1>1, <1>2, <1>7, OfIs, IntoIs, PortsOfModels, PortFields DEF fed
  <2> QED
    BY <1>7, <2>1, SumAlone, ZenonT(40) DEF G, Conserves
<1>8. CASE Model(u) = "mixer"
  <2>1. /\ Of(u) = {<<u, "outlet">>} /\ Into(u) = {fed("inlet-a"), fed("inlet-b")}
        /\ F[<<u, "outlet">>] \in Int
        /\ G[fed("inlet-a")] = F[Upstream(u, "inlet-a")] /\ G[fed("inlet-a")] \in Int
        /\ G[fed("inlet-b")] = F[Upstream(u, "inlet-b")] /\ G[fed("inlet-b")] \in Int
        /\ fed("inlet-a") # fed("inlet-b")
    BY <1>1, <1>2, <1>8, OfIs, IntoIs, PortsOfModels, PortFields DEF fed
  <2>2. SumFunctionOnSet(F, Of(u)) = F[<<u, "outlet">>]
    BY <2>1, SumAlone
  <2>3. SumFunctionOnSet(G, Into(u)) = G[fed("inlet-a")] + G[fed("inlet-b")]
    BY <2>1, SumPair
  <2> QED
    BY <1>8, <2>1, <2>2, <2>3 DEF G, Conserves
<1>9. CASE Model(u) = "splitter"
  <2>1. /\ Of(u) = {<<u, "outlet-a">>, <<u, "outlet-b">>} /\ Into(u) = {fed("inlet")}
        /\ F[<<u, "outlet-a">>] \in Int /\ F[<<u, "outlet-b">>] \in Int
        /\ G[fed("inlet")] = F[Upstream(u, "inlet")] /\ G[fed("inlet")] \in Int
    BY <1>1, <1>2, <1>9, OfIs, IntoIs, PortsOfModels, PortFields DEF fed
  <2>2. SumFunctionOnSet(F, Of(u)) = F[<<u, "outlet-a">>] + F[<<u, "outlet-b">>]
    <3>1. <<u, "outlet-a">> # <<u, "outlet-b">>
      OBVIOUS
    <3> QED
      BY <2>1, <3>1, SumPair
  <2>3. SumFunctionOnSet(G, Into(u)) = G[fed("inlet")]
    BY <2>1, SumAlone
  <2> QED
    BY <1>9, <2>1, <2>2, <2>3 DEF G, Conserves
<1>10. CASE Model(u) = "heat_exchanger"
  <2>1. /\ Of(u) = {<<u, "hot-out">>, <<u, "cold-out">>} /\ Into(u) = {fed("hot-in"), fed("cold-in")}
        /\ F[<<u, "hot-out">>] \in Int /\ F[<<u, "cold-out">>] \in Int
        /\ G[fed("hot-in")] = F[Upstream(u, "hot-in")] /\ G[fed("hot-in")] \in Int
        /\ G[fed("cold-in")] = F[Upstream(u, "cold-in")] /\ G[fed("cold-in")] \in Int
        /\ fed("hot-in") # fed("cold-in")
    BY <1>1, <1>2, <1>10, OfIs, IntoIs, PortsOfModels, PortFields DEF fed
  <2>2. SumFunctionOnSet(F, Of(u)) = F[<<u, "hot-out">>] + F[<<u, "cold-out">>]
    <3>1. <<u, "hot-out">> # <<u, "cold-out">>
      OBVIOUS
    <3> QED
      BY <2>1, <3>1, SumPair
  <2>3. SumFunctionOnSet(G, Into(u)) = G[fed("hot-in")] + G[fed("cold-in")]
    BY <2>1, SumPair
  <2> QED
    BY <1>10, <2>1, <2>2, <2>3 DEF G, Conserves
<1> QED
  BY <1>4, <1>5, <1>6, <1>7, <1>8, <1>9, <1>10, PortTable

\* Streams that no connection takes on.
Open == {k \in Streams : \A c \in case.connections : <<c.source, c.out>> # k}

\* Every other stream is carried by one connection.
LEMMA OpenAndTaken ==
    ASSUME IInv, Converged, NEW F, \A k \in Streams : F[k] \in Int
    PROVE  /\ SumFunctionOnSet(F, Open) \in Int /\ SumFunctionOnSet(Arriving(F), case.connections) \in Int
           /\ SumFunctionOnSet(F, Streams)
                = SumFunctionOnSet(Arriving(F), case.connections) + SumFunctionOnSet(F, Open)
<1> DEFINE C == case.connections
           h == [c \in C |-> <<c.source, c.out>>]
           K == {<<c.source, c.out>> : c \in C}
           G == Arriving(F)
<1>1. Setting /\ Evaluating /\ WellPosed /\ IsFiniteSet(C) /\ IsFiniteSet(Streams)
  BY Ordered, TermsAre DEF IInv, Setting
<1>2. ASSUME NEW c \in C PROVE <<c.source, c.out>> \in Streams
  <2>1. c.target \in Units /\ In(c.in) \in Inputs(Model(c.target)) /\ Feed(c.target, c.in) = c
    BY <1>1, FeedIs
  <2> QED
    BY <2>1, IntoIs, StreamsOfUnit, PortFields
<1>3. h \in [C -> K] /\ (\A y \in K : \E x \in C : h[x] = y) /\ \A x, y \in C : h[x] = h[y] => x = y
  BY <1>1 DEF WellPosed
<1>4. \A c \in C : G[c] \in Int /\ G[c] = F[h[c]]
  BY <1>2 DEF Arriving
<1>5. K \cap Open = {} /\ K \cup Open = Streams
  BY <1>2 DEF Open
<1> HIDE DEF C, h, K, G
<1>6. SumFunctionOnSet(G, C) = SumFunctionOnSet(F, K)
  BY <1>1, <1>3, <1>4, SumRenamed
<1>7. IsFiniteSet(K) /\ IsFiniteSet(Open) /\ \A k \in K \cup Open : F[k] \in Int
  BY <1>1, <1>5, FS_Subset
<1>8. SumFunctionOnSet(F, K \cup Open) = SumFunctionOnSet(F, K) + SumFunctionOnSet(F, Open)
  BY <1>5, <1>7, SumUnion
<1>9. SumFunctionOnSet(F, K) \in Int /\ SumFunctionOnSet(F, Open) \in Int
  BY <1>7, SumIs
<1>10. SumFunctionOnSet(F, K \cup Open) = SumFunctionOnSet(F, Streams)
  BY <1>5, Zenon
<1> QED
  BY <1>6, <1>8, <1>9, <1>10 DEF C, G

\* Summed over all units: what is open and what sinks take is what sources and duties bring.
LEMMA SheetBalance ==
    ASSUME IInv, Converged, NEW F, \A k \in Streams : F[k] \in Int, NEW D,
           \A u \in Units : /\ D[u] \in Int /\ Conserves(u, F, D[u])
                            /\ Model(u) \notin {"heater", "radiator"} => D[u] = 0
    PROVE  SumFunctionOnSet(F, Open) + SumFunction(SinkTerms(F))
             = SumFunctionOnSet(F, SourceValues) + SumFunctionOnSet(D, Units)
<1> DEFINE G == Arriving(F)
           sources == OfModel("source")
           sinks == OfModel("sink")
           a == [u \in Units |-> SumFunctionOnSet(F, Of(u))]
           b == [u \in Units |-> SumFunctionOnSet(G, Into(u))]
           src == [u \in Units |-> IF u \in sources THEN a[u] ELSE 0]
           snk == [u \in Units |-> IF u \in sinks THEN b[u] ELSE 0]
           left == [u \in Units |-> a[u] + snk[u]]
           right == [u \in Units |-> b[u] + src[u]]
           total == [u \in Units |-> right[u] + D[u]]
           S(f) == SumFunctionOnSet(f, Units)
<1>1. IsFiniteSet(Units) /\ IsFiniteSet(Streams) /\ IsFiniteSet(case.connections)
  BY KeysFinite, TermsAre
<1>2. sources \subseteq Units /\ sinks \subseteq Units
      /\ \A u \in Units : (u \in sources <=> Model(u) = "source") /\ (u \in sinks <=> Model(u) = "sink")
  BY DEF OfModel, Model
<1>3. ASSUME NEW u \in Units
      PROVE  /\ a[u] \in Int /\ b[u] \in Int /\ D[u] \in Int
             /\ u \in sources => b[u] = 0 /\ D[u] = 0
             /\ u \in sinks => a[u] = 0 /\ D[u] = 0 /\ b[u] = F[Upstream(u, "inlet")]
             /\ u \notin sources \cup sinks => a[u] = b[u] + D[u]
             /\ ~ (u \in sources /\ u \in sinks)
  <2> DEFINE d == D[u]
  <2>1. d \in Int /\ Conserves(u, F, d) /\ (Model(u) \notin {"heater", "radiator"} => d = 0)
    OBVIOUS
  <2> HIDE DEF d
  <2>2. /\ SumFunctionOnSet(F, Of(u)) \in Int /\ SumFunctionOnSet(Arriving(F), Into(u)) \in Int
        /\ Model(u) = "source" => SumFunctionOnSet(Arriving(F), Into(u)) = 0 /\ d = 0
        /\ Model(u) = "sink" =>
             /\ SumFunctionOnSet(F, Of(u)) = 0 /\ d = 0
             /\ SumFunctionOnSet(Arriving(F), Into(u)) = F[Upstream(u, "inlet")]
        /\ Model(u) \notin {"source", "sink"} =>
             SumFunctionOnSet(F, Of(u)) = SumFunctionOnSet(Arriving(F), Into(u)) + d
    BY <2>1, LocalBalance
  <2>3. a[u] = SumFunctionOnSet(F, Of(u)) /\ b[u] = SumFunctionOnSet(Arriving(F), Into(u))
    OBVIOUS
  <2> HIDE DEF a, b, G, sources, sinks
  <2> QED
    BY <1>2, <2>1, <2>2, <2>3 DEF d
<1> HIDE DEF a, b, sources, sinks
<1>4. \A u \in Units : src[u] \in Int /\ snk[u] \in Int /\ left[u] \in Int /\ right[u] \in Int
                       /\ left[u] = a[u] + snk[u] /\ right[u] = b[u] + src[u]
                       /\ total[u] = right[u] + D[u] /\ total[u] \in Int /\ left[u] = total[u]
  <2> SUFFICES ASSUME NEW u \in Units
               PROVE  src[u] \in Int /\ snk[u] \in Int /\ left[u] \in Int /\ right[u] \in Int
                      /\ left[u] = a[u] + snk[u] /\ right[u] = b[u] + src[u]
                      /\ total[u] = right[u] + D[u] /\ total[u] \in Int /\ left[u] = total[u]
    OBVIOUS
  <2>1. CASE u \in sources
    BY <1>3, <2>1
  <2>2. CASE u \in sinks
    BY <1>3, <2>2
  <2>3. CASE u \notin sources \cup sinks
    BY <1>3, <2>3
  <2> QED
    BY <2>1, <2>2, <2>3
<1>5. /\ \A u \in Units \ sources : src[u] = 0
      /\ \A u \in Units \ sinks : snk[u] = 0
      /\ \A u \in sources : src[u] = a[u]
      /\ \A u \in sinks : snk[u] = F[Upstream(u, "inlet")]
  BY <1>2, <1>3
<1> HIDE DEF src, snk, left, right, total
<1>6. /\ S(left) = S(a) + S(snk) /\ S(right) = S(b) + S(src) /\ S(total) = S(right) + S(D)
      /\ S(left) = S(total)
      /\ S(a) \in Int /\ S(b) \in Int /\ S(src) \in Int /\ S(snk) \in Int /\ S(D) \in Int
  <2>1. S(left) = S(a) + S(snk)
    BY <1>1, <1>3, <1>4, SumPlus
  <2>2. S(right) = S(b) + S(src)
    BY <1>1, <1>3, <1>4, SumPlus
  <2>3. S(total) = S(right) + S(D)
    BY <1>1, <1>3, <1>4, SumPlus
  <2>4. S(left) = S(total)
    BY <1>1, <1>4, SumsOfEquals
  <2>5. S(a) \in Int /\ S(b) \in Int /\ S(src) \in Int /\ S(snk) \in Int /\ S(D) \in Int
    BY <1>1, <1>3, <1>4, SumIs
  <2> QED
    BY <2>1, <2>2, <2>3, <2>4, <2>5
\* Streams are those of the units, and connections those to the units.
<1>7. S(a) = SumFunctionOnSet(F, Streams)
  <2> DEFINE K == [u \in Units |-> Of(u)]
  <2>1. \A u \in Units : IsFiniteSet(K[u]) /\ a[u] = SumFunctionOnSet(F, K[u])
    BY <1>1, FS_Subset DEF Of, a
  <2>2. \A u, v \in Units : u # v => K[u] \cap K[v] = {}
    BY DEF Of
  <2>3. \A u \in Units : \A k \in K[u] : F[k] \in Int
    BY DEF Of
  <2>4. \A x : x \in Streams <=> \E u \in Units : x \in K[u]
    BY QuantitiesAre DEF Of, Streams
  <2>5. IsFiniteSet(Units)
    BY <1>1
  <2> HIDE DEF K, S
  <2>6. SumFunctionOnSet(a, Units) = SumFunctionOnSet(F, Streams)
    BY ONLY <2>1, <2>2, <2>3, <2>4, <2>5, SumOfParts
  <2> QED
    BY <2>6 DEF S
<1>8. S(b) = SumFunctionOnSet(G, case.connections)
  <2> DEFINE K == [u \in Units |-> Into(u)]
  <2>1. /\ \A u \in Units : IsFiniteSet(K[u]) /\ b[u] = SumFunctionOnSet(G, K[u])
        /\ \A u, v \in Units : u # v => K[u] \cap K[v] = {}
    BY <1>1, FS_Subset DEF Into, b
  <2>2. \A x : x \in case.connections <=> \E u \in Units : x \in K[u]
    <3>1. \A c \in case.connections : c.target \in Units
      BY FeedIs DEF IInv, Setting
    <3> QED
      BY <3>1 DEF Into
  <2>3. \A u \in Units : \A c \in K[u] : G[c] \in Int
    <3>1. ASSUME NEW c \in case.connections PROVE G[c] \in Int
      <4>1. c.target \in Units /\ In(c.in) \in Inputs(Model(c.target)) /\ Feed(c.target, c.in) = c
        BY FeedIs DEF IInv, Setting
      <4>2. <<c.source, c.out>> \in Streams
        BY <4>1, IntoIs, StreamsOfUnit, PortFields
      <4> QED
        BY <4>2 DEF Arriving
    <3> QED
      BY <3>1 DEF Into
  <2> HIDE DEF K, G
  <2> QED
    BY <1>1, <2>1, <2>2, <2>3, SumOfParts, SMTT(30)
<1>9. S(src) = SumFunctionOnSet(F, SourceValues)
  <2>1. S(src) = SumFunctionOnSet(src, sources)
    BY <1>1, <1>2, <1>4, <1>5, SumWhere
  <2> DEFINE K == [u \in sources |-> Of(u)]
  <2>2. /\ IsFiniteSet(sources)
        /\ \A u \in sources : IsFiniteSet(K[u]) /\ src[u] = SumFunctionOnSet(F, K[u])
        /\ \A u, v \in sources : u # v => K[u] \cap K[v] = {}
        /\ \A u \in sources : \A k \in K[u] : F[k] \in Int
    <3>1. IsFiniteSet(sources)
      BY <1>1, <1>2, FS_Subset
    <3>2. \A u \in sources : a[u] = SumFunctionOnSet(F, K[u])
      BY <1>2 DEF a
    <3> QED
      BY <1>1, <1>2, <1>5, <3>1, <3>2, FS_Subset DEF Of
  <2>3. \A x : x \in SourceValues <=> \E u \in sources : x \in K[u]
    BY TermsAre DEF Of, SourceValues, sources, Streams
  <2> HIDE DEF K
  <2>4. SumFunctionOnSet(src, sources) = SumFunctionOnSet(F, SourceValues)
    BY <2>2, <2>3, SumOfParts, SMTT(30)
  <2> QED
    BY <2>1, <2>4
<1>10. S(snk) = SumFunction(SinkTerms(F))
  <2>1. S(snk) = SumFunctionOnSet(snk, sinks)
    BY <1>1, <1>2, <1>4, <1>5, SumWhere
  <2>2. IsFiniteSet(sinks)
    BY <1>1, <1>2, FS_Subset
  <2> DEFINE T == SinkTerms(F)
  <2>3. DOMAIN T = sinks /\ \A u \in sinks : snk[u] = T[u]
    BY <1>5 DEF SinkTerms, sinks
  <2> HIDE DEF T
  <2>4. SumFunctionOnSet(snk, sinks) = SumFunctionOnSet(T, sinks)
    BY <2>2, <2>3, SumsOfEquals
  <2> QED
    BY <2>1, <2>3, <2>4 DEF SumFunction, T
<1>11. /\ SumFunctionOnSet(F, Streams) = SumFunctionOnSet(G, case.connections) + SumFunctionOnSet(F, Open)
       /\ SumFunctionOnSet(F, Open) \in Int
  BY OpenAndTaken
<1> HIDE DEF G
<1> QED
  BY <1>6, <1>7, <1>8, <1>9, <1>10, <1>11

\* Residuals are what the open outlets carry.
LEMMA Residuals ==
    ASSUME IInv, Converged
    PROVE  /\ MassResidual = SumFunctionOnSet(Flow, Open)
           /\ EnergyResidual = SumFunctionOnSet(Heat, Open)
<1>1. /\ IsFiniteSet(Units) /\ IsFiniteSet(Powers) /\ \A k \in Powers : DutyAt[k] \in Int
      /\ \A k \in Streams : Flow[k] \in Int /\ Heat[k] \in Int
  BY KeysFinite, TermsAre
<1>2. SumFunctionOnSet(Flow, Open) \in Int /\ SumFunctionOnSet(Heat, Open) \in Int
  BY <1>1, OpenAndTaken
<1> DEFINE none == [u \in Units |-> 0]
           duty == [u \in Units |-> DutyOf(u)]
           T == {u \in Units : Model(u) \in {"heater", "radiator"}}
           h == [u \in T |-> <<u, "duty">>]
<1>3. \A u \in T : h[u] \in Powers /\ duty[u] = DutyAt[h[u]]
  <2> SUFFICES ASSUME NEW u \in T PROVE <<u, "duty">> \in Powers /\ duty[u] = DutyAt[<<u, "duty">>]
    OBVIOUS
  <2>1. Duty \in Outputs(Model(u))
    BY PortsOfModels
  <2>2. <<u, "duty">> \in Powers
    BY <2>1, StreamsOfUnit, PortFields
  <2> QED
    BY <2>2 DEF DutyAt, DutyOf
<1>4. \A u \in Units : duty[u] \in Int /\ (Model(u) \notin {"heater", "radiator"} => duty[u] = 0)
  <2> SUFFICES ASSUME NEW u \in Units
               PROVE  duty[u] \in Int /\ (Model(u) \notin {"heater", "radiator"} => duty[u] = 0)
    OBVIOUS
  <2>1. CASE u \in T
    BY <1>1, <1>3, <2>1
  <2>2. CASE u \notin T
    BY <2>2 DEF DutyOf
  <2> QED
    BY <2>1, <2>2
<1>5. /\ \A u \in Units : none[u] = 0 /\ none[u] \in Int
      /\ \A u \in Units : Conserves(u, Flow, none[u]) /\ Conserves(u, Heat, duty[u])
  BY UnitsConserve
<1>6. T \subseteq Units /\ IsFiniteSet(T) /\ (\A u \in Units \ T : duty[u] = 0)
  BY <1>1, <1>4, FS_Subset
<1>7. h \in [T -> Powers] /\ (\A u, v \in T : h[u] = h[v] => u = v) /\ \A k \in Powers : \E u \in T : h[u] = k
  <2>1. ASSUME NEW k \in Powers PROVE \E u \in T : h[u] = k
    <3>1. k \in DOMAIN outputs /\ outputs[k].kind = "energy"
      BY DEF Powers
    <3>2. k[1] \in T /\ k[2] = "duty"
      BY <3>1, QuantitiesAre
    <3>3. k = <<k[1], k[2]>>
      <4>1. PICK u \in Units : \E p \in Outputs(Model(u)) : k = <<u, p.id>>
        BY <3>1, KeyIs
      <4> QED
        BY <4>1
    <3> QED
      BY <3>2, <3>3
  <2> QED
    BY <1>3, <2>1
<1> HIDE DEF none, duty, T, h
<1>8. SumFunctionOnSet(none, Units) = 0
  <2>1. SumFunctionOnSet(none, Units) = SumFunctionOnSet(none, {})
    BY <1>1, <1>5, SumWhere
  <2> QED
    BY <1>1, <1>5, <2>1, SumIs
<1>9. SumFunctionOnSet(duty, Units) = SumFunctionOnSet(DutyAt, Powers)
  <2>1. SumFunctionOnSet(duty, Units) = SumFunctionOnSet(duty, T)
    BY <1>1, <1>4, <1>6, SumWhere
  <2>2. \A u \in T : duty[u] \in Int /\ duty[u] = DutyAt[h[u]]
    BY <1>3, <1>4, <1>6
  <2>3. SumFunctionOnSet(duty, T) = SumFunctionOnSet(DutyAt, Powers)
    BY <1>6, <1>7, <2>2, SumRenamed
  <2> QED
    BY <2>1, <2>3
<1>10. SumFunctionOnSet(Flow, Open) + SumFunction(SinkTerms(Flow))
         = SumFunctionOnSet(Flow, SourceValues) + SumFunctionOnSet(none, Units)
  BY <1>1, <1>5, SheetBalance
<1>11. SumFunctionOnSet(Heat, Open) + SumFunction(SinkTerms(Heat))
         = SumFunctionOnSet(Heat, SourceValues) + SumFunctionOnSet(duty, Units)
  BY <1>1, <1>4, <1>5, SheetBalance
<1>12. MassResidual = SumFunctionOnSet(Flow, Open)
  BY <1>2, <1>8, <1>10, RunTotals DEF MassResidual
<1>13. EnergyResidual = SumFunctionOnSet(Heat, Open)
  <2>1. /\ SourceHeat = SumFunctionOnSet(Heat, SourceValues) /\ SourceHeat \in Int
        /\ SinkHeat = SumFunction(SinkTerms(Heat)) /\ SinkHeat \in Int
        /\ EquipmentDuty = SumFunctionOnSet(DutyAt, Powers) /\ EquipmentDuty \in Int
    BY RunTotals
  <2>2. SumFunctionOnSet(Heat, Open) + SinkHeat = SourceHeat + EquipmentDuty
    BY <1>9, <1>11, <2>1
  <2> QED
    BY <1>2, <2>1, <2>2 DEF EnergyResidual
<1> QED
  BY <1>12, <1>13

\* What is missing from the balances of a converged run is what its open outlets carry, no
\* more and no less: every unit in between conserves mass and, with its duty, energy.
THEOREM ResidualsAreLeaks ==
    Spec => [](Converged => /\ MassResidual = SumFunctionOnSet(Flow, Open)
                            /\ EnergyResidual = SumFunctionOnSet(Heat, Open))
<1>1. IInv => (Converged => /\ MassResidual = SumFunctionOnSet(Flow, Open)
                            /\ EnergyResidual = SumFunctionOnSet(Heat, Open))
  BY Residuals
<1> QED
  BY <1>1, Invariant, PTL

\* No stream runs backwards, and one that is at rest carries no heat.
Forward(k) == Flow[k] >= 0 /\ (Flow[k] = 0 => Heat[k] = 0)

\* A share of a stream runs as the stream does.
LEMMA SharesForward ==
    ASSUME NEW f \in Int, NEW h \in Int, f % 2 = 0, h % 2 = 0, NEW n \in 0 .. 2,
           f >= 0, f = 0 => h = 0
    PROVE  (f * n) \div 2 >= 0 /\ ((f * n) \div 2 = 0 => (h * n) \div 2 = 0)
<1>1. PICK g \in Int : f = 2 * g
  BY Z3
<1>2. PICK e \in Int : h = 2 * e
  BY Z3
<1>3. CASE n = 0
  BY <1>1, <1>2, <1>3
<1>4. CASE n = 1
  BY <1>1, <1>2, <1>4
<1>5. CASE n = 2
  BY <1>1, <1>2, <1>5
<1> QED
  BY <1>3, <1>4, <1>5

\* A unit whose inlets run forward has outlets that do,
LEMMA UnitForward ==
    ASSUME IInv, Converged, FlowsForward, NEW u \in Units,
           \A p \in Inputs(Model(u)) : Forward(Upstream(u, p.id)),
           NEW p \in Outputs(Model(u)), p.kind = "material"
    PROVE  Forward(<<u, p.id>>)
<1>1. Model(u) \in ModelIds
  BY StreamsOfUnit
<1>2. CASE Model(u) = "source"
  <2> DEFINE q == case.units[u].parameters
             x == InputValues(u)
  <2>1. PICK e \in Evaluate(case.units[u], x) :
          /\ Sound(Model(u), e)
          /\ \A r \in Outputs(Model(u)) : outputs[<<u, r.id>>] = e.outputs[r.id]
    BY StreamsOfUnit
  <2>2. Outputs(Model(u)) = {Out("outlet")} /\ p.id = "outlet" /\ Out("outlet").id = "outlet"
    BY <1>2, PortsOfModels, PortFields
  <2>3. outputs[<<u, "outlet">>] = e.outputs.outlet /\ <<u, "outlet">> \in Streams
    BY <2>1, <2>2, StreamsOfUnit
  <2>4. e \in EvaluateSource(q, x) /\ Given("source", q)
    BY <1>2, UnitIsGiven DEF Model, Evaluate, IInv, Setting
  <2>5. q.mass_flow >= 0
    <3>1. "mass_flow" \in DOMAIN q
      BY <2>4 DEF Given, Required
    <3>2. case.units \in Sheets /\ u \in DOMAIN case.units /\ case.units[u].model = "source"
      BY <1>2 DEF IInv, Setting, Units, Model
    <3> QED
      BY <3>1, <3>2 DEF FlowsForward
  <2> HIDE DEF q, x
  <2>6. /\ q.mass_flow \in Int /\ q.temperature \in Int
        /\ Flow[<<u, "outlet">>] = q.mass_flow
        /\ Heat[<<u, "outlet">>] = q.mass_flow * q.temperature
    BY <2>3, <2>4, SourceSound, FieldsOfStreams
  <2>7. q.mass_flow = 0 => q.mass_flow * q.temperature = 0
    BY <2>6
  <2> QED
    BY <2>2, <2>5, <2>6, <2>7 DEF Forward
<1>3. CASE Model(u) \in {"heater", "radiator"}
  <2>1. p.id = "outlet"
    BY <1>3, PortsOfModels, PortFields
  <2>2. Flow[<<u, "outlet">>] > 0 /\ Flow[<<u, "outlet">>] \in Int
    BY <1>3, <2>1, ThermalConserves, StreamsOfUnit, TermsAre
  <2> QED
    BY <2>1, <2>2 DEF Forward
<1>4. CASE Model(u) = "mixer"
  <2>1. p.id = "outlet"
    BY <1>4, PortsOfModels, PortFields
  <2>2. /\ Upstream(u, "inlet-a") \in Streams /\ Forward(Upstream(u, "inlet-a"))
        /\ Upstream(u, "inlet-b") \in Streams /\ Forward(Upstream(u, "inlet-b"))
    <3>1. In("inlet-a") \in Inputs(Model(u)) /\ In("inlet-b") \in Inputs(Model(u))
      BY <1>4, PortsOfModels
    <3> QED
      BY <3>1, StreamsOfUnit, PortFields
  <2>3. /\ Flow[<<u, "outlet">>] = Flow[Upstream(u, "inlet-a")] + Flow[Upstream(u, "inlet-b")]
        /\ Flow[<<u, "outlet">>] # 0
    BY <1>4, MixerConserves DEF Conserves
  <2>4. Flow[Upstream(u, "inlet-a")] \in Int /\ Flow[Upstream(u, "inlet-b")] \in Int
    BY <2>2, TermsAre
  <2>5. Flow[<<u, "outlet">>] >= 0
    BY <2>2, <2>3, <2>4 DEF Forward
  <2> QED
    BY <2>1, <2>3, <2>5 DEF Forward
<1>5. CASE Model(u) = "heat_exchanger"
  <2>1. p.id \in {"hot-out", "cold-out"}
    BY <1>5, PortsOfModels, PortFields
  <2>2. Forward(Upstream(u, "hot-in")) /\ Forward(Upstream(u, "cold-in"))
    <3>1. In("hot-in") \in Inputs(Model(u)) /\ In("cold-in") \in Inputs(Model(u))
      BY <1>5, PortsOfModels
    <3> QED
      BY <3>1, PortFields
  <2>3. CASE p.id = "hot-out"
    BY <1>5, <2>2, <2>3, ExchangerConserves DEF Forward
  <2>4. CASE p.id = "cold-out"
    BY <1>5, <2>2, <2>4, ExchangerConserves DEF Forward
  <2> QED
    BY <2>1, <2>3, <2>4
<1>6. CASE Model(u) = "splitter"
  <2> DEFINE i == Upstream(u, "inlet")
             s == outputs[i]
  <2>1. p.id \in {"outlet-a", "outlet-b"}
    BY <1>6, PortsOfModels, PortFields
  <2>2. i \in Streams /\ Forward(i)
    BY <1>6, StreamsOfUnit, PortsOfModels, PortFields
  <2>3. s.flow \in Int /\ s.heat \in Int /\ s.flow >= 0 /\ (s.flow = 0 => s.heat = 0)
    BY <2>2, FieldsOfStreams DEF Forward
  <2>4. PICK n \in 0 .. 2 :
          /\ s.flow % 2 = 0 /\ Flow[<<u, p.id>>] = (s.flow * n) \div 2
          /\ s.heat % 2 = 0 /\ Heat[<<u, p.id>>] = (s.heat * n) \div 2
    BY <1>6, <2>1, SplitterConserves
  <2> HIDE DEF s, i
  <2> QED
    BY <2>3, <2>4, SharesForward DEF Forward
<1>7. Model(u) # "sink"
  BY PortsOfModels
<1> QED
  BY <1>1, <1>2, <1>3, <1>4, <1>5, <1>6, <1>7, PortTable

\* and by the order of evaluation all streams do.
LEMMA StreamsForward ==
    ASSUME IInv, Converged, FlowsForward, NEW k \in Streams
    PROVE  Forward(k)
<1> DEFINE Ahead(i) == \A p \in Outputs(Model(Order[i])) : p.kind = "material" => Forward(<<Order[i], p.id>>)
           Bad == {i \in Nat : i \in 1 .. Len(Order) /\ ~ Ahead(i)}
<1>1. Setting /\ Evaluating
  BY DEF IInv, Setting
<1>2. Order \in Seq(Units) /\ Len(Order) \in Nat /\ \A u \in Units : \E i \in 1 .. Len(Order) : Order[i] = u
  BY <1>1, Ordered
<1>3. Bad = {}
  <2>1. SUFFICES ASSUME Bad # {} PROVE FALSE
    OBVIOUS
  <2>2. PICK i \in Bad : \A j \in Bad : i <= j
    <3>1. Bad \in SUBSET Nat
      OBVIOUS
    <3> HIDE DEF Bad
    <3> QED
      BY <2>1, <3>1, SmallestNumber
  <2>3. i \in 1 .. Len(Order) /\ ~ Ahead(i) /\ Order[i] \in Units
    BY <1>2, <2>2
  <2>4. ASSUME NEW j \in 1 .. Len(Order), j < i PROVE Ahead(j)
    BY <2>2, <2>3, <2>4
  <2>5. ASSUME NEW p \in Inputs(Model(Order[i])) PROVE Forward(Upstream(Order[i], p.id))
    <3>1. PICK j \in 1 .. i - 1 : \E q \in Outputs(Model(Order[j])) :
            /\ Upstream(Order[i], p.id) = <<Order[j], q.id>> /\ q.kind = "material"
            /\ j \in 1 .. Len(Order)
      BY <1>1, <2>3, FedFrom
    <3>2. j < i
      BY <2>3
    <3> HIDE DEF Bad
    <3> QED
      BY <2>4, <3>1, <3>2
  <2> HIDE DEF Bad
  <2>6. Ahead(i)
    BY <2>3, <2>5, UnitForward
  <2> QED
    BY <2>3, <2>6
<1>4. k[1] \in Units /\ Out(k[2]) \in Outputs(Model(k[1])) /\ k = <<k[1], k[2]>>
  <2>1. k \in DOMAIN outputs /\ outputs[k].kind = "material"
    BY DEF Streams
  <2>2. PICK u \in Units : \E p \in Outputs(Model(u)) : k = <<u, p.id>>
    BY <2>1, KeyIs
  <2> QED
    BY <2>1, <2>2, QuantitiesAre
<1>5. PICK i \in 1 .. Len(Order) : Order[i] = k[1]
  BY <1>2, <1>4
<1>6. Ahead(i)
  <2>1. i \in Nat /\ i \notin Bad
    BY <1>2, <1>3, <1>5
  <2> QED
    BY <1>5, <2>1
<1>7. Out(k[2]).id = k[2] /\ Out(k[2]).kind = "material"
  BY PortFields
<1> QED
  BY <1>4, <1>5, <1>6, <1>7

\* An outlet leaks if it is open and something flows.
LEMMA LeaksAreOpen ==
    ASSUME IInv, Converged
    PROVE  NothingLeaks <=> \A k \in Open : ~ Flow[k] > 0
<1>1. ASSUME NothingLeaks, NEW k \in Open, Flow[k] > 0 PROVE FALSE
  <2>1. k \in Streams /\ k \in DOMAIN outputs /\ outputs[k].kind = "material"
    BY DEF Open, Streams
  <2>2. PICK u \in Units : \E p \in Outputs(Model(u)) : k = <<u, p.id>>
    BY <2>1, KeyIs
  <2>3. u = k[1] /\ k = <<k[1], k[2]>>
    BY <2>2
  <2>4. Out(k[2]) \in PortsOf(case, u) /\ Out(k[2]).direction = "output"
    BY <2>1, <2>3, QuantitiesAre DEF Outputs, PortsOf, Model
  <2>5. outputs[<<u, Out(k[2]).id>>].flow > 0 /\ Out(k[2]).id = k[2] /\ Out(k[2]).kind = "material"
    BY <1>1, <2>1, <2>3, PortFields DEF Flow
  <2>6. PICK c \in case.connections : c.source = u /\ c.out = k[2]
    BY <1>1, <2>2, <2>4, <2>5 DEF NothingLeaks
  <2> QED
    BY <2>3, <2>6 DEF Open
<1>2. ASSUME \A k \in Open : ~ Flow[k] > 0,
             NEW u \in Units, NEW p \in PortsOf(case, u),
             p.direction = "output", p.kind = "material", outputs[<<u, p.id>>].flow > 0
      PROVE  \E c \in case.connections : c.source = u /\ c.out = p.id
  <2> DEFINE k == <<u, p.id>>
  <2>1. p \in Outputs(Model(u))
    BY <1>2 DEF Outputs, PortsOf, Model
  <2>2. k \in Streams /\ Flow[k] > 0
    BY <1>2, <2>1, StreamsOfUnit DEF Flow
  <2>3. k \notin Open
    BY <1>2, <2>2
  <2> QED
    BY <2>2, <2>3 DEF Open
<1> QED
  BY <1>1, <1>2 DEF NothingLeaks

\* Balances of units add up to those of the sheet, of any size: if no source draws, a
\* converged run closes exactly when no outlet with something in it leads nowhere.  (With a
\* source that draws, two open outlets could make up for each other; the code takes one.)
THEOREM ClosureFindsLeaks ==
    ASSUME FlowsForward
    PROVE  Spec => []ClosesUnlessLeaking
<1>1. IInv => ClosesUnlessLeaking
  <2> SUFFICES ASSUME IInv, Converged PROVE result.closure = "PASSED" <=> NothingLeaks
    BY DEF ClosesUnlessLeaking
  <2> DEFINE S == Open
  <2>1. IsFiniteSet(S) /\ S \subseteq Streams
    BY TermsAre, FS_Subset DEF Open
  <2>2. \A k \in S : Flow[k] \in Nat /\ Heat[k] \in Int /\ (Flow[k] = 0 => Heat[k] = 0)
    BY <2>1, StreamsForward, TermsAre DEF Forward
  <2>3. result.closure = "PASSED" <=> SumFunctionOnSet(Flow, S) = 0 /\ SumFunctionOnSet(Heat, S) = 0
    BY Residuals DEF IInv, Setting, Closure
  <2>4. NothingLeaks <=> \A k \in S : Flow[k] = 0
    BY <2>2, LeaksAreOpen
  <2> HIDE DEF S
  <2>5. SumFunctionOnSet(Flow, S) = 0 => \A k \in S : Flow[k] = 0
    BY <2>1, <2>2, SumNatural
  <2>6. ASSUME \A k \in S : Flow[k] = 0
        PROVE  SumFunctionOnSet(Flow, S) = 0 /\ SumFunctionOnSet(Heat, S) = 0
    <3>1. \A k \in S : Heat[k] = 0 /\ Flow[k] = 0 /\ Heat[k] \in Int /\ Flow[k] \in Int
      BY <2>2, <2>6
    <3>2. SumFunctionOnSet(Flow, S) = SumFunctionOnSet(Flow, {})
      BY <2>1, <3>1, SumWhere
    <3>3. SumFunctionOnSet(Heat, S) = SumFunctionOnSet(Heat, {})
      BY <2>1, <3>1, SumWhere
    <3>4. SumFunctionOnSet(Flow, {}) = 0 /\ SumFunctionOnSet(Heat, {}) = 0
      BY <2>1, <3>1, SumIs
    <3> QED
      BY <3>2, <3>3, <3>4
  <2> QED
    BY <2>3, <2>4, <2>5, <2>6
<1> QED
  BY <1>1, Invariant, PTL
===============================================================================
