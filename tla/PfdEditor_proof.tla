----------------------------- MODULE PfdEditor_proof -----------------------------
(***************************************************************************)
(* Proofs about PfdEditor, for every document that is opened, whatever is  *)
(* on the clipboard, and any number of objects and edits: what the editor  *)
(* accepts can leave it, the selection is there, numbers are issued once,  *)
(* and edits are classified as the differences between documents are.      *)
(***************************************************************************)
EXTENDS PfdEditor, FiniteSetTheorems, WellFoundedInduction, TLAPS

-------------------------------------------------------------------------------
(* Documents under work *)

\* A document under work has nothing but its parts.
Works(w) == w = [doc |-> w.doc, fresh |-> w.fresh, issued |-> w.issued, code |-> w.code]

\* Stream numbers are given in ascending order.
NumbersRise(w) ==
    /\ w.doc.next \in Nat /\ w.issued \in Seq(Nat)
    /\ \A m \in 1 .. Len(w.issued) : w.issued[m] < w.doc.next
    /\ \A m, n \in 1 .. Len(w.issued) : m < n => w.issued[m] < w.issued[n]

\* Every identity that is in use was handed out, and every stream number.
Issued(w) ==
    /\ w.fresh \in Nat \ {0} /\ DOMAIN w.doc.objects \subseteq 1 .. w.fresh - 1
    /\ DOMAIN w.doc.nodes \cup DOMAIN w.doc.streams \subseteq 1 .. w.fresh - 1
    /\ DOMAIN w.doc.shown \subseteq 1 .. w.fresh - 1
    /\ NumbersRise(w)

\* Units have inputs that the adapter takes.
InputsFit(d) ==
    \A i \in DOMAIN d.nodes : \A name \in DOMAIN d.nodes[i].inputs : Accepts(d.nodes[i].model, name)

\* A stream has its ends at ports of units, which no other stream has.
StreamsFit(d) ==
    \A s \in DOMAIN d.streams :
        LET stream == d.streams[s] IN
        /\ {stream.source, stream.target} \subseteq DOMAIN d.nodes
        /\ Or0(stream.out) \in 0 .. OutPorts[d.nodes[stream.source].model] - 1
        /\ Or0(stream.in) \in 0 .. InPorts[d.nodes[stream.target].model] - 1
PortsFree(d) ==
    \A s, t \in DOMAIN d.streams : s # t =>
        /\ <<d.streams[s].source, Or0(d.streams[s].out)>> # <<d.streams[t].source, Or0(d.streams[t].out)>>
        /\ <<d.streams[s].target, Or0(d.streams[s].in)>> # <<d.streams[t].target, Or0(d.streams[t].in)>>

\* What is shown of an object is of its kind.
ShownFits(d) ==
    \A i \in DOMAIN d.shown : /\ i \in DOMAIN d.nodes => d.shown[i].kind = "equipment"
                              /\ i \in DOMAIN d.streams => d.shown[i].kind = "connection"

\* The documents that are opened convert; if so, everything fits in what is made of them.
Fitting == \A d \in StartDocuments : Convertible(d)
Wired(d) == InputsFit(d) /\ StreamsFit(d) /\ PortsFree(d)
Wiring(d) == PortsNamed(d) /\ (Fitting => Wired(d))
Labelling(d) == Fitting => ShownFits(d)

\* A document under work, between the edits of a composition too.
WorkInv(w) == Works(w) /\ Sound(w.doc) /\ Issued(w) /\ Wiring(w.doc) /\ Labelling(w.doc)

\* What an edit keeps, of a document under work and of one that can be opened.
Keeps(w, e) ==
    /\ WorkInv(e) /\ e.fresh >= w.fresh
    /\ e.code = "OK" => w.code = "OK" /\ Full(e.doc)
    /\ Full(w.doc) => Full(e.doc)

\* What an edit changes, before it is mirrored for the browser and checked.
Inner(w, r) ==
    /\ Maps(r.doc.nodes) /\ Maps(r.doc.streams) /\ Maps(r.doc.objects)
    /\ Maps(r.doc.groups) /\ Maps(r.doc.subsystems)
    /\ UnitsFit(r.doc) /\ Wiring(r.doc)
    /\ IsSettings(r.doc.settings)
    /\ DOMAIN r.doc.nodes \subseteq DOMAIN w.doc.nodes \cup {w.fresh}
    /\ DOMAIN r.doc.streams \subseteq DOMAIN w.doc.streams \cup {w.fresh}
    /\ DOMAIN r.doc.nodes \cap DOMAIN r.doc.streams = {}
    /\ DOMAIN r.doc.objects \subseteq 1 .. r.fresh - 1
    /\ DOMAIN r.doc.nodes \cup DOMAIN r.doc.streams \subseteq 1 .. r.fresh - 1
    /\ r.fresh \in {w.fresh, w.fresh + 1}
    /\ NumbersRise(r)

\* The wiring is of units and streams alone.
LEMMA WiringSame ==
    ASSUME NEW d, NEW e, Wiring(d), e.nodes = d.nodes, e.streams = d.streams
    PROVE  Wiring(e)
<1>1. PortsNamed(e)
  BY DEF Wiring, PortsNamed
<1>2. ASSUME Fitting PROVE Wired(e)
  <2>1. InputsFit(d) /\ StreamsFit(d) /\ PortsFree(d)
    BY <1>2 DEF Wiring, Wired
  <2>2. InputsFit(e) /\ PortsFree(e)
    BY <2>1 DEF InputsFit, PortsFree
  <2>3. StreamsFit(e)
    BY <2>1, Zenon DEF StreamsFit
  <2> QED
    BY <2>2, <2>3 DEF Wired
<1> QED
  BY <1>1, <1>2 DEF Wiring

\* Recovering the presentation (recover_presentation) changes only groups and the active one.
LEMMA Recovered ==
    ASSUME NEW d, Fields(d)
    PROVE  LET e == RecoverPresentation(d) IN
           /\ Fields(e) /\ e.nodes = d.nodes /\ e.streams = d.streams /\ e.objects = d.objects
           /\ e.shown = d.shown /\ e.subsystems = d.subsystems /\ e.colour = d.colour
           /\ e.settings = d.settings /\ e.next = d.next
           /\ DOMAIN e.groups = DOMAIN d.groups /\ Maps(e.groups)
<1> DEFINE e == RecoverPresentation(d)
           g == [h \in DOMAIN d.groups |-> d.groups[h] \cap DOMAIN d.streams]
           a == IF d.active \in DOMAIN d.groups THEN d.active ELSE Nobody
<1>1. e = [d EXCEPT !.groups = g, !.active = a]
  BY DEF RecoverPresentation
<1>2. DOMAIN g = DOMAIN d.groups /\ Maps(g)
  BY DEF Maps
<1> HIDE DEF g, a, e
<1>3. Fields(e) /\ e.groups = g
  BY <1>1 DEF Fields
<1>4. /\ e.nodes = d.nodes /\ e.streams = d.streams /\ e.objects = d.objects
      /\ e.shown = d.shown /\ e.subsystems = d.subsystems /\ e.colour = d.colour
      /\ e.settings = d.settings /\ e.next = d.next
  BY <1>1 DEF Fields
<1> QED
  BY <1>2, <1>3, <1>4 DEF e

\* An edit refuses and leaves the document, or is what was changed, mirrored and checked.
LEMMA Frame ==
    ASSUME NEW w, NEW r, Works(w), Fields(w.doc), Works(r), Fields(r.doc)
    PROVE  LET e == Settled(w, r) IN
           /\ Works(e) /\ Fields(e.doc)
           /\ \/ e.code # "OK" /\ e.doc = w.doc /\ e.fresh = w.fresh /\ e.issued = w.issued
              \/ /\ e.code = "OK" /\ w.code = "OK" /\ r.code = "OK" /\ Check(e.doc) = "OK"
                 /\ e.fresh = r.fresh /\ e.issued = r.issued
                 /\ e.doc = [r.doc EXCEPT !.shown = Presentation(RecoverPresentation(w.doc), r.doc)]
<1> DEFINE d == RecoverPresentation(w.doc)
           s == [r EXCEPT !.doc.shown = Presentation(d, r.doc)]
           e == Settled(w, r)
<1>1. /\ Works(s) /\ Fields(s.doc) /\ s.code = r.code /\ s.fresh = r.fresh /\ s.issued = r.issued
      /\ s.doc = [r.doc EXCEPT !.shown = Presentation(d, r.doc)]
  BY DEF Works, Fields
<1>2. \A c : /\ Works(Refuse(w, c)) /\ Refuse(w, c).code = c /\ Refuse(w, c).doc = w.doc
             /\ Refuse(w, c).fresh = w.fresh /\ Refuse(w, c).issued = w.issued
  BY DEF Works, Refuse
<1>3. \/ w.code # "OK" /\ e = w
      \/ \E c : c # "OK" /\ e = Refuse(w, c)
      \/ w.code = "OK" /\ r.code = "OK" /\ Check(s.doc) = "OK" /\ e = s
  <2> HIDE DEF s
  <2> DEFINE c1 == Check(d)
             c2 == Check(s.doc)
  <2>1. e = CASE w.code # "OK" -> w
              [] c1 # "OK" -> Refuse(w, c1)
              [] r.code # "OK" -> Refuse(w, r.code)
              [] c2 # "OK" -> Refuse(w, c2)
              [] OTHER -> s
    BY DEF Settled, s
  <2> HIDE DEF c1, c2, e
  <2>2. CASE w.code # "OK"
    BY <2>1, <2>2
  <2>3. CASE w.code = "OK" /\ c1 # "OK"
    BY <2>1, <2>3
  <2>4. CASE w.code = "OK" /\ c1 = "OK" /\ r.code # "OK"
    BY <2>1, <2>4
  <2>5. CASE w.code = "OK" /\ c1 = "OK" /\ r.code = "OK" /\ c2 # "OK"
    BY <2>1, <2>5
  <2>6. CASE w.code = "OK" /\ c1 = "OK" /\ r.code = "OK" /\ c2 = "OK"
    BY <2>1, <2>6 DEF c2
  <2> QED
    BY <2>2, <2>3, <2>4, <2>5, <2>6
<1> HIDE DEF s, e, d
<1> QED
  BY <1>1, <1>2, <1>3 DEF d, e

\* What the check (check) says of identities.
LEMMA Checked ==
    ASSUME NEW d, Check(d) = "OK"
    PROVE  /\ DOMAIN d.nodes \cap DOMAIN d.streams = {}
           /\ DOMAIN d.objects = DOMAIN d.nodes \cup DOMAIN d.streams
<1> DEFINE ids == DOMAIN d.nodes \cup DOMAIN d.streams
<1>1. CASE DOMAIN d.nodes \cap DOMAIN d.streams # {}
  BY <1>1 DEF Check
<1>2. CASE DOMAIN d.nodes \cap DOMAIN d.streams = {} /\ DOMAIN d.objects # ids
  BY <1>2 DEF Check
<1> QED
  BY <1>1, <1>2

\* An edit keeps what its change keeps.
LEMMA EditKeeps ==
    ASSUME NEW w, NEW r, WorkInv(w), Works(r), Fields(r.doc), r.code = "OK" => Inner(w, r)
    PROVE  Keeps(w, Settled(w, r))
<1> DEFINE e == Settled(w, r)
           d == RecoverPresentation(w.doc)
<1>1. /\ Works(e) /\ Fields(e.doc)
      /\ \/ e.code # "OK" /\ e.doc = w.doc /\ e.fresh = w.fresh /\ e.issued = w.issued
         \/ /\ e.code = "OK" /\ w.code = "OK" /\ r.code = "OK" /\ Check(e.doc) = "OK"
            /\ e.fresh = r.fresh /\ e.issued = r.issued
            /\ e.doc = [r.doc EXCEPT !.shown = Presentation(d, r.doc)]
  BY Frame DEF WorkInv, Sound
<1> HIDE DEF e
<1>2. CASE e.code # "OK"
  <2>1. e.doc = w.doc /\ e.fresh = w.fresh /\ e.issued = w.issued
    BY <1>1, <1>2
  <2>2. WorkInv(e)
    BY <1>1, <2>1 DEF WorkInv, Issued, NumbersRise
  <2>3. e.fresh >= w.fresh
    BY <2>1 DEF WorkInv, Issued
  <2> QED
    BY <1>2, <2>1, <2>2, <2>3 DEF Keeps, e
<1>3. CASE e.code = "OK"
  <2>1. Inner(w, r) /\ w.code = "OK" /\ Check(e.doc) = "OK" /\ e.fresh = r.fresh /\ e.issued = r.issued
    BY <1>1, <1>3
  <2>2. /\ e.doc.nodes = r.doc.nodes /\ e.doc.streams = r.doc.streams /\ e.doc.objects = r.doc.objects
        /\ e.doc.groups = r.doc.groups /\ e.doc.subsystems = r.doc.subsystems /\ e.doc.next = r.doc.next
        /\ e.doc.settings = r.doc.settings
    BY <1>1, <1>3 DEF Fields
  <2>3. e.doc.shown = Presentation(d, r.doc)
    BY <1>1, <1>3 DEF Fields
  <2>4. d.nodes = w.doc.nodes /\ d.streams = w.doc.streams /\ d.shown = w.doc.shown
    BY Recovered DEF WorkInv, Sound
  <2> HIDE DEF d
  <2>5. DOMAIN e.doc.shown = DOMAIN e.doc.objects
    BY <2>2, <2>3 DEF Presentation
  <2>6. ASSUME NEW i \in DOMAIN e.doc.shown
        PROVE  e.doc.shown[i].kind = IF i \in DOMAIN w.doc.shown THEN w.doc.shown[i].kind
                                     ELSE IF i \in DOMAIN e.doc.nodes THEN "equipment" ELSE "connection"
    BY <2>2, <2>3, <2>4, <2>5 DEF Presentation
  <2>7. ASSUME Fitting PROVE ShownFits(e.doc)
    <3>1. w.fresh \notin DOMAIN w.doc.shown
      BY DEF WorkInv, Issued
    <3>2. /\ DOMAIN e.doc.nodes \subseteq DOMAIN w.doc.nodes \cup {w.fresh}
          /\ DOMAIN e.doc.streams \subseteq DOMAIN w.doc.streams \cup {w.fresh}
          /\ DOMAIN e.doc.nodes \cap DOMAIN e.doc.streams = {}
      BY <2>1, <2>2 DEF Inner
    <3>3. ShownFits(w.doc)
      BY <2>7 DEF WorkInv, Labelling
    <3>4. ASSUME NEW i \in DOMAIN e.doc.shown
          PROVE  /\ i \in DOMAIN e.doc.nodes => e.doc.shown[i].kind = "equipment"
                 /\ i \in DOMAIN e.doc.streams => e.doc.shown[i].kind = "connection"
      <4>1. CASE i \in DOMAIN w.doc.shown
        BY <2>6, <3>1, <3>2, <3>3, <4>1 DEF ShownFits
      <4>2. CASE i \notin DOMAIN w.doc.shown
        BY <2>6, <3>2, <4>2
      <4> QED
        BY <4>1, <4>2
    <3> QED
      BY <3>4 DEF ShownFits
  <2>8. Sound(e.doc)
    <3>1. UnitsFit(e.doc)
      BY <2>1, <2>2 DEF Inner, UnitsFit
    <3>2. PortsNamed(e.doc)
      BY <2>1, <2>2 DEF Inner, Wiring, PortsNamed
    <3> QED
      BY <1>1, <2>1, <2>2, <3>1, <3>2 DEF Sound, Inner, NumbersRise
  <2>9. Issued(e) /\ e.fresh >= w.fresh
    <3>1. NumbersRise(e)
      BY <2>1, <2>2 DEF Inner, NumbersRise
    <3>2. e.fresh >= w.fresh
      BY <2>1 DEF Inner, WorkInv, Issued
    <3> QED
      BY <2>1, <2>2, <2>5, <3>1, <3>2 DEF Issued, Inner, WorkInv
  <2>10. Full(e.doc)
    BY <2>1, <2>5 DEF Full
  <2>11. Wiring(e.doc) /\ Labelling(e.doc)
    <3>1. Wiring(r.doc)
      BY <2>1 DEF Inner
    <3> QED
      BY <2>2, <2>7, <3>1, WiringSame DEF Labelling
  <2> QED
    BY <1>1, <2>1, <2>8, <2>9, <2>10, <2>11, Zenon DEF Keeps, WorkInv, e
<1> QED
  BY <1>2, <1>3

-------------------------------------------------------------------------------
(* Numbers *)

\* A set of numbers that is not empty has a smallest.
LEMMA SmallestNumber ==
    ASSUME NEW S \in SUBSET Nat, S # {}
    PROVE  Min(S) \in S /\ \A n \in S : Min(S) <= n
<1>1. PICK m \in S : \A n \in S : ~(<<n, m>> \in OpToRel(<, Nat))
  BY NatLessThanWellFounded, WFMin
<1>2. \A n \in S : ~(n < m)
  BY <1>1 DEF OpToRel
<1>3. \A n \in S : m <= n
  BY <1>2
<1> QED
  BY <1>3 DEF Min

\* Max of a set that has a largest member is that member.
LEMMA MaxIsOne ==
    ASSUME NEW S, \E m \in S : \A n \in S : m >= n
    PROVE  Max(S) \in S /\ \A n \in S : Max(S) >= n
BY Zenon DEF Max

\* The number a new stream gets (_next_tag) is none that was handed out before.
LEMMA NextNumberIs ==
    ASSUME NEW d, IsFiniteSet(DOMAIN d.objects), d.next \in Nat, d.settings.start \in Nat
    PROVE  NextNumber(d) \in Nat /\ NextNumber(d) >= d.next
<1> DEFINE ids == DOMAIN d.objects
           first == Max({d.next, d.settings.start})
           all == first .. first + Cardinality(ids)
           free == {n \in all : Tag("S", n) \notin UsedTags(d)}
<1>1. first \in Nat /\ first >= d.next
  <2> DEFINE two == {d.next, d.settings.start}
  <2>1. \E m \in two : \A n \in two : m >= n
    <3>1. CASE d.next >= d.settings.start
      BY <3>1
    <3>2. CASE ~ (d.next >= d.settings.start)
      BY <3>2
    <3> QED
      BY <3>1, <3>2
  <2>2. Max(two) \in two /\ \A n \in two : Max(two) >= n
    <3> HIDE DEF two
    <3> QED
      BY <2>1, MaxIsOne
  <2> DEFINE most == Max(two)
  <2>3. most \in {d.next, d.settings.start} /\ most >= d.next
    BY <2>2
  <2> HIDE DEF most
  <2>4. most \in Nat /\ most >= d.next
    BY <2>3
  <2> QED
    BY <2>4 DEF most
<1>2. Cardinality(ids) \in Nat
  BY FS_CardinalityType
<1> HIDE DEF first
<1>3. IsFiniteSet(all) /\ Cardinality(all) = Cardinality(ids) + 1
  <2> DEFINE top == first + Cardinality(ids)
  <2>1. first \in Int /\ top \in Int /\ ~ (first > top) /\ top - first + 1 = Cardinality(ids) + 1
    BY <1>1, <1>2
  <2> HIDE DEF top
  <2>2. IsFiniteSet(first .. top) /\ Cardinality(first .. top) = top - first + 1
    BY <2>1, FS_Interval
  <2> QED
    BY <2>1, <2>2 DEF top
<1>4. free # {}
  <2>1. SUFFICES ASSUME \A n \in all : Tag("S", n) \in UsedTags(d) PROVE FALSE
    OBVIOUS
  <2> DEFINE f == [n \in all |-> CHOOSE i \in ids : d.objects[i].tag = Tag("S", n)]
  <2>2. \A n \in all : f[n] \in ids /\ d.objects[f[n]].tag = Tag("S", n)
    BY <2>1 DEF UsedTags
  <2>3. f \in [all -> ids]
    BY <2>2
  <2> HIDE DEF f, all
  <2>4. PICK m, n \in all : m # n /\ f[m] = f[n]
    BY <1>2, <1>3, <2>3, FS_PigeonHole
  <2>5. Tag("S", m) = Tag("S", n)
    BY <2>2, <2>4
  <2> QED
    BY <2>4, <2>5 DEF Tag
<1>5. free \in SUBSET Nat /\ \A n \in free : n >= d.next
  BY <1>1, <1>2
<1>6. NextNumber(d) = Min(free)
  BY DEF NextNumber, first
<1> HIDE DEF free
<1> QED
  BY <1>4, <1>5, <1>6, SmallestNumber

\* Taking a larger number keeps the numbers rising.
LEMMA TakesNumber ==
    ASSUME NEW w, NEW n \in Nat, Works(w), Fields(w.doc), NumbersRise(w), n >= w.doc.next
    PROVE  LET r == TakeNumber(w, n) IN
           /\ Works(r) /\ Fields(r.doc) /\ r.fresh = w.fresh /\ r.code = w.code
           /\ r.issued = Append(w.issued, n)
           /\ r.doc = [w.doc EXCEPT !.next = n + 1] /\ r.doc.next = n + 1
           /\ \A q : q.issued = r.issued /\ q.doc.next = r.doc.next => NumbersRise(q)
<1> DEFINE r == TakeNumber(w, n)
<1>1. r = [w EXCEPT !.issued = Append(w.issued, n), !.doc = [w.doc EXCEPT !.next = n + 1]]
  BY DEF TakeNumber, Works
<1> HIDE DEF r
<1>2. /\ Works(r) /\ r.fresh = w.fresh /\ r.code = w.code /\ r.issued = Append(w.issued, n)
      /\ r.doc = [w.doc EXCEPT !.next = n + 1]
  BY <1>1 DEF Works
<1>3. Fields(r.doc) /\ r.doc.next = n + 1
  BY <1>2 DEF Fields
<1>4. ASSUME NEW q, q.issued = r.issued, q.doc.next = r.doc.next PROVE NumbersRise(q)
  <2>1. /\ w.issued \in Seq(Nat) /\ w.doc.next \in Nat
        /\ q.issued = Append(w.issued, n) /\ q.doc.next = n + 1
    BY <1>2, <1>3, <1>4 DEF NumbersRise
  <2>2. /\ q.issued \in Seq(Nat) /\ Len(q.issued) = Len(w.issued) + 1
        /\ q.issued[Len(w.issued) + 1] = n /\ Len(w.issued) \in Nat
        /\ \A m \in 1 .. Len(w.issued) : q.issued[m] = w.issued[m] /\ w.issued[m] \in Nat
    BY <2>1, SMTT(30)
  <2>3. \A m \in 1 .. Len(w.issued) : w.issued[m] < n
    BY <2>1, <2>2 DEF NumbersRise
  <2>4. \A m \in 1 .. Len(q.issued) : m \in 1 .. Len(w.issued) \/ m = Len(w.issued) + 1
    BY <2>2
  <2>5. \A m \in 1 .. Len(q.issued) : q.issued[m] < n + 1
    BY <2>2, <2>3, <2>4, SMTT(30)
  <2>6. ASSUME NEW k \in 1 .. Len(q.issued), NEW m \in 1 .. Len(q.issued), k < m
        PROVE  q.issued[k] < q.issued[m]
    <3>1. k \in 1 .. Len(w.issued)
      BY <2>2, <2>6
    <3>2. CASE m \in 1 .. Len(w.issued)
      BY <2>2, <2>6, <3>1, <3>2 DEF NumbersRise
    <3>3. CASE m = Len(w.issued) + 1
      BY <2>2, <2>3, <3>1, <3>3
    <3> QED
      BY <2>4, <3>2, <3>3
  <2> QED
    BY <2>1, <2>2, <2>5, <2>6, SMTT(30) DEF NumbersRise
<1> QED
  BY <1>2, <1>3, <1>4 DEF r

\* A document has finitely many objects.
LEMMA IdsFinite ==
    ASSUME NEW w, WorkInv(w)
    PROVE  IsFiniteSet(DOMAIN w.doc.objects) /\ IsFiniteSet(DOMAIN w.doc.streams) /\ IsFiniteSet(DOMAIN w.doc.nodes)
<1>1. IsFiniteSet(1 .. w.fresh - 1)
  <2>1. 1 \in Int /\ w.fresh - 1 \in Int
    BY DEF WorkInv, Issued
  <2> QED
    BY <2>1, FS_Interval
<1> QED
  BY <1>1, FS_Subset DEF WorkInv, Issued

-------------------------------------------------------------------------------
(* Edits that leave units and streams as they are *)

\* An edit that changes neither units nor streams, nor which objects there are.
LEMMA QuietInner ==
    ASSUME NEW w, NEW r, WorkInv(w), r.doc.nodes = w.doc.nodes, r.doc.streams = w.doc.streams,
           Maps(r.doc.objects), Maps(r.doc.groups), Maps(r.doc.subsystems),
           DOMAIN r.doc.objects = DOMAIN w.doc.objects, r.fresh = w.fresh,
           IsSettings(r.doc.settings), NumbersRise(r)
    PROVE  Inner(w, r)
<1>1. UnitsFit(r.doc)
  BY DEF WorkInv, Sound, UnitsFit
<1>2. Wiring(r.doc)
  BY WiringSame DEF WorkInv
<1> QED
  BY <1>1, <1>2 DEF Inner, WorkInv, Sound, Issued

\* A work with its presentation recovered.
Recovery(w, x) ==
    /\ Works(x) /\ Fields(x.doc) /\ x.fresh = w.fresh /\ x.issued = w.issued /\ x.code = w.code
    /\ x.doc.nodes = w.doc.nodes /\ x.doc.streams = w.doc.streams /\ x.doc.objects = w.doc.objects
    /\ x.doc.shown = w.doc.shown /\ x.doc.subsystems = w.doc.subsystems /\ x.doc.settings = w.doc.settings
    /\ x.doc.next = w.doc.next /\ Maps(x.doc.groups) /\ Maps(x.doc.subsystems)

\* What an edit starts from.
LEMMA RecoveredWork ==
    ASSUME NEW w, WorkInv(w)
    PROVE  Recovery(w, [w EXCEPT !.doc = RecoverPresentation(@)])
<1> DEFINE x == [w EXCEPT !.doc = RecoverPresentation(w.doc)]
<1>1. Works(x) /\ x.doc = RecoverPresentation(w.doc) /\ x.fresh = w.fresh /\ x.issued = w.issued /\ x.code = w.code
  BY DEF WorkInv, Works
<1>2. Fields(w.doc) /\ Maps(w.doc.subsystems)
  BY DEF WorkInv, Sound
<1> HIDE DEF x
<1>3. Recovery(w, x)
  BY <1>1, <1>2, Recovered, SMTT(30) DEF Recovery
<1> QED
  BY <1>3 DEF x

\* A refusal keeps the document.
LEMMA Refusing ==
    ASSUME NEW x, NEW c, Works(x), Fields(x.doc)
    PROVE  /\ Works(Refuse(x, c)) /\ Fields(Refuse(x, c).doc) /\ Refuse(x, c).code = c
           /\ Refuse(x, c).fresh = x.fresh
BY DEF Works, Refuse

\* Such an edit keeps what the document under work was.
LEMMA QuietKeeps ==
    ASSUME NEW w, NEW x, NEW r, WorkInv(w), Recovery(w, x), Works(r), Fields(r.doc),
           r.code = "OK" =>
             /\ r.doc.nodes = x.doc.nodes /\ r.doc.streams = x.doc.streams
             /\ Maps(r.doc.objects) /\ DOMAIN r.doc.objects = DOMAIN x.doc.objects
             /\ Maps(r.doc.groups) /\ Maps(r.doc.subsystems)
             /\ r.fresh = x.fresh /\ IsSettings(r.doc.settings)
             /\ (r.doc.next = x.doc.next /\ r.issued = x.issued) \/ NumbersRise(r)
    PROVE  Keeps(w, Settled(w, r))
<1>1. ASSUME r.code = "OK" PROVE Inner(w, r)
  <2>1. NumbersRise(r)
    BY <1>1 DEF NumbersRise, WorkInv, Issued, Recovery
  <2> QED
    BY <1>1, <2>1, QuietInner DEF Recovery
<1> QED
  BY <1>1, EditKeeps

\* What stays in a work that is recovered.
LEMMA RecoveredHas ==
    ASSUME NEW w, NEW x, WorkInv(w), Recovery(w, x)
    PROVE  /\ Maps(x.doc.nodes) /\ Maps(x.doc.streams) /\ Maps(x.doc.objects)
           /\ Maps(x.doc.groups) /\ Maps(x.doc.subsystems) /\ IsSettings(x.doc.settings)
           /\ Works(x) /\ Fields(x.doc) /\ NumbersRise(x)
BY DEF WorkInv, Sound, Recovery, Issued, NumbersRise

\* Moving, routing, expanding and pinning.
LEMMA SetLayoutKeeps ==
    ASSUME NEW w, NEW ids, NEW layout, WorkInv(w)
    PROVE  Keeps(w, SetLayout(w, ids, layout))
<1> DEFINE x == [w EXCEPT !.doc = RecoverPresentation(@)]
           o == [i \in DOMAIN x.doc.objects |->
                    IF i \in ids THEN [x.doc.objects[i] EXCEPT !.layout = layout] ELSE x.doc.objects[i]]
           y == [x EXCEPT !.doc.objects = o]
           r == IF ~ (ids \subseteq DOMAIN x.doc.objects) THEN Refuse(x, "NOT_FOUND") ELSE y
<1>1. SetLayout(w, ids, layout) = Settled(w, r)
  BY DEF SetLayout, Edit
<1>2. Recovery(w, x)
  BY RecoveredWork
<1>3. Maps(o) /\ DOMAIN o = DOMAIN x.doc.objects
  BY DEF Maps
<1> HIDE DEF x, o
<1>4. /\ Works(y) /\ Fields(y.doc) /\ y.doc.objects = o /\ y.doc.nodes = x.doc.nodes
      /\ y.doc.streams = x.doc.streams /\ y.doc.groups = x.doc.groups /\ y.doc.subsystems = x.doc.subsystems
      /\ y.doc.settings = x.doc.settings /\ y.doc.next = x.doc.next
      /\ y.fresh = x.fresh /\ y.issued = x.issued
  BY <1>2 DEF Recovery, Works, Fields
<1> HIDE DEF y
<1>5. Works(r) /\ Fields(r.doc) /\ (r.code = "OK" => r = y)
  BY <1>2, <1>4, Refusing DEF Recovery
<1> HIDE DEF r
<1> QED
  BY <1>1, <1>2, <1>3, <1>4, <1>5, RecoveredHas, QuietKeeps

\* Showing an input in another unit.
LEMMA DisplayUnitKeeps ==
    ASSUME NEW w, NEW id, NEW name, NEW unit, WorkInv(w)
    PROVE  Keeps(w, DisplayUnit(w, id, name, unit))
<1> DEFINE x == [w EXCEPT !.doc = RecoverPresentation(@)]
           o == [x.doc.objects EXCEPT ![id].notation =
                    With(@, name, [text |-> x.doc.nodes[id].inputs[name], display |-> unit])]
           y == [x EXCEPT !.doc.objects = o]
           r == IF id \notin DOMAIN x.doc.nodes \/ name \notin DOMAIN x.doc.nodes[id].inputs
                THEN Refuse(x, "NOT_FOUND") ELSE y
<1>1. DisplayUnit(w, id, name, unit) = Settled(w, r)
  BY DEF DisplayUnit, Edit
<1>2. Recovery(w, x)
  BY RecoveredWork
<1>3. Maps(o) /\ DOMAIN o = DOMAIN x.doc.objects
  BY DEF Maps
<1> HIDE DEF x, o
<1>4. /\ Works(y) /\ Fields(y.doc) /\ y.doc.objects = o /\ y.doc.nodes = x.doc.nodes
      /\ y.doc.streams = x.doc.streams /\ y.doc.groups = x.doc.groups /\ y.doc.subsystems = x.doc.subsystems
      /\ y.doc.settings = x.doc.settings /\ y.doc.next = x.doc.next
      /\ y.fresh = x.fresh /\ y.issued = x.issued
  BY <1>2 DEF Recovery, Works, Fields
<1> HIDE DEF y
<1>5. Works(r) /\ Fields(r.doc) /\ (r.code = "OK" => r = y)
  BY <1>2, <1>4, Refusing DEF Recovery
<1> HIDE DEF r
<1> QED
  BY <1>1, <1>2, <1>3, <1>4, <1>5, RecoveredHas, QuietKeeps

\* Changing the settings.
LEMMA SettingsKeeps ==
    ASSUME NEW w, NEW settings, WorkInv(w), IsSettings(settings)
    PROVE  Keeps(w, Settings(w, settings))
<1> DEFINE x == [w EXCEPT !.doc = RecoverPresentation(@)]
           y == [x EXCEPT !.doc.settings = settings, !.doc.colour = settings.colour]
<1>1. Settings(w, settings) = Settled(w, y)
  BY DEF Settings, Edit
<1>2. Recovery(w, x)
  BY RecoveredWork
<1> DEFINE d == [x.doc EXCEPT !.settings = settings, !.colour = settings.colour]
<1> HIDE DEF x
<1>3. y = [x EXCEPT !.doc = d]
  BY <1>2 DEF Recovery, Works
<1> HIDE DEF y
<1>0. d = [x.doc EXCEPT !.settings = settings, !.colour = settings.colour]
  OBVIOUS
<1> HIDE DEF d
<1>4. Works(y) /\ y.doc = d /\ y.fresh = x.fresh /\ y.issued = x.issued
  BY <1>2, <1>3 DEF Recovery, Works
<1>5. /\ Fields(d) /\ d.objects = x.doc.objects /\ d.nodes = x.doc.nodes
      /\ d.streams = x.doc.streams /\ d.groups = x.doc.groups /\ d.subsystems = x.doc.subsystems
      /\ d.settings = settings /\ d.next = x.doc.next
  BY <1>0, <1>2 DEF Recovery, Fields
<1> QED
  BY <1>1, <1>2, <1>4, <1>5, RecoveredHas, QuietKeeps

\* Changing the active group or the colour.
LEMMA LayerPreferencesKeeps ==
    ASSUME NEW w, NEW active, NEW colour, WorkInv(w)
    PROVE  Keeps(w, LayerPreferences(w, active, colour))
<1> DEFINE x == [w EXCEPT !.doc = RecoverPresentation(@)]
           s == [x.doc.settings EXCEPT !.colour = colour]
           y == [x EXCEPT !.doc.active = active, !.doc.colour = colour, !.doc.settings.colour = colour]
<1>1. LayerPreferences(w, active, colour) = Settled(w, y)
  BY DEF LayerPreferences, Edit
<1>2. Recovery(w, x)
  BY RecoveredWork
<1> HIDE DEF x
<1>3. IsSettings(s)
  <2>1. IsSettings(x.doc.settings)
    BY <1>2, RecoveredHas
  <2> QED
    BY <2>1 DEF IsSettings
<1> DEFINE d == [x.doc EXCEPT !.active = active, !.colour = colour, !.settings = s]
<1>4. y = [x EXCEPT !.doc = d]
  BY <1>2 DEF Recovery, Works, Fields
<1>0. d = [x.doc EXCEPT !.active = active, !.colour = colour, !.settings = s]
  OBVIOUS
<1> HIDE DEF y, d
<1>5. Works(y) /\ y.doc = d /\ y.fresh = x.fresh /\ y.issued = x.issued
  BY <1>2, <1>4 DEF Recovery, Works
<1> HIDE DEF s
<1>6. /\ Fields(d) /\ d.objects = x.doc.objects /\ d.nodes = x.doc.nodes
      /\ d.streams = x.doc.streams /\ d.groups = x.doc.groups /\ d.subsystems = x.doc.subsystems
      /\ d.settings = s /\ d.next = x.doc.next
  BY <1>0, <1>2 DEF Recovery, Fields
<1> QED
  BY <1>1, <1>2, <1>3, <1>5, <1>6, RecoveredHas, QuietKeeps

\* Making or changing a group.
LEMMA UpsertGroupKeeps ==
    ASSUME NEW w, NEW group, NEW members, WorkInv(w)
    PROVE  Keeps(w, UpsertGroup(w, group, members))
<1> DEFINE x == [w EXCEPT !.doc = RecoverPresentation(@)]
           new == With(x.doc.groups, group, members)
           y == [x EXCEPT !.doc.groups = With(@, group, members)]
<1>1. UpsertGroup(w, group, members) = Settled(w, y)
  BY DEF UpsertGroup, Edit
<1>2. Recovery(w, x)
  BY RecoveredWork
<1>3. Maps(new)
  BY DEF Maps, With, Without
<1> DEFINE d == [x.doc EXCEPT !.groups = new]
<1> HIDE DEF x, new
<1>4. y = [x EXCEPT !.doc = d]
  BY <1>2 DEF Recovery, Works, Fields, new
<1>5. d = [x.doc EXCEPT !.groups = new]
  OBVIOUS
<1> HIDE DEF y, d
<1>6. Works(y) /\ y.doc = d /\ y.fresh = x.fresh /\ y.issued = x.issued
  BY <1>2, <1>4 DEF Recovery, Works
<1>7. /\ Fields(d) /\ d.objects = x.doc.objects /\ d.nodes = x.doc.nodes /\ d.streams = x.doc.streams
      /\ d.groups = new /\ d.subsystems = x.doc.subsystems
      /\ d.settings = x.doc.settings /\ d.next = x.doc.next
  BY <1>2, <1>5 DEF Recovery, Fields
<1> QED
  BY <1>1, <1>2, <1>3, <1>6, <1>7, RecoveredHas, QuietKeeps

\* Removing a group.
LEMMA RemoveGroupKeeps ==
    ASSUME NEW w, NEW group, WorkInv(w)
    PROVE  Keeps(w, RemoveGroup(w, group))
<1> DEFINE x == [w EXCEPT !.doc = RecoverPresentation(@)]
           new == Without(x.doc.groups, {group})
           y == [x EXCEPT !.doc.groups = Without(@, {group}), !.doc.active = IF @ = group THEN Nobody ELSE @]
           r == IF group \notin DOMAIN x.doc.groups THEN Refuse(x, "NOT_FOUND") ELSE y
<1>1. RemoveGroup(w, group) = Settled(w, r)
  BY DEF RemoveGroup, Edit
<1>2. Recovery(w, x)
  BY RecoveredWork
<1>3. Maps(new)
  BY DEF Maps, With, Without
<1> DEFINE d == [x.doc EXCEPT !.groups = new, !.active = IF @ = group THEN Nobody ELSE @]
<1> HIDE DEF x, new
<1>4. y = [x EXCEPT !.doc = d]
  BY <1>2 DEF Recovery, Works, Fields, new
<1>5. d = [x.doc EXCEPT !.groups = new, !.active = IF @ = group THEN Nobody ELSE @]
  OBVIOUS
<1> HIDE DEF y, d
<1>6. Works(y) /\ y.doc = d /\ y.fresh = x.fresh /\ y.issued = x.issued
  BY <1>2, <1>4 DEF Recovery, Works
<1>7. /\ Fields(d) /\ d.objects = x.doc.objects /\ d.nodes = x.doc.nodes /\ d.streams = x.doc.streams
      /\ d.groups = new /\ d.subsystems = x.doc.subsystems
      /\ d.settings = x.doc.settings /\ d.next = x.doc.next
  BY <1>2, <1>5 DEF Recovery, Fields
<1>8. Works(r) /\ Fields(r.doc) /\ (r.code = "OK" => r = y)
  BY <1>2, <1>6, <1>7, Refusing DEF Recovery
<1> HIDE DEF r
<1> QED
  BY <1>1, <1>2, <1>3, <1>6, <1>7, <1>8, RecoveredHas, QuietKeeps

\* Making or changing a subsystem.
LEMMA UpsertSubsystemKeeps ==
    ASSUME NEW w, NEW subsystem, NEW members, WorkInv(w)
    PROVE  Keeps(w, UpsertSubsystem(w, subsystem, members))
<1> DEFINE x == [w EXCEPT !.doc = RecoverPresentation(@)]
           new == With(x.doc.subsystems, subsystem, members)
           y == [x EXCEPT !.doc.subsystems = With(@, subsystem, members)]
<1>1. UpsertSubsystem(w, subsystem, members) = Settled(w, y)
  BY DEF UpsertSubsystem, Edit
<1>2. Recovery(w, x)
  BY RecoveredWork
<1>3. Maps(new)
  BY DEF Maps, With, Without
<1> DEFINE d == [x.doc EXCEPT !.subsystems = new]
<1> HIDE DEF x, new
<1>4. y = [x EXCEPT !.doc = d]
  BY <1>2 DEF Recovery, Works, Fields, new
<1>5. d = [x.doc EXCEPT !.subsystems = new]
  OBVIOUS
<1> HIDE DEF y, d
<1>6. Works(y) /\ y.doc = d /\ y.fresh = x.fresh /\ y.issued = x.issued
  BY <1>2, <1>4 DEF Recovery, Works
<1>7. /\ Fields(d) /\ d.objects = x.doc.objects /\ d.nodes = x.doc.nodes /\ d.streams = x.doc.streams
      /\ d.groups = x.doc.groups /\ d.subsystems = new
      /\ d.settings = x.doc.settings /\ d.next = x.doc.next
  BY <1>2, <1>5 DEF Recovery, Fields
<1> QED
  BY <1>1, <1>2, <1>3, <1>6, <1>7, RecoveredHas, QuietKeeps

\* Removing a subsystem.
LEMMA RemoveSubsystemKeeps ==
    ASSUME NEW w, NEW subsystem, WorkInv(w)
    PROVE  Keeps(w, RemoveSubsystem(w, subsystem))
<1> DEFINE x == [w EXCEPT !.doc = RecoverPresentation(@)]
           new == Without(x.doc.subsystems, {subsystem})
           y == [x EXCEPT !.doc.subsystems = Without(@, {subsystem})]
           r == IF subsystem \notin DOMAIN x.doc.subsystems THEN Refuse(x, "NOT_FOUND") ELSE y
<1>1. RemoveSubsystem(w, subsystem) = Settled(w, r)
  BY DEF RemoveSubsystem, Edit
<1>2. Recovery(w, x)
  BY RecoveredWork
<1>3. Maps(new)
  BY DEF Maps, With, Without
<1> DEFINE d == [x.doc EXCEPT !.subsystems = new]
<1> HIDE DEF x, new
<1>4. y = [x EXCEPT !.doc = d]
  BY <1>2 DEF Recovery, Works, Fields, new
<1>5. d = [x.doc EXCEPT !.subsystems = new]
  OBVIOUS
<1> HIDE DEF y, d
<1>6. Works(y) /\ y.doc = d /\ y.fresh = x.fresh /\ y.issued = x.issued
  BY <1>2, <1>4 DEF Recovery, Works
<1>7. /\ Fields(d) /\ d.objects = x.doc.objects /\ d.nodes = x.doc.nodes /\ d.streams = x.doc.streams
      /\ d.groups = x.doc.groups /\ d.subsystems = new
      /\ d.settings = x.doc.settings /\ d.next = x.doc.next
  BY <1>2, <1>5 DEF Recovery, Fields
<1>8. Works(r) /\ Fields(r.doc) /\ (r.code = "OK" => r = y)
  BY <1>2, <1>6, <1>7, Refusing DEF Recovery
<1> HIDE DEF r
<1> QED
  BY <1>1, <1>2, <1>3, <1>6, <1>7, <1>8, RecoveredHas, QuietKeeps

\* What is there after an edit that is not refused.
LEMMA EditIs ==
    ASSUME NEW w, NEW r, WorkInv(w), Works(r), Fields(r.doc), Settled(w, r).code = "OK"
    PROVE  LET e == Settled(w, r) IN
           /\ w.code = "OK" /\ r.code = "OK" /\ Works(e) /\ Fields(e.doc)
           /\ e.fresh = r.fresh /\ e.issued = r.issued
           /\ e.doc.nodes = r.doc.nodes /\ e.doc.streams = r.doc.streams /\ e.doc.objects = r.doc.objects
           /\ e.doc.groups = r.doc.groups /\ e.doc.subsystems = r.doc.subsystems
           /\ e.doc.settings = r.doc.settings /\ e.doc.next = r.doc.next
           /\ DOMAIN e.doc.shown = DOMAIN r.doc.objects
<1> DEFINE e == Settled(w, r)
<1>1. /\ Works(e) /\ Fields(e.doc) /\ w.code = "OK" /\ r.code = "OK"
      /\ e.fresh = r.fresh /\ e.issued = r.issued
      /\ e.doc = [r.doc EXCEPT !.shown = Presentation(RecoverPresentation(w.doc), r.doc)]
  BY Frame DEF WorkInv, Sound
<1>2. DOMAIN Presentation(RecoverPresentation(w.doc), r.doc) = DOMAIN r.doc.objects
  BY DEF Presentation
<1> HIDE DEF e
<1>3. /\ e.doc.nodes = r.doc.nodes /\ e.doc.streams = r.doc.streams /\ e.doc.objects = r.doc.objects
      /\ e.doc.groups = r.doc.groups /\ e.doc.subsystems = r.doc.subsystems
      /\ e.doc.settings = r.doc.settings /\ e.doc.next = r.doc.next
      /\ DOMAIN e.doc.shown = DOMAIN r.doc.objects
  BY <1>1, <1>2 DEF Fields
<1> QED
  BY <1>1, <1>3 DEF e

\* The number an edit gives a stream.
LEMMA GivesNumber ==
    ASSUME NEW w, NEW x, WorkInv(w), Recovery(w, x)
    PROVE  LET n == NextNumber(x.doc)
               t == TakeNumber(x, n) IN
           /\ n \in Nat /\ n >= w.doc.next
           /\ Works(t) /\ Fields(t.doc) /\ t.fresh = x.fresh /\ t.code = x.code
           /\ t.doc = [x.doc EXCEPT !.next = n + 1] /\ t.doc.next = n + 1
           /\ \A q : q.issued = t.issued /\ q.doc.next = t.doc.next => NumbersRise(q)
<1>1. IsFiniteSet(DOMAIN x.doc.objects) /\ x.doc.next = w.doc.next
  BY IdsFinite DEF Recovery
<1>2. x.doc.next \in Nat /\ x.doc.settings.start \in Nat
  BY RecoveredHas DEF NumbersRise, IsSettings
<1>3. NextNumber(x.doc) \in Nat /\ NextNumber(x.doc) >= x.doc.next
  BY <1>1, <1>2, NextNumberIs
<1> QED
  BY <1>1, <1>3, RecoveredHas, TakesNumber

\* What renaming leaves.
Renaming(w, e) ==
    /\ Keeps(w, e)
    /\ e.code = "OK" =>
         /\ e.doc.nodes = w.doc.nodes /\ e.doc.streams = w.doc.streams /\ e.fresh = w.fresh
         /\ e.doc.settings = w.doc.settings /\ DOMAIN e.doc.objects = DOMAIN w.doc.objects
         /\ DOMAIN e.doc.shown = DOMAIN w.doc.objects

\* Renaming, with a swap of tags, the next number or the family of branches.
LEMMA RenameObjectKeeps ==
    ASSUME NEW w, NEW id, NEW tag, NEW swap, NEW family, WorkInv(w)
    PROVE  Renaming(w, RenameObject(w, id, tag, swap, family))
<1> DEFINE x == [w EXCEPT !.doc = RecoverPresentation(@)]
           owners == {s \in DOMAIN x.doc.streams \ {id} : x.doc.objects[s].tag = tag}
           conflict == id \in DOMAIN x.doc.streams /\ owners # {}
           numbered == conflict /\ ~swap /\ x.doc.settings.collision = "next-available"
           n == NextNumber(x.doc)
           given == IF numbered THEN Tag("S", n) ELSE tag
           old == x.doc.objects[id]
           renamed == [i \in DOMAIN x.doc.objects |->
               IF i = id THEN [Unlinked(old) EXCEPT !.tag = given]
               ELSE IF conflict /\ swap /\ i \in owners THEN [Unlinked(x.doc.objects[i]) EXCEPT !.tag = old.tag]
               ELSE IF family /\ x.doc.objects[i].parent = id
                    THEN [x.doc.objects[i] EXCEPT !.tag = Suffixed(given, x.doc.objects[i].suffix)]
               ELSE x.doc.objects[i]]
           t == IF numbered THEN TakeNumber(x, n) ELSE x
           y == [t EXCEPT !.doc.objects = renamed]
           r == CASE id \notin DOMAIN x.doc.objects -> Refuse(x, "NOT_FOUND")
                  [] conflict /\ ~swap /\ ~numbered -> Refuse(x, "TAG_CONFLICT")
                  [] OTHER -> y
           e == RenameObject(w, id, tag, swap, family)
<1>1. e = Settled(w, r)
  BY DEF RenameObject, Edit
<1>2. Recovery(w, x)
  BY RecoveredWork
<1>3. Maps(renamed) /\ DOMAIN renamed = DOMAIN x.doc.objects
  BY DEF Maps
<1> HIDE DEF x, renamed, n, numbered, conflict, owners
<1>4. /\ Works(t) /\ Fields(t.doc) /\ t.fresh = x.fresh /\ t.code = x.code
      /\ t.doc.nodes = x.doc.nodes /\ t.doc.streams = x.doc.streams
      /\ t.doc.groups = x.doc.groups /\ t.doc.subsystems = x.doc.subsystems
      /\ t.doc.settings = x.doc.settings
      /\ \A q : q.issued = t.issued /\ q.doc.next = t.doc.next => NumbersRise(q)
  <2>1. CASE ~ numbered
    BY <1>2, <2>1, RecoveredHas DEF NumbersRise
  <2>2. CASE numbered
    <3>1. /\ Works(t) /\ Fields(t.doc) /\ t.fresh = x.fresh /\ t.code = x.code
          /\ t.doc = [x.doc EXCEPT !.next = n + 1]
          /\ \A q : q.issued = t.issued /\ q.doc.next = t.doc.next => NumbersRise(q)
      BY <1>2, <2>2, GivesNumber DEF n
    <3> HIDE DEF t
    <3> QED
      BY <1>2, <3>1 DEF Recovery, Fields
  <2> QED
    BY <2>1, <2>2
<1> HIDE DEF t
<1>5. /\ Works(y) /\ Fields(y.doc) /\ y.doc.objects = renamed /\ y.doc.nodes = t.doc.nodes
      /\ y.doc.streams = t.doc.streams /\ y.doc.groups = t.doc.groups /\ y.doc.subsystems = t.doc.subsystems
      /\ y.doc.settings = t.doc.settings /\ y.doc.next = t.doc.next
      /\ y.fresh = t.fresh /\ y.issued = t.issued
  BY <1>4 DEF Works, Fields
<1> HIDE DEF y
<1>6. NumbersRise(y)
  BY <1>4, <1>5
<1>7. Works(r) /\ Fields(r.doc) /\ (r.code = "OK" => r = y)
  <2>0. Works(x) /\ Fields(x.doc)
    BY <1>2 DEF Recovery
  <2>1. CASE id \notin DOMAIN x.doc.objects
    BY <2>0, <2>1, Refusing
  <2>2. CASE id \in DOMAIN x.doc.objects /\ conflict /\ ~swap /\ ~numbered
    BY <2>0, <2>2, Refusing
  <2>3. CASE id \in DOMAIN x.doc.objects /\ ~(conflict /\ ~swap /\ ~numbered)
    BY <1>5, <2>3
  <2> QED
    BY <2>1, <2>2, <2>3
<1> HIDE DEF r, e
<1>8. Keeps(w, e)
  BY <1>1, <1>2, <1>3, <1>4, <1>5, <1>6, <1>7, RecoveredHas, QuietKeeps
<1>9. ASSUME e.code = "OK"
      PROVE  /\ e.doc.nodes = w.doc.nodes /\ e.doc.streams = w.doc.streams /\ e.fresh = w.fresh
             /\ e.doc.settings = w.doc.settings /\ DOMAIN e.doc.objects = DOMAIN w.doc.objects
             /\ DOMAIN e.doc.shown = DOMAIN w.doc.objects
  <2>1. /\ r = y /\ e.fresh = r.fresh /\ e.doc.nodes = r.doc.nodes /\ e.doc.streams = r.doc.streams
        /\ e.doc.objects = r.doc.objects /\ e.doc.settings = r.doc.settings
        /\ DOMAIN e.doc.shown = DOMAIN r.doc.objects
    BY <1>1, <1>7, <1>9, EditIs
  <2> QED
    BY <1>2, <1>3, <1>4, <1>5, <2>1 DEF Recovery
<1> QED
  BY <1>8, <1>9 DEF e, Renaming

-------------------------------------------------------------------------------
(* Edits of units and streams *)

\* Streams that stay keep fitting, as long as the units at their ends do.
LEMMA StreamsStay ==
    ASSUME NEW d, NEW e, Wiring(d), Fitting => InputsFit(e), DOMAIN e.streams \subseteq DOMAIN d.streams,
           \A s \in DOMAIN e.streams :
              /\ e.streams[s] = d.streams[s]
              /\ \A i \in {d.streams[s].source, d.streams[s].target} :
                    i \in DOMAIN d.nodes => i \in DOMAIN e.nodes /\ e.nodes[i].model = d.nodes[i].model
    PROVE  Wiring(e)
<1>1. PortsNamed(e)
  BY DEF Wiring, PortsNamed
<1>2. ASSUME Fitting PROVE Wired(e)
  <2>1. StreamsFit(d) /\ PortsFree(d) /\ InputsFit(e)
    BY <1>2 DEF Wiring, Wired
  <2>2. PortsFree(e)
    BY <2>1 DEF PortsFree
  <2>3. ASSUME NEW s \in DOMAIN e.streams
        PROVE  /\ {e.streams[s].source, e.streams[s].target} \subseteq DOMAIN e.nodes
               /\ Or0(e.streams[s].out) \in 0 .. OutPorts[e.nodes[e.streams[s].source].model] - 1
               /\ Or0(e.streams[s].in) \in 0 .. InPorts[e.nodes[e.streams[s].target].model] - 1
    <3>1. /\ {d.streams[s].source, d.streams[s].target} \subseteq DOMAIN d.nodes
          /\ Or0(d.streams[s].out) \in 0 .. OutPorts[d.nodes[d.streams[s].source].model] - 1
          /\ Or0(d.streams[s].in) \in 0 .. InPorts[d.nodes[d.streams[s].target].model] - 1
      BY <2>1, Zenon DEF StreamsFit
    <3> QED
      BY <3>1, ZenonT(40)
  <2>4. StreamsFit(e)
    BY <2>3, Zenon DEF StreamsFit
  <2> QED
    BY <2>1, <2>2, <2>4 DEF Wired
<1> QED
  BY <1>1, <1>2 DEF Wiring

\* Units and objects are changed together.
ChangedUnits(x, nodes, objects) == [x EXCEPT !.doc = [x.doc EXCEPT !.nodes = nodes, !.objects = objects]]

\* So are only units and objects different.
LEMMA ChangesUnits ==
    ASSUME NEW x, NEW nodes, NEW objects, Works(x), Fields(x.doc)
    PROVE  LET y == ChangedUnits(x, nodes, objects) IN
           /\ Works(y) /\ Fields(y.doc) /\ y.fresh = x.fresh /\ y.issued = x.issued /\ y.code = x.code
           /\ y.doc.nodes = nodes /\ y.doc.objects = objects /\ y.doc.streams = x.doc.streams
           /\ y.doc.groups = x.doc.groups /\ y.doc.subsystems = x.doc.subsystems
           /\ y.doc.settings = x.doc.settings /\ y.doc.next = x.doc.next
<1> DEFINE d == [x.doc EXCEPT !.nodes = nodes, !.objects = objects]
           y == [x EXCEPT !.doc = d]
<1>1. d = [x.doc EXCEPT !.nodes = nodes, !.objects = objects] /\ y = [x EXCEPT !.doc = d]
  OBVIOUS
<1> HIDE DEF d, y
<1>2. Works(y) /\ y.doc = d /\ y.fresh = x.fresh /\ y.issued = x.issued /\ y.code = x.code
  BY <1>1 DEF Works
<1>3. /\ Fields(d) /\ d.nodes = nodes /\ d.objects = objects /\ d.streams = x.doc.streams
      /\ d.groups = x.doc.groups /\ d.subsystems = x.doc.subsystems
      /\ d.settings = x.doc.settings /\ d.next = x.doc.next
  BY <1>1 DEF Fields
<1> QED
  BY <1>2, <1>3 DEF y, d, ChangedUnits

\* The adapter takes every input that the catalogue gives a model.
LEMMA InputNames ==
    ASSUME NEW m \in Models, NEW name \in ModelParameters[m]
    PROVE  Accepts(m, name)
BY DEF ModelParameters, Accepts, Models

\* Setting or clearing an input keeps it one of the unit's model.
LEMMA ConfigureInputKeeps ==
    ASSUME NEW w, NEW id, NEW name, NEW text, WorkInv(w)
    PROVE  LET e == ConfigureInput(w, id, name, text) IN
           /\ Keeps(w, e)
           /\ e.fresh = w.fresh
<1> DEFINE x == [w EXCEPT !.doc = RecoverPresentation(@)]
           note == x.doc.objects[id].notation
           display == IF name \in DOMAIN note THEN note[name].display ELSE ""
           blank(f) == Without(f, {name})
           nodes == [x.doc.nodes EXCEPT ![id].inputs =
                        IF text = "" THEN Without(@, {name}) ELSE With(@, name, text)]
           objects == [x.doc.objects EXCEPT ![id].notation =
                        IF text = "" THEN Without(@, {name})
                        ELSE With(@, name, [text |-> text, display |-> display])]
           y == ChangedUnits(x, nodes, objects)
           y1 == [x EXCEPT !.doc.nodes[id].inputs = Without(@, {name}),
                           !.doc.objects[id].notation = Without(@, {name})]
           y2 == [x EXCEPT !.doc.nodes[id].inputs = With(@, name, text),
                           !.doc.objects[id].notation = With(@, name, [text |-> text, display |-> display])]
           r == IF id \notin DOMAIN x.doc.nodes \/ name \notin ModelParameters[x.doc.nodes[id].model]
                THEN Refuse(x, "NOT_FOUND")
                ELSE IF text = "junk" THEN Refuse(x, "INVALID_COMMAND")
                ELSE IF text = "" THEN y1 ELSE y2
           e == ConfigureInput(w, id, name, text)
<1>1. e = Settled(w, r)
  BY DEF ConfigureInput, Edit
<1>2. Recovery(w, x)
  BY RecoveredWork
<1> HIDE DEF x
<1>3. Works(r) /\ Fields(r.doc) /\ r.fresh = x.fresh
      /\ (r.code = "OK" => /\ r = y /\ id \in DOMAIN x.doc.nodes
                            /\ name \in ModelParameters[x.doc.nodes[id].model])
  <2>0. Works(x) /\ Fields(x.doc)
    BY <1>2 DEF Recovery
  <2>a. text = "" => y1 = y
    BY <2>0 DEF Works, Fields, ChangedUnits
  <2>b. text # "" => y2 = y
    <3> HIDE DEF display
    <3> QED
      BY <2>0 DEF Works, Fields, ChangedUnits
  <2> HIDE DEF y1, y2, nodes, objects, display
  <2>1. CASE id \notin DOMAIN x.doc.nodes
    <3>1. r = Refuse(x, "NOT_FOUND")
      BY <2>1
    <3> HIDE DEF r
    <3> QED
      BY <2>0, <3>1, Refusing
  <2>2. CASE id \in DOMAIN x.doc.nodes /\ name \notin ModelParameters[x.doc.nodes[id].model]
    <3>1. r = Refuse(x, "NOT_FOUND")
      BY <2>2
    <3> HIDE DEF r
    <3> QED
      BY <2>0, <3>1, Refusing
  <2>3. CASE id \in DOMAIN x.doc.nodes /\ name \in ModelParameters[x.doc.nodes[id].model] /\ text = "junk"
    BY <2>0, <2>3, Refusing
  <2>4. CASE id \in DOMAIN x.doc.nodes /\ name \in ModelParameters[x.doc.nodes[id].model] /\ text # "junk"
    <3>1. Works(y) /\ Fields(y.doc) /\ y.fresh = x.fresh
      BY <2>0, ChangesUnits
    <3>2. CASE text = ""
      BY <2>4, <2>a, <3>1, <3>2
    <3>3. CASE text # ""
      BY <2>4, <2>b, <3>1, <3>3
    <3> QED
      BY <3>2, <3>3
  <2> QED
    BY <2>1, <2>2, <2>3, <2>4
<1> HIDE DEF r
<1>4. ASSUME r.code = "OK" PROVE Inner(w, r)
  <2>0. Works(x) /\ Fields(x.doc) /\ UnitsFit(x.doc) /\ Wiring(x.doc) /\ Maps(x.doc.nodes)
    <3>1. UnitsFit(x.doc)
      BY <1>2 DEF Recovery, WorkInv, Sound, UnitsFit
    <3>2. Wiring(x.doc)
      BY <1>2, WiringSame DEF Recovery, WorkInv
    <3> QED
      BY <1>2, <3>1, <3>2, RecoveredHas
  <2>1. /\ r = y /\ id \in DOMAIN x.doc.nodes /\ name \in ModelParameters[x.doc.nodes[id].model]
    BY <1>3, <1>4
  <2>2. /\ DOMAIN nodes = DOMAIN x.doc.nodes /\ DOMAIN objects = DOMAIN x.doc.objects
        /\ Maps(nodes) /\ Maps(objects)
        /\ \A i \in DOMAIN nodes \ {id} : nodes[i] = x.doc.nodes[i]
    BY DEF Maps
  <2>3. nodes[id] = [x.doc.nodes[id] EXCEPT !.inputs =
                        IF text = "" THEN Without(@, {name}) ELSE With(@, name, text)]
    BY <2>1
  <2>4. x.doc.nodes[id] = [model |-> x.doc.nodes[id].model, inputs |-> x.doc.nodes[id].inputs]
    BY <2>0, <2>1 DEF UnitsFit
  <2>5. /\ nodes[id] = [model |-> nodes[id].model, inputs |-> nodes[id].inputs]
        /\ nodes[id].model = x.doc.nodes[id].model
        /\ nodes[id].inputs = IF text = "" THEN Without(x.doc.nodes[id].inputs, {name})
                              ELSE With(x.doc.nodes[id].inputs, name, text)
    <3> HIDE DEF nodes
    <3> QED
      BY <2>3, <2>4
  <2>6. DOMAIN nodes[id].inputs \subseteq DOMAIN x.doc.nodes[id].inputs \cup {name}
    <3> HIDE DEF nodes
    <3> QED
      BY <2>5 DEF With, Without
  <2> HIDE DEF nodes, objects
  <2>7. /\ y.doc.nodes = nodes /\ y.doc.objects = objects /\ y.doc.streams = x.doc.streams
        /\ y.doc.groups = x.doc.groups /\ y.doc.subsystems = x.doc.subsystems
        /\ y.doc.settings = x.doc.settings /\ y.doc.next = x.doc.next
        /\ y.fresh = x.fresh /\ y.issued = x.issued
    BY <2>0, ChangesUnits
  <2> HIDE DEF y
  <2>8. UnitsFit(y.doc)
    <3>1. \A i \in DOMAIN nodes \ {id} :
             /\ nodes[i] = [model |-> nodes[i].model, inputs |-> nodes[i].inputs]
             /\ nodes[i].model \in Models
             /\ IsFiniteSet(DOMAIN nodes[i].inputs)
      BY <2>0, <2>2 DEF UnitsFit
    <3>2. nodes[id].model \in Models /\ IsFiniteSet(DOMAIN nodes[id].inputs)
      <4>1. IsFiniteSet(DOMAIN x.doc.nodes[id].inputs) /\ nodes[id].model \in Models
        BY <2>0, <2>1, <2>5 DEF UnitsFit
      <4>2. IsFiniteSet(DOMAIN x.doc.nodes[id].inputs \cup {name})
        BY <4>1, FS_AddElement
      <4> QED
        BY <2>6, <4>1, <4>2, FS_Subset
    <3> QED
      BY <2>5, <2>7, <3>1, <3>2 DEF UnitsFit
  <2>9. Wiring(y.doc)
    <3>1. \A i \in DOMAIN x.doc.nodes : i \in DOMAIN y.doc.nodes /\ y.doc.nodes[i].model = x.doc.nodes[i].model
      BY <2>2, <2>5, <2>7
    <3>2. ASSUME Fitting PROVE InputsFit(y.doc)
      <4>1. InputsFit(x.doc)
        BY <2>0, <3>2 DEF Wiring, Wired
      <4>2. \A n \in DOMAIN nodes[id].inputs : Accepts(nodes[id].model, n)
        <5>1. nodes[id].model \in Models /\ name \in ModelParameters[nodes[id].model]
          BY <2>0, <2>1, <2>5 DEF UnitsFit
        <5>2. Accepts(nodes[id].model, name)
          BY <5>1, InputNames
        <5>3. \A n \in DOMAIN x.doc.nodes[id].inputs : Accepts(x.doc.nodes[id].model, n)
          BY <2>1, <4>1 DEF InputsFit
        <5> QED
          BY <2>5, <2>6, <5>2, <5>3
      <4>3. \A i \in DOMAIN nodes \ {id} : \A n \in DOMAIN nodes[i].inputs : Accepts(nodes[i].model, n)
        BY <2>2, <4>1 DEF InputsFit
      <4> QED
        BY <2>7, <4>2, <4>3 DEF InputsFit
    <3>3. \A s \in DOMAIN y.doc.streams :
             /\ y.doc.streams[s] = x.doc.streams[s]
             /\ \A i \in {x.doc.streams[s].source, x.doc.streams[s].target} :
                   i \in DOMAIN x.doc.nodes => i \in DOMAIN y.doc.nodes /\ y.doc.nodes[i].model = x.doc.nodes[i].model
      BY <2>7, <3>1
    <3>4. DOMAIN y.doc.streams \subseteq DOMAIN x.doc.streams
      BY <2>7
    <3> QED
      BY <2>0, <3>2, <3>3, <3>4, StreamsStay
  <2>10. NumbersRise(y)
    BY <1>2, <2>7, RecoveredHas DEF NumbersRise
  <2> QED
    BY <1>2, <2>1, <2>2, <2>7, <2>8, <2>9, <2>10, RecoveredHas DEF Inner, Recovery, WorkInv, Sound, Issued
<1> HIDE DEF y
<1>5. Keeps(w, e)
  BY <1>1, <1>3, <1>4, EditKeeps
<1>6. e.fresh = w.fresh
  <2>1. Settled(w, r).fresh \in {w.fresh, r.fresh}
    <3>1. Works(w) /\ Fields(w.doc) /\ Works(r) /\ Fields(r.doc)
      BY <1>3 DEF WorkInv, Sound
    <3> QED
      BY <3>1, Frame, ZenonT(40)
  <2> QED
    BY <1>1, <1>2, <1>3, <2>1 DEF Recovery
<1> QED
  BY <1>5, <1>6

\* What adding a unit does.
Adding(w, e, model, layout) ==
    /\ Keeps(w, e)
    /\ e.code = "OK" =>
         /\ model \in Models /\ e.fresh = w.fresh + 1
         /\ e.doc.nodes = With(w.doc.nodes, w.fresh, [model |-> model, inputs |-> << >>])
         /\ e.doc.streams = w.doc.streams /\ e.doc.settings = w.doc.settings
         /\ \E tag : e.doc.objects = With(w.doc.objects, w.fresh, NewObject(tag, layout))

\* Adding a unit of the catalogue.
LEMMA AddEquipmentKeeps ==
    ASSUME NEW w, NEW model, NEW layout, WorkInv(w)
    PROVE  Adding(w, AddEquipment(w, model, layout), model, layout)
<1> DEFINE x == [w EXCEPT !.doc = RecoverPresentation(@)]
           free == {n \in 1 .. 1 + Cardinality(DOMAIN x.doc.objects) : Tag(model, n) \notin UsedTags(x.doc)}
           tag == Tag(model, Min(free))
           nodes == With(x.doc.nodes, x.fresh, [model |-> model, inputs |-> << >>])
           objects == With(x.doc.objects, x.fresh, NewObject(tag, layout))
           z == ChangedUnits(x, nodes, objects)
           y == [z EXCEPT !.fresh = @ + 1]
           r == IF model \notin Models THEN Refuse(x, "NOT_FOUND") ELSE y
           e == AddEquipment(w, model, layout)
<1>1. e = Settled(w, IF model \notin Models THEN Refuse(x, "NOT_FOUND")
                     ELSE [x EXCEPT !.fresh = @ + 1,
                             !.doc.nodes = With(@, x.fresh, [model |-> model, inputs |-> << >>]),
                             !.doc.objects = With(@, x.fresh, NewObject(Tag(model, Min(free)), layout))])
  BY DEF AddEquipment, Edit
<1>2. Recovery(w, x)
  BY RecoveredWork
<1> HIDE DEF x, tag
<1>3. Works(x) /\ Fields(x.doc) /\ x.fresh = w.fresh /\ w.fresh \in Nat \ {0}
  BY <1>2 DEF Recovery, WorkInv, Issued
<1>4. y = [x EXCEPT !.fresh = @ + 1,
                    !.doc.nodes = With(@, x.fresh, [model |-> model, inputs |-> << >>]),
                    !.doc.objects = With(@, x.fresh, NewObject(tag, layout))]
  BY <1>3 DEF Works, Fields, ChangedUnits
<1>5. e = Settled(w, r)
  BY <1>1, <1>4 DEF tag
<1> HIDE DEF z, nodes, objects
<1>6. /\ Works(z) /\ Fields(z.doc) /\ z.fresh = x.fresh /\ z.issued = x.issued
      /\ z.doc.nodes = nodes /\ z.doc.objects = objects /\ z.doc.streams = x.doc.streams
      /\ z.doc.groups = x.doc.groups /\ z.doc.subsystems = x.doc.subsystems
      /\ z.doc.settings = x.doc.settings /\ z.doc.next = x.doc.next
  BY <1>3, ChangesUnits DEF z
<1>7. Works(y) /\ y.doc = z.doc /\ y.fresh = w.fresh + 1 /\ y.issued = z.issued
  BY <1>3, <1>6 DEF Works
<1> HIDE DEF y
<1>8. /\ DOMAIN nodes = DOMAIN w.doc.nodes \cup {w.fresh} /\ Maps(nodes)
      /\ DOMAIN objects = DOMAIN w.doc.objects \cup {w.fresh} /\ Maps(objects)
      /\ nodes[w.fresh] = [model |-> model, inputs |-> << >>]
      /\ w.fresh \notin DOMAIN w.doc.nodes \cup DOMAIN w.doc.streams
      /\ \A i \in DOMAIN w.doc.nodes : nodes[i] = w.doc.nodes[i]
  BY <1>2 DEF nodes, objects, With, Maps, Recovery, WorkInv, Issued
<1>9. ASSUME model \in Models PROVE Inner(w, y)
  <2>1. UnitsFit(y.doc)
    <3>1. nodes[w.fresh].model = model /\ IsFiniteSet(DOMAIN nodes[w.fresh].inputs)
      <4>1. nodes[w.fresh].model = model /\ DOMAIN nodes[w.fresh].inputs = {}
        BY <1>8
      <4> QED
        BY <4>1, FS_EmptySet
    <3>2. \A i \in DOMAIN w.doc.nodes :
             /\ nodes[i] = [model |-> nodes[i].model, inputs |-> nodes[i].inputs]
             /\ nodes[i].model \in Models
             /\ IsFiniteSet(DOMAIN nodes[i].inputs)
      BY <1>8 DEF WorkInv, Sound, UnitsFit
    <3>3. nodes[w.fresh] = [model |-> nodes[w.fresh].model, inputs |-> nodes[w.fresh].inputs]
      BY <1>8
    <3> QED
      BY <1>6, <1>7, <1>8, <1>9, <3>1, <3>2, <3>3 DEF UnitsFit
  <2>2. Wiring(y.doc)
    <3>1. Wiring(w.doc)
      BY DEF WorkInv
    <3>2. y.doc.streams = w.doc.streams /\ y.doc.nodes = nodes
      BY <1>2, <1>6, <1>7 DEF Recovery
    <3>3. \A s \in DOMAIN y.doc.streams :
             /\ y.doc.streams[s] = w.doc.streams[s]
             /\ \A i \in {w.doc.streams[s].source, w.doc.streams[s].target} :
                   i \in DOMAIN w.doc.nodes => i \in DOMAIN y.doc.nodes /\ y.doc.nodes[i].model = w.doc.nodes[i].model
      BY <1>8, <3>2
    <3>4. ASSUME Fitting PROVE InputsFit(y.doc)
      <4>1. InputsFit(w.doc)
        BY <3>1, <3>4 DEF Wiring, Wired
      <4>2. DOMAIN nodes[w.fresh].inputs = {}
        BY <1>8
      <4>3. \A i \in DOMAIN w.doc.nodes : \A name \in DOMAIN nodes[i].inputs : Accepts(nodes[i].model, name)
        BY <1>8, <4>1 DEF InputsFit
      <4> QED
        BY <1>8, <3>2, <4>2, <4>3 DEF InputsFit
    <3>5. DOMAIN y.doc.streams \subseteq DOMAIN w.doc.streams
      BY <3>2
    <3> QED
      BY <3>1, <3>3, <3>4, <3>5, StreamsStay
  <2>3. NumbersRise(y)
    BY <1>2, <1>6, <1>7, RecoveredHas DEF NumbersRise
  <2>4. /\ Maps(y.doc.nodes) /\ Maps(y.doc.streams) /\ Maps(y.doc.objects)
        /\ Maps(y.doc.groups) /\ Maps(y.doc.subsystems) /\ IsSettings(y.doc.settings)
    BY <1>2, <1>6, <1>7, <1>8, RecoveredHas
  <2>5. y.doc.streams = w.doc.streams /\ y.doc.nodes = nodes /\ y.doc.objects = objects
    BY <1>2, <1>6, <1>7 DEF Recovery
  <2> QED
    BY <1>3, <1>7, <1>8, <2>1, <2>2, <2>3, <2>4, <2>5 DEF Inner, WorkInv, Sound, Issued
<1>10. Works(r) /\ Fields(r.doc) /\ (r.code = "OK" => model \in Models /\ r = y)
  BY <1>3, <1>6, <1>7, Refusing
<1> HIDE DEF r, e
<1>11. Keeps(w, e)
  BY <1>5, <1>9, <1>10, EditKeeps
<1>12. ASSUME e.code = "OK"
       PROVE  /\ model \in Models /\ e.fresh = w.fresh + 1
              /\ e.doc.nodes = nodes /\ e.doc.objects = objects
              /\ e.doc.streams = w.doc.streams /\ e.doc.settings = w.doc.settings
  <2>1. /\ r.code = "OK" /\ e.fresh = r.fresh
        /\ e.doc.nodes = r.doc.nodes /\ e.doc.streams = r.doc.streams /\ e.doc.objects = r.doc.objects
        /\ e.doc.settings = r.doc.settings
    BY <1>5, <1>10, <1>12, EditIs
  <2> QED
    BY <1>2, <1>6, <1>7, <1>10, <2>1 DEF Recovery
<1>13. nodes = With(w.doc.nodes, w.fresh, [model |-> model, inputs |-> << >>])
       /\ objects = With(w.doc.objects, w.fresh, NewObject(tag, layout))
  BY <1>2 DEF nodes, objects, Recovery
<1> QED
  BY <1>11, <1>12, <1>13 DEF e, Adding

\* No model has more than two ports on a side: a port that is one is not NoPort.
LEMMA PortCounts ==
    ASSUME NEW m \in Models
    PROVE  OutPorts[m] \in 0 .. 2 /\ InPorts[m] \in 0 .. 2
<1> DEFINE ins == CASE m = "source" -> 0 [] m \in {"mixer", "heat_exchanger"} -> 2 [] OTHER -> 1
           outs == CASE m = "sink" -> 0 [] m \in {"splitter", "heat_exchanger"} -> 2 [] OTHER -> 1
<1>1. InPorts[m] = ins /\ OutPorts[m] = outs
  BY DEF InPorts, OutPorts
<1>2. ins \in {0, 1, 2} /\ outs \in {0, 1, 2}
  BY Zenon
<1> HIDE DEF ins, outs
<1> QED
  BY <1>1, <1>2

\* A port that can take a stream is one of its unit, and no stream has it (_port).
LEMMA PortTaken ==
    ASSUME NEW d, NEW id, NEW port \in Nat, NEW side \in {"out", "in"},
           IsFiniteSet(DOMAIN d.streams), UnitsFit(d), PortVerdict(d, id, port, side) = "OK"
    PROVE  /\ id \in DOMAIN d.nodes /\ Or0(port) = port
           /\ port \in 0 .. (IF side = "out" THEN OutPorts ELSE InPorts)[d.nodes[id].model] - 1
           /\ \A s \in DOMAIN d.streams :
                 /\ side = "out" => <<d.streams[s].source, Or0(d.streams[s].out)>> # <<id, port>>
                 /\ side = "in" => <<d.streams[s].target, Or0(d.streams[s].in)>> # <<id, port>>
<1> DEFINE ports == (IF side = "out" THEN OutPorts ELSE InPorts)[d.nodes[id].model]
           taken == {s \in DOMAIN d.streams :
                        \/ side = "out" /\ d.streams[s].source = id /\ Or0(d.streams[s].out) = port
                        \/ side = "in" /\ d.streams[s].target = id /\ Or0(d.streams[s].in) = port}
<1>1. PortVerdict(d, id, port, side) = CASE id \notin DOMAIN d.nodes -> "NOT_FOUND"
         [] port >= ports -> "PORT_DIRECTION" [] Cardinality(taken) >= 1 -> "PORT_OCCUPIED" [] OTHER -> "OK"
  BY DEF PortVerdict, Occupied
<1> HIDE DEF ports, taken
<1>2. id \in DOMAIN d.nodes /\ ~ (port >= ports) /\ ~ (Cardinality(taken) >= 1)
  <2> DEFINE a == port >= ports
             b == Cardinality(taken) >= 1
  <2>1. PortVerdict(d, id, port, side) = CASE id \notin DOMAIN d.nodes -> "NOT_FOUND"
         [] a -> "PORT_DIRECTION" [] b -> "PORT_OCCUPIED" [] OTHER -> "OK"
    BY <1>1
  <2> HIDE DEF a, b
  <2>2. id \in DOMAIN d.nodes /\ ~ a /\ ~ b
    <3>1. CASE id \notin DOMAIN d.nodes
      BY <2>1, <3>1
    <3>2. CASE a
      BY <2>1, <3>2
    <3>3. CASE b
      BY <2>1, <3>3
    <3> QED
      BY <3>1, <3>2, <3>3
  <2> QED
    BY <2>2 DEF a, b
<1>3. IsFiniteSet(taken)
  BY FS_Subset DEF taken
<1>4. taken = {}
  BY <1>2, <1>3, FS_CardinalityType, FS_EmptySet
<1>5. ports \in 0 .. 2
  BY <1>2, PortCounts DEF ports, UnitsFit
<1>6. port \in 0 .. ports - 1 /\ Or0(port) = port
  BY <1>2, <1>5 DEF Or0, NoPort
<1>7. ASSUME NEW s \in DOMAIN d.streams
      PROVE  /\ side = "out" => <<d.streams[s].source, Or0(d.streams[s].out)>> # <<id, port>>
             /\ side = "in" => <<d.streams[s].target, Or0(d.streams[s].in)>> # <<id, port>>
  <2>1. s \notin taken
    BY <1>4
  <2> QED
    BY <2>1 DEF taken
<1> QED
  BY <1>2, <1>6, <1>7 DEF ports

\* Streams, objects and the next number are changed together.
ChangedStreams(x, streams, objects, n) ==
    [x EXCEPT !.doc = [x.doc EXCEPT !.streams = streams, !.objects = objects, !.next = n + 1],
              !.fresh = @ + 1, !.issued = Append(@, n)]

\* So are only streams, objects, identities and numbers different.
LEMMA ChangesStreams ==
    ASSUME NEW x, NEW streams, NEW objects, NEW n, Works(x), Fields(x.doc)
    PROVE  LET y == ChangedStreams(x, streams, objects, n) IN
           /\ Works(y) /\ Fields(y.doc) /\ y.fresh = x.fresh + 1 /\ y.issued = Append(x.issued, n)
           /\ y.doc.nodes = x.doc.nodes /\ y.doc.objects = objects /\ y.doc.streams = streams
           /\ y.doc.groups = x.doc.groups /\ y.doc.subsystems = x.doc.subsystems
           /\ y.doc.settings = x.doc.settings /\ y.doc.next = n + 1
<1> DEFINE d == [x.doc EXCEPT !.streams = streams, !.objects = objects, !.next = n + 1]
           y == [x EXCEPT !.doc = d, !.fresh = x.fresh + 1, !.issued = Append(x.issued, n)]
<1>1. /\ d = [x.doc EXCEPT !.streams = streams, !.objects = objects, !.next = n + 1]
      /\ y = [x EXCEPT !.doc = d, !.fresh = x.fresh + 1, !.issued = Append(x.issued, n)]
  OBVIOUS
<1>2. ChangedStreams(x, streams, objects, n) = y
  BY DEF ChangedStreams, Works
<1> HIDE DEF d, y
<1>3. Works(y) /\ y.doc = d /\ y.fresh = x.fresh + 1 /\ y.issued = Append(x.issued, n)
  BY <1>1 DEF Works
<1>4. /\ Fields(d) /\ d.nodes = x.doc.nodes /\ d.objects = objects /\ d.streams = streams
      /\ d.groups = x.doc.groups /\ d.subsystems = x.doc.subsystems
      /\ d.settings = x.doc.settings /\ d.next = n + 1
  BY <1>1 DEF Fields
<1> QED
  BY <1>2, <1>3, <1>4

\* A stream, and documents and works with other streams and objects.
Link(source, out, target, in) == [source |-> source, out |-> out, target |-> target, in |-> in]

Ends(d, u, v) == [d EXCEPT !.streams = u, !.objects = v]
Ended(t, f, u, v) == [t EXCEPT !.fresh = f, !.doc.streams = u, !.doc.objects = v]

\* Streams and objects that are replaced one after the other.
LEMMA ConnectsIn ==
    ASSUME NEW t, NEW f, NEW u, NEW v, Works(t), Fields(t.doc)
    PROVE  \E d : /\ d = Ends(t.doc, u, v)
                  /\ Ended(t, f, u, v) = [doc |-> d, fresh |-> f, issued |-> t.issued, code |-> t.code]
<1> DEFINE d == [t.doc EXCEPT !.streams = u]
           a == [t EXCEPT !.fresh = f]
           b == [a EXCEPT !.doc = d]
           e == [b EXCEPT !.doc = [d EXCEPT !.objects = v]]
<1>1. a = [doc |-> t.doc, fresh |-> f, issued |-> t.issued, code |-> t.code]
  BY DEF Works
<1> HIDE DEF a
<1>2. b = [doc |-> d, fresh |-> f, issued |-> t.issued, code |-> t.code] 
  BY <1>1
<1> HIDE DEF b
<1>3. e = [doc |-> [d EXCEPT !.objects = v], fresh |-> f, issued |-> t.issued, code |-> t.code] 
  BY <1>2
<1>4. [t EXCEPT !.fresh = f, !.doc.streams = u, !.doc.objects = v] = e
  BY <1>1, <1>2 DEF a, b
<1>5. [t.doc EXCEPT !.streams = u, !.objects = v] = [d EXCEPT !.objects = v]
  BY DEF Fields
<1> QED
  BY <1>3, <1>4, <1>5 DEF Ended, Ends

\* As the code writes it.
Joined(t, i, a, b) ==
    [t EXCEPT !.fresh = @ + 1, !.doc.streams = With(@, i, a), !.doc.objects = With(@, i, b)]

\* A new stream and its object are such a change.
LEMMA JoinedIs ==
    ASSUME NEW t, NEW i, NEW a, NEW b, Works(t), Fields(t.doc)
    PROVE  Joined(t, i, a, b) = Ended(t, t.fresh + 1, With(t.doc.streams, i, a), With(t.doc.objects, i, b))
BY DEF Works, Fields, Ended, Joined

\* What a new stream does.
Joining(w, e, source, out, target, in) ==
    /\ Keeps(w, e)
    /\ e.code = "OK" =>
         /\ source # target /\ e.fresh = w.fresh + 1
         /\ Or0(out) = out /\ Or0(in) = in
         /\ e.doc.streams = With(w.doc.streams, w.fresh, Link(source, out, target, in))
         /\ e.doc.nodes = w.doc.nodes /\ e.doc.settings = w.doc.settings
         /\ \E tag : e.doc.objects = With(w.doc.objects, w.fresh, NewObject(tag, 0))
         /\ DOMAIN e.doc.shown = DOMAIN w.doc.objects \cup {w.fresh}

\* Connecting two ports keeps every port with one stream at most.
LEMMA ConnectPortsKeeps ==
    ASSUME NEW w, NEW source, NEW out \in Nat, NEW target, NEW in \in Nat, WorkInv(w)
    PROVE  Joining(w, ConnectPorts(w, source, out, target, in), source, out, target, in)
<1> DEFINE x == [w EXCEPT !.doc = RecoverPresentation(@)]
           output == PortVerdict(x.doc, source, out, "out")
           input == PortVerdict(x.doc, target, in, "in")
           n == NextNumber(x.doc)
           streams == With(x.doc.streams, x.fresh, Link(source, out, target, in))
           objects == With(x.doc.objects, x.fresh, NewObject(Tag("S", n), 0))
           y == ChangedStreams(x, streams, objects, n)
           y1 == [TakeNumber(x, n) EXCEPT
                    !.fresh = @ + 1,
                    !.doc.streams = With(@, x.fresh, [source |-> source, out |-> out, target |-> target, in |-> in]),
                    !.doc.objects = With(@, x.fresh, NewObject(Tag("S", n), 0))]
           r == CASE source = target -> Refuse(x, "SELF_CONNECTION")
                  [] output # "OK" -> Refuse(x, output)
                  [] input # "OK" -> Refuse(x, input)
                  [] OTHER -> y1
           e == ConnectPorts(w, source, out, target, in)
<1>1. e = Settled(w, r)
  BY DEF ConnectPorts, Edit
<1>2. Recovery(w, x)
  BY RecoveredWork
<1> HIDE DEF x, output, input, n
<1>3. Works(x) /\ Fields(x.doc) /\ x.fresh = w.fresh /\ w.fresh \in Nat \ {0}
  BY <1>2 DEF Recovery, WorkInv, Issued
<1>5. n \in Nat /\ n >= w.doc.next /\ \A q : q.issued = Append(x.issued, n) /\ q.doc.next = n + 1 => NumbersRise(q)
  <2>1. x.doc.next = w.doc.next
    BY <1>2 DEF Recovery
  <2>2. n \in Nat /\ n >= x.doc.next
    BY <1>2, <2>1, GivesNumber DEF n
  <2>3. Works(x) /\ Fields(x.doc) /\ NumbersRise(x)
    BY <1>2, RecoveredHas
  <2> DEFINE t == TakeNumber(x, n)
  <2>4. t.issued = Append(x.issued, n) /\ t.doc.next = n + 1
        /\ \A q : q.issued = t.issued /\ q.doc.next = t.doc.next => NumbersRise(q)
    BY <2>2, <2>3, TakesNumber
  <2> HIDE DEF t
  <2> QED
    BY <2>1, <2>2, <2>4
<1>4. y1 = y
  <2> DEFINE t == TakeNumber(x, n)
             d == [x.doc EXCEPT !.streams = streams, !.objects = objects, !.next = n + 1]
             c == Ends(t.doc, streams, objects)
  <2>1. n \in Nat /\ n >= x.doc.next /\ NumbersRise(x)
    BY <1>2, <1>5, RecoveredHas DEF Recovery
  <2>2. /\ Works(t) /\ Fields(t.doc) /\ t.fresh = x.fresh /\ t.code = x.code /\ t.issued = Append(x.issued, n)
        /\ t.doc = [x.doc EXCEPT !.next = n + 1]
    BY <1>3, <2>1, TakesNumber
  <2>3. y1 = Joined(t, x.fresh, Link(source, out, target, in), NewObject(Tag("S", n), 0))
    BY DEF Joined, Link
  <2> HIDE DEF t, y1
  <2>4. t.doc.streams = x.doc.streams /\ t.doc.objects = x.doc.objects
    BY <1>3, <2>2 DEF Fields
  <2>5. y1 = Ended(t, t.fresh + 1, streams, objects)
    <3> DEFINE a == Link(source, out, target, in)
               b == NewObject(Tag("S", n), 0)
    <3>1. y1 = Joined(t, x.fresh, a, b)
      BY <2>3
    <3>2. Joined(t, x.fresh, a, b) = Ended(t, t.fresh + 1, With(t.doc.streams, x.fresh, a), With(t.doc.objects, x.fresh, b))
      <4> HIDE DEF a, b
      <4>1. Works(t) /\ Fields(t.doc)
        BY <2>2
      <4> QED
        BY <4>1, JoinedIs
    <3> QED
      BY <2>4, <3>1, <3>2
  <2> HIDE DEF streams, objects
  <2>6. y1 = [doc |-> c, fresh |-> t.fresh + 1, issued |-> t.issued, code |-> t.code]
    <3> DEFINE f == t.fresh + 1
               z == Ended(t, f, streams, objects)
    <3>1. Works(t) /\ Fields(t.doc)
      BY <2>2
    <3>2. y1 = z
      BY <2>5
    <3> HIDE DEF f
    <3>3. z = [doc |-> c, fresh |-> f, issued |-> t.issued, code |-> t.code]
      <4> HIDE DEF c
      <4>1. PICK q : /\ q = Ends(t.doc, streams, objects)
                     /\ Ended(t, f, streams, objects) = [doc |-> q, fresh |-> f, issued |-> t.issued, code |-> t.code]
        BY <3>1, ConnectsIn
      <4>2. q = c
        BY <4>1 DEF c
      <4> QED
        BY <4>1, <4>2
    <3> QED
      BY <3>2, <3>3 DEF f
  <2>7. c = d
    BY <1>3, <2>2 DEF Fields, Ends
  <2>8. y = [x EXCEPT !.doc = d, !.fresh = x.fresh + 1, !.issued = Append(x.issued, n)]
    BY <1>3 DEF ChangedStreams, Works
  <2> HIDE DEF c, d, y
  <2>9. y1 = [doc |-> d, fresh |-> x.fresh + 1, issued |-> Append(x.issued, n), code |-> x.code]
    BY <2>2, <2>6, <2>7
  <2>10. y = [doc |-> d, fresh |-> x.fresh + 1, issued |-> Append(x.issued, n), code |-> x.code]
    BY <1>3, <2>8 DEF Works
  <2> QED
    BY <2>9, <2>10
<1> HIDE DEF streams, objects, y1
<1>6. /\ Works(y) /\ Fields(y.doc) /\ y.fresh = x.fresh + 1 /\ y.issued = Append(x.issued, n)
      /\ y.doc.nodes = x.doc.nodes /\ y.doc.objects = objects /\ y.doc.streams = streams
      /\ y.doc.groups = x.doc.groups /\ y.doc.subsystems = x.doc.subsystems
      /\ y.doc.settings = x.doc.settings /\ y.doc.next = n + 1
  BY <1>3, ChangesStreams
<1> HIDE DEF y
<1>7. Works(r) /\ Fields(r.doc)
      /\ (r.code = "OK" => r = y /\ source # target /\ output = "OK" /\ input = "OK")
  <2>1. CASE source = target \/ output # "OK" \/ input # "OK"
    <3>1. \E c : c # "OK" /\ r = Refuse(x, c)
      BY <2>1
    <3> HIDE DEF r
    <3> QED
      BY <1>3, <3>1, Refusing
  <2>2. CASE ~ (source = target \/ output # "OK" \/ input # "OK")
    <3>1. r = y
      BY <1>4, <2>2
    <3> HIDE DEF r
    <3> QED
      BY <1>6, <2>2, <3>1
  <2> QED
    BY <2>1, <2>2
<1> HIDE DEF r
<1>8. /\ DOMAIN streams = DOMAIN w.doc.streams \cup {w.fresh} /\ Maps(streams)
      /\ DOMAIN objects = DOMAIN w.doc.objects \cup {w.fresh} /\ Maps(objects)
      /\ streams[w.fresh] = Link(source, out, target, in)
      /\ w.fresh \notin DOMAIN w.doc.nodes \cup DOMAIN w.doc.streams
      /\ \A s \in DOMAIN w.doc.streams : streams[s] = w.doc.streams[s]
  BY <1>2 DEF streams, objects, With, Maps, Recovery, WorkInv, Issued
<1>9. ASSUME r.code = "OK"
      PROVE  /\ {source, target} \subseteq DOMAIN w.doc.nodes /\ Or0(out) = out /\ Or0(in) = in
             /\ out \in 0 .. OutPorts[w.doc.nodes[source].model] - 1
             /\ in \in 0 .. InPorts[w.doc.nodes[target].model] - 1
             /\ \A s \in DOMAIN w.doc.streams :
                   /\ <<w.doc.streams[s].source, Or0(w.doc.streams[s].out)>> # <<source, out>>
                   /\ <<w.doc.streams[s].target, Or0(w.doc.streams[s].in)>> # <<target, in>>
  <2>1. x.doc.nodes = w.doc.nodes /\ x.doc.streams = w.doc.streams
    BY <1>2 DEF Recovery
  <2>2. UnitsFit(x.doc) /\ IsFiniteSet(DOMAIN x.doc.streams)
    BY <2>1, IdsFinite DEF WorkInv, Sound, UnitsFit
  <2>3. PortVerdict(x.doc, source, out, "out") = "OK" /\ PortVerdict(x.doc, target, in, "in") = "OK"
    BY <1>7, <1>9 DEF output, input
  <2>4. /\ source \in DOMAIN x.doc.nodes /\ Or0(out) = out
        /\ out \in 0 .. OutPorts[x.doc.nodes[source].model] - 1
        /\ \A s \in DOMAIN x.doc.streams : <<x.doc.streams[s].source, Or0(x.doc.streams[s].out)>> # <<source, out>>
    BY <2>2, <2>3, PortTaken
  <2>5. /\ target \in DOMAIN x.doc.nodes /\ Or0(in) = in
        /\ in \in 0 .. InPorts[x.doc.nodes[target].model] - 1
        /\ \A s \in DOMAIN x.doc.streams : <<x.doc.streams[s].target, Or0(x.doc.streams[s].in)>> # <<target, in>>
    BY <2>2, <2>3, PortTaken
  <2> QED
    BY <2>1, <2>4, <2>5
<1>10. ASSUME r.code = "OK" PROVE Inner(w, y)
  <2>0. y.doc.nodes = w.doc.nodes /\ y.doc.streams = streams /\ y.doc.objects = objects
    BY <1>2, <1>6 DEF Recovery
  <2>1. UnitsFit(y.doc)
    BY <2>0 DEF WorkInv, Sound, UnitsFit
  <2>2. /\ streams[w.fresh].source = source /\ streams[w.fresh].out = out
        /\ streams[w.fresh].target = target /\ streams[w.fresh].in = in
    BY <1>8 DEF Link
  <2>3. ASSUME Fitting PROVE StreamsFit(y.doc)
    <3>1. ASSUME NEW s \in DOMAIN w.doc.streams
          PROVE  /\ {streams[s].source, streams[s].target} \subseteq DOMAIN w.doc.nodes
                 /\ Or0(streams[s].out) \in 0 .. OutPorts[w.doc.nodes[streams[s].source].model] - 1
                 /\ Or0(streams[s].in) \in 0 .. InPorts[w.doc.nodes[streams[s].target].model] - 1
      <4>1. streams[s] = w.doc.streams[s] /\ StreamsFit(w.doc)
        BY <1>8, <2>3 DEF WorkInv, Wiring, Wired
      <4> QED
        BY <4>1, Zenon DEF StreamsFit
    <3>2. /\ {streams[w.fresh].source, streams[w.fresh].target} \subseteq DOMAIN w.doc.nodes
          /\ Or0(streams[w.fresh].out) \in 0 .. OutPorts[w.doc.nodes[streams[w.fresh].source].model] - 1
          /\ Or0(streams[w.fresh].in) \in 0 .. InPorts[w.doc.nodes[streams[w.fresh].target].model] - 1
      BY <1>9, <1>10, <2>2
    <3>3. \A s \in DOMAIN streams :
             /\ {streams[s].source, streams[s].target} \subseteq DOMAIN w.doc.nodes
             /\ Or0(streams[s].out) \in 0 .. OutPorts[w.doc.nodes[streams[s].source].model] - 1
             /\ Or0(streams[s].in) \in 0 .. InPorts[w.doc.nodes[streams[s].target].model] - 1
      BY <1>8, <3>1, <3>2
    <3> QED
      BY <2>0, <3>3, Zenon DEF StreamsFit
  <2>4. ASSUME Fitting PROVE PortsFree(y.doc)
    <3>1. PortsFree(w.doc)
      BY <2>4 DEF WorkInv, Wiring, Wired
    <3>2. \A s \in DOMAIN w.doc.streams :
             /\ <<streams[s].source, Or0(streams[s].out)>> # <<source, out>>
             /\ <<streams[s].target, Or0(streams[s].in)>> # <<target, in>>
      BY <1>8, <1>9, <1>10
    <3>3. Or0(streams[w.fresh].out) = out /\ Or0(streams[w.fresh].in) = in
      BY <1>9, <1>10, <2>2
    <3> QED
      BY <1>8, <2>0, <2>2, <3>1, <3>2, <3>3 DEF PortsFree
  <2>5. NumbersRise(y)
    BY <1>5, <1>6
  <2>6. /\ Maps(y.doc.nodes) /\ Maps(y.doc.streams) /\ Maps(y.doc.objects)
        /\ Maps(y.doc.groups) /\ Maps(y.doc.subsystems) /\ IsSettings(y.doc.settings)
    BY <1>2, <1>6, <1>8, RecoveredHas
  <2>7. Wiring(y.doc)
    <3>1. PortsNamed(y.doc)
      <4>1. Or0(streams[w.fresh].out) \in Nat /\ Or0(streams[w.fresh].in) \in Nat
        BY <1>9, <1>10, <2>2
      <4>2. \A s \in DOMAIN w.doc.streams : Or0(streams[s].out) \in Nat /\ Or0(streams[s].in) \in Nat
        BY <1>8 DEF WorkInv, Sound, PortsNamed
      <4> QED
        BY <1>8, <2>0, <4>1, <4>2 DEF PortsNamed
    <3>2. ASSUME Fitting PROVE InputsFit(y.doc)
      BY <2>0, <3>2 DEF WorkInv, Wiring, Wired, InputsFit
    <3> QED
      BY <2>3, <2>4, <3>1, <3>2 DEF Wiring, Wired
  <2> QED
    BY <1>3, <1>6, <1>8, <2>0, <2>1, <2>5, <2>6, <2>7 DEF Inner, WorkInv, Sound, Issued
<1>11. Keeps(w, e)
  BY <1>1, <1>7, <1>10, EditKeeps
<1>12. ASSUME e.code = "OK"
       PROVE  /\ r.code = "OK" /\ e.fresh = w.fresh + 1
              /\ e.doc.streams = streams /\ e.doc.nodes = w.doc.nodes
              /\ e.doc.settings = w.doc.settings /\ e.doc.objects = objects
              /\ DOMAIN e.doc.shown = DOMAIN objects
  <2>1. /\ r.code = "OK" /\ e.fresh = r.fresh
        /\ e.doc.nodes = r.doc.nodes /\ e.doc.streams = r.doc.streams /\ e.doc.objects = r.doc.objects
        /\ e.doc.settings = r.doc.settings /\ DOMAIN e.doc.shown = DOMAIN r.doc.objects
    BY <1>1, <1>7, <1>12, EditIs
  <2> QED
    BY <1>2, <1>3, <1>6, <1>7, <2>1 DEF Recovery
<1>13. streams = With(w.doc.streams, w.fresh, Link(source, out, target, in))
       /\ objects = With(w.doc.objects, w.fresh, NewObject(Tag("S", n), 0))
  BY <1>2 DEF streams, objects, Recovery
<1> HIDE DEF e
<1>14. ASSUME e.code = "OK"
       PROVE  /\ source # target /\ e.fresh = w.fresh + 1
              /\ Or0(out) = out /\ Or0(in) = in
              /\ e.doc.streams = With(w.doc.streams, w.fresh, Link(source, out, target, in))
              /\ e.doc.nodes = w.doc.nodes /\ e.doc.settings = w.doc.settings
              /\ \E tag : e.doc.objects = With(w.doc.objects, w.fresh, NewObject(tag, 0))
              /\ DOMAIN e.doc.shown = DOMAIN w.doc.objects \cup {w.fresh}
  BY <1>7, <1>8, <1>9, <1>12, <1>13, <1>14
<1> QED
  BY <1>11, <1>14 DEF e, Joining

\* All that removing objects changes.
Removed(x, gone, rest) ==
    [x EXCEPT !.doc = [MembersWithout(x.doc, gone) EXCEPT
        !.nodes = Without(@, gone), !.streams = Without(@, gone), !.objects = rest]]

\* So are objects gone, from groups and subsystems too.
LEMMA Removes ==
    ASSUME NEW x, NEW gone, NEW rest, Works(x), Fields(x.doc)
    PROVE  LET y == Removed(x, gone, rest) IN
           /\ Works(y) /\ Fields(y.doc) /\ y.fresh = x.fresh /\ y.issued = x.issued /\ y.code = x.code
           /\ y.doc.nodes = Without(x.doc.nodes, gone) /\ y.doc.streams = Without(x.doc.streams, gone)
           /\ y.doc.objects = rest /\ Maps(y.doc.groups) /\ Maps(y.doc.subsystems)
           /\ y.doc.settings = x.doc.settings /\ y.doc.next = x.doc.next
<1> DEFINE groups == [g \in DOMAIN x.doc.groups |-> x.doc.groups[g] \ gone]
           subsystems == [s \in DOMAIN x.doc.subsystems |-> x.doc.subsystems[s] \ gone]
           c == MembersWithout(x.doc, gone)
           nodes == Without(x.doc.nodes, gone)
           streams == Without(x.doc.streams, gone)
           d == [c EXCEPT !.nodes = nodes, !.streams = streams, !.objects = rest]
           y == Removed(x, gone, rest)
<1>1. Maps(groups) /\ Maps(subsystems)
  BY DEF Maps
<1>2. c = [x.doc EXCEPT !.groups = groups, !.subsystems = subsystems]
  BY DEF MembersWithout, Fields
<1> HIDE DEF c, groups, subsystems
<1>3. /\ Fields(c) /\ c.nodes = x.doc.nodes /\ c.streams = x.doc.streams /\ c.settings = x.doc.settings
      /\ c.groups = groups /\ c.subsystems = subsystems /\ c.next = x.doc.next
  BY <1>2 DEF Fields
<1>4. [c EXCEPT !.nodes = Without(@, gone), !.streams = Without(@, gone), !.objects = rest] = d
  BY <1>3 DEF Fields
<1>5. y = [x EXCEPT !.doc = d]
  BY <1>4 DEF Removed, c
<1>6. d = [c EXCEPT !.nodes = nodes, !.streams = streams, !.objects = rest]
  OBVIOUS
<1> HIDE DEF d, y, nodes, streams
<1>7. /\ Fields(d) /\ d.nodes = nodes /\ d.streams = streams /\ d.objects = rest
      /\ d.groups = groups /\ d.subsystems = subsystems /\ d.settings = x.doc.settings /\ d.next = x.doc.next
  BY <1>3, <1>6 DEF Fields
<1>8. Works(y) /\ y.doc = d /\ y.fresh = x.fresh /\ y.issued = x.issued /\ y.code = x.code
  BY <1>5 DEF Works
<1> QED
  BY <1>1, <1>7, <1>8 DEF nodes, streams, y

\* What removing objects leaves.
Leaving(w, e, ids, gone) ==
    /\ Keeps(w, e)
    /\ e.code = "OK" =>
         /\ e.fresh = w.fresh /\ ids \subseteq DOMAIN w.doc.objects
         /\ e.doc.nodes = Without(w.doc.nodes, gone) /\ e.doc.streams = Without(w.doc.streams, gone)
         /\ DOMAIN e.doc.objects = DOMAIN w.doc.objects \ gone
         /\ e.doc.settings = w.doc.settings

\* Removing objects removes the streams attached to them, which leaves every stream its ends.
LEMMA RemoveObjectsKeeps ==
    ASSUME NEW w, NEW ids, NEW confirmed, WorkInv(w)
    PROVE  Leaving(w, RemoveObjects(w, ids, confirmed), ids, ids \cup Attached(w.doc, ids))
<1> DEFINE x == [w EXCEPT !.doc = RecoverPresentation(@)]
           gone == ids \cup Attached(x.doc, ids)
           rest == [i \in DOMAIN x.doc.objects \ gone |->
                       IF x.doc.objects[i].parent \in gone THEN Unlinked(x.doc.objects[i]) ELSE x.doc.objects[i]]
           y == Removed(x, gone, rest)
           open == Attached(x.doc, ids) # {} /\ ~confirmed
           r == CASE ~(ids \subseteq DOMAIN x.doc.objects) -> Refuse(x, "NOT_FOUND")
                  [] open -> Refuse(x, "CONNECTED_DELETE")
                  [] OTHER -> y
           e == RemoveObjects(w, ids, confirmed)
<1>1. e = Settled(w, r)
  BY DEF RemoveObjects, Edit, Removed
<1>2. Recovery(w, x)
  BY RecoveredWork
<1>3. gone = ids \cup Attached(w.doc, ids)
  BY <1>2 DEF Recovery, Attached
<1>4. Maps(rest) /\ DOMAIN rest = DOMAIN x.doc.objects \ gone
  BY DEF Maps
<1> HIDE DEF x, rest, open
<1>5. Works(x) /\ Fields(x.doc) /\ x.fresh = w.fresh
  BY <1>2 DEF Recovery
<1>6. \A s \in DOMAIN x.doc.streams \ gone :
         \A i \in {x.doc.streams[s].source, x.doc.streams[s].target} : i \in DOMAIN x.doc.nodes => i \notin gone
  <2>1. \A s \in DOMAIN x.doc.streams \ gone :
           x.doc.streams[s].source \notin ids /\ x.doc.streams[s].target \notin ids
    BY DEF Attached
  <2>2. Attached(x.doc, ids) \cap DOMAIN x.doc.nodes = {}
    BY <1>2 DEF Attached, Recovery, WorkInv, Sound
  <2> QED
    BY <2>1, <2>2
<1> HIDE DEF gone
<1>7. /\ Works(y) /\ Fields(y.doc) /\ y.fresh = x.fresh /\ y.issued = x.issued /\ y.code = x.code
      /\ y.doc.nodes = Without(x.doc.nodes, gone) /\ y.doc.streams = Without(x.doc.streams, gone)
      /\ y.doc.objects = rest /\ Maps(y.doc.groups) /\ Maps(y.doc.subsystems)
      /\ y.doc.settings = x.doc.settings /\ y.doc.next = x.doc.next
  BY <1>5, Removes
<1> HIDE DEF y
<1>8. Works(r) /\ Fields(r.doc) /\ (r.code = "OK" => r = y /\ ids \subseteq DOMAIN x.doc.objects)
  <2>1. CASE ~(ids \subseteq DOMAIN x.doc.objects) \/ open
    <3>1. \E c : c # "OK" /\ r = Refuse(x, c)
      BY <2>1
    <3> HIDE DEF r
    <3> QED
      BY <1>5, <3>1, Refusing
  <2>2. CASE ids \subseteq DOMAIN x.doc.objects /\ ~ open
    <3>1. r = y
      BY <2>2
    <3> HIDE DEF r
    <3> QED
      BY <1>7, <2>2, <3>1
  <2> QED
    BY <2>1, <2>2
<1> HIDE DEF r, e
<1>9. /\ DOMAIN y.doc.nodes = DOMAIN w.doc.nodes \ gone /\ Maps(y.doc.nodes)
      /\ DOMAIN y.doc.streams = DOMAIN w.doc.streams \ gone /\ Maps(y.doc.streams)
      /\ \A i \in DOMAIN y.doc.nodes : y.doc.nodes[i] = w.doc.nodes[i]
      /\ \A s \in DOMAIN y.doc.streams : y.doc.streams[s] = w.doc.streams[s]
  BY <1>2, <1>7 DEF Recovery, Without, Maps
<1>10. Inner(w, y)
  <2>1. UnitsFit(y.doc)
    BY <1>9 DEF WorkInv, Sound, UnitsFit
  <2>2. Wiring(y.doc)
    <3>1. Wiring(w.doc)
      BY DEF WorkInv
    <3>2. \A s \in DOMAIN y.doc.streams :
             /\ y.doc.streams[s] = w.doc.streams[s]
             /\ \A i \in {w.doc.streams[s].source, w.doc.streams[s].target} :
                   i \in DOMAIN w.doc.nodes => i \in DOMAIN y.doc.nodes /\ y.doc.nodes[i].model = w.doc.nodes[i].model
      BY <1>2, <1>6, <1>9, SMTT(30) DEF Recovery
    <3>3. ASSUME Fitting PROVE InputsFit(y.doc)
      <4>1. InputsFit(w.doc)
        BY <3>1, <3>3 DEF Wiring, Wired
      <4> QED
        BY <1>9, <4>1 DEF InputsFit
    <3>4. DOMAIN y.doc.streams \subseteq DOMAIN w.doc.streams
      BY <1>9
    <3> QED
      BY <3>1, <3>2, <3>3, <3>4, StreamsStay
  <2>3. NumbersRise(y)
    BY <1>2, <1>7, RecoveredHas DEF NumbersRise
  <2>4. Maps(y.doc.objects) /\ IsSettings(y.doc.settings)
    BY <1>2, <1>4, <1>7, RecoveredHas
  <2>5. DOMAIN y.doc.objects \subseteq DOMAIN w.doc.objects /\ y.fresh = w.fresh
    BY <1>2, <1>4, <1>5, <1>7 DEF Recovery
  <2> QED
    BY <1>7, <1>9, <2>1, <2>2, <2>3, <2>4, <2>5 DEF Inner, WorkInv, Sound, Issued
<1>11. Keeps(w, e)
  BY <1>1, <1>8, <1>10, EditKeeps
<1>12. ASSUME e.code = "OK"
       PROVE  /\ ids \subseteq DOMAIN w.doc.objects /\ e.fresh = w.fresh
              /\ e.doc.nodes = Without(w.doc.nodes, gone) /\ e.doc.streams = Without(w.doc.streams, gone)
              /\ DOMAIN e.doc.objects = DOMAIN w.doc.objects \ gone
              /\ e.doc.settings = w.doc.settings
  <2>1. /\ r = y /\ e.fresh = r.fresh /\ ids \subseteq DOMAIN x.doc.objects
        /\ e.doc.nodes = r.doc.nodes /\ e.doc.streams = r.doc.streams /\ e.doc.objects = r.doc.objects
        /\ e.doc.settings = r.doc.settings
    BY <1>1, <1>8, <1>12, EditIs
  <2> QED
    BY <1>2, <1>4, <1>7, <2>1 DEF Recovery
<1> QED
  BY <1>3, <1>11, <1>12 DEF e, Leaving

-------------------------------------------------------------------------------
(* Splitting a stream *)

\* Only what is shown is not as it must be for the browser format.
LEMMA SameShape ==
    ASSUME NEW w, NEW v, WorkInv(w), Works(v), Fields(v.doc),
           v.doc.nodes = w.doc.nodes, v.doc.streams = w.doc.streams, v.doc.groups = w.doc.groups,
           v.doc.subsystems = w.doc.subsystems, v.doc.settings = w.doc.settings,
           v.doc.shown = w.doc.shown, v.doc.next = w.doc.next, v.issued = w.issued,
           v.fresh = w.fresh, Maps(v.doc.objects), DOMAIN v.doc.objects = DOMAIN w.doc.objects
    PROVE  WorkInv(v)
<1>1. UnitsFit(v.doc) /\ PortsNamed(v.doc) /\ Labelling(v.doc)
  BY DEF WorkInv, Sound, UnitsFit, PortsNamed, Labelling, ShownFits
<1>2. Wiring(v.doc)
  BY WiringSame DEF WorkInv
<1>3. Issued(v)
  BY DEF WorkInv, Issued, NumbersRise
<1> QED
  BY <1>1, <1>2, <1>3 DEF WorkInv, Sound

\* What the composition keeps between its edits.
Composes(w, e) ==
    /\ WorkInv(e) /\ e.fresh >= w.fresh
    /\ e.code = "OK" => w.code = "OK" /\ DOMAIN e.doc.shown \subseteq DOMAIN e.doc.objects

\* Linking a branch to its parent.
LEMMA LinkedIs ==
    ASSUME NEW w, NEW id, NEW parent, NEW suffix, WorkInv(w)
    PROVE  LET v == Linked(w, id, parent, suffix) IN
           WorkInv(v) /\ v.fresh = w.fresh /\ v.code = w.code /\ v.doc.shown = w.doc.shown
           /\ DOMAIN v.doc.objects = DOMAIN w.doc.objects
<1> DEFINE o == [w.doc.objects EXCEPT ![id].parent = parent, ![id].suffix = suffix]
           d == [w.doc EXCEPT !.objects = o]
           v == [w EXCEPT !.doc = d]
<1>0. Works(w) /\ Fields(w.doc)
  BY DEF WorkInv, Sound
<1>1. Linked(w, id, parent, suffix) = v
  <2> DEFINE p == [w.doc.objects EXCEPT ![id].parent = parent]
             c == [w.doc EXCEPT !.objects = p]
             u == [w EXCEPT !.doc = c]
  <2>1. [w EXCEPT !.doc.objects[id].parent = parent] = u
    BY <1>0 DEF Works, Fields
  <2>2. Linked(w, id, parent, suffix) = [u EXCEPT !.doc.objects[id].suffix = suffix]
    BY <2>1, Zenon DEF Linked
  <2>3. o = [p EXCEPT ![id].suffix = suffix]
    OBVIOUS
  <2> HIDE DEF p, o
  <2>4. c.objects = p /\ Fields(c)
    BY <1>0 DEF Fields
  <2>8. [c EXCEPT !.objects = o] = d
    BY <1>0 DEF Fields
  <2>5. u.doc = c /\ Works(u)
    BY <1>0 DEF Works
  <2>6. [u EXCEPT !.doc.objects[id].suffix = suffix] = [u EXCEPT !.doc = [c EXCEPT !.objects = o]]
    BY <2>3, <2>4, <2>5 DEF Works, Fields
  <2>7. [u EXCEPT !.doc = d] = v
    BY <1>0 DEF Works
  <2> QED
    BY <2>2, <2>4, <2>6, <2>7, <2>8
<1>2. Maps(o) /\ DOMAIN o = DOMAIN w.doc.objects
  BY DEF Maps
<1> HIDE DEF o
<1>3. d = [w.doc EXCEPT !.objects = o] /\ v = [w EXCEPT !.doc = d]
  OBVIOUS
<1> HIDE DEF d, v
<1>4. /\ Fields(d) /\ d.nodes = w.doc.nodes /\ d.streams = w.doc.streams /\ d.groups = w.doc.groups
      /\ d.subsystems = w.doc.subsystems /\ d.settings = w.doc.settings /\ d.objects = o
      /\ d.shown = w.doc.shown /\ d.next = w.doc.next
  BY <1>0, <1>3 DEF Fields
<1>5. Works(v) /\ v.doc = d /\ v.fresh = w.fresh /\ v.issued = w.issued /\ v.code = w.code
  BY <1>0, <1>3 DEF Works
<1>6. WorkInv(v)
  BY <1>2, <1>4, <1>5, SameShape
<1> QED
  BY <1>1, <1>2, <1>4, <1>5, <1>6

\* A branch of a split, connected, named and linked.
LEMMA BranchComposes ==
    ASSUME NEW w, NEW splitter, NEW suffix, NEW target, NEW in \in Nat, NEW parent, NEW tag, WorkInv(w)
    PROVE  Composes(w, Branch(w, splitter, suffix, target, in, parent, tag))
<1> DEFINE connected == ConnectPorts(w, splitter, BranchOutlet(suffix), target, in)
           id == Newest(connected)
           named == RenameObject(connected, id, Suffixed(tag, suffix), FALSE, TRUE)
           linked == Linked(named, id, parent, suffix)
           e == Branch(w, splitter, suffix, target, in, parent, tag)
<1>1. e = IF connected.code # "OK" \/ w.doc.settings.branchNames # "suffix" THEN connected
          ELSE IF named.code # "OK" THEN named ELSE linked
  BY DEF Branch
<1>2. BranchOutlet(suffix) \in Nat
  BY DEF BranchOutlet
<1>3. Keeps(w, connected)
  BY <1>2, ConnectPortsKeeps DEF Joining
<1> HIDE DEF connected
<1>4. Keeps(connected, named)
  BY <1>3, RenameObjectKeeps DEF Keeps, Renaming
<1> HIDE DEF named
<1>5. /\ WorkInv(linked) /\ linked.fresh = named.fresh /\ linked.code = named.code
      /\ linked.doc.shown = named.doc.shown /\ DOMAIN linked.doc.objects = DOMAIN named.doc.objects
  BY <1>4, LinkedIs DEF Keeps
<1> HIDE DEF linked, e
<1>6. w.fresh \in Nat /\ connected.fresh \in Nat /\ named.fresh \in Nat
  BY <1>3, <1>4 DEF Keeps, WorkInv, Issued
<1>7. Composes(w, connected)
  BY <1>3 DEF Composes, Keeps, Full
<1>8. Composes(w, named)
  BY <1>3, <1>4, <1>6 DEF Composes, Keeps, Full
<1>9. Composes(w, linked)
  BY <1>5, <1>8 DEF Composes
<1> QED
  BY <1>1, <1>7, <1>8, <1>9 DEF e

\* Objects of which one takes another identity.
Renamed(f, old, new) == [i \in Renumbered(DOMAIN f, old, new) |-> IF i = new THEN f[old] ELSE f[i]]
Identified(f, g, old, new) ==
    /\ DOMAIN g = (DOMAIN f \ {old}) \cup {new} /\ Maps(g)
    /\ \A i \in DOMAIN g : g[i] = f[IF i = new THEN old ELSE i]

\* What becomes of objects when one takes another identity.
LEMMA Renames ==
    ASSUME NEW f, NEW old, NEW new, old \in DOMAIN f, new \notin DOMAIN f
    PROVE  Identified(f, Renamed(f, old, new), old, new)
<1> DEFINE g == Renamed(f, old, new)
<1>1. DOMAIN g = Renumbered(DOMAIN f, old, new) /\ Maps(g)
  BY DEF Renamed, Maps
<1>2. Renumbered(DOMAIN f, old, new) = (DOMAIN f \ {old}) \cup {new}
  BY DEF Renumbered
<1>3. \A i \in DOMAIN g : g[i] = IF i = new THEN f[old] ELSE f[i]
  BY <1>1 DEF Renamed
<1> HIDE DEF g
<1> QED
  BY <1>1, <1>2, <1>3 DEF g, Identified

\* An object takes an identity that nothing in the document has.
LEMMA IdentityTaken ==
    ASSUME NEW w, NEW old, NEW new, new \in 1 .. w.fresh - 1, WorkInv(w),
           old \in DOMAIN w.doc.streams, old \in DOMAIN w.doc.objects,
           new \notin DOMAIN w.doc.objects, new \notin DOMAIN w.doc.shown,
           new \notin DOMAIN w.doc.streams, new \notin DOMAIN w.doc.nodes
    PROVE  LET v == [w EXCEPT !.doc = TakeIdentity(@, old, new)] IN
           WorkInv(v) /\ v.fresh = w.fresh /\ v.code = w.code
<1> DEFINE streams == Renamed(w.doc.streams, old, new)
           objects == Renamed(w.doc.objects, old, new)
           d == TakeIdentity(w.doc, old, new)
           v == [w EXCEPT !.doc = d]
           from(i) == IF i = new THEN old ELSE i
<1>0. Works(w) /\ Fields(w.doc)
  BY DEF WorkInv, Sound
<1>a. Identified(w.doc.streams, streams, old, new) /\ Identified(w.doc.objects, objects, old, new)
  BY Renames, Zenon
<1>1. /\ DOMAIN streams = (DOMAIN w.doc.streams \ {old}) \cup {new} /\ Maps(streams)
      /\ \A s \in DOMAIN streams : streams[s] = w.doc.streams[from(s)]
  BY <1>a DEF Identified
<1>2. DOMAIN objects = (DOMAIN w.doc.objects \ {old}) \cup {new} /\ Maps(objects)
  BY <1>a DEF Identified
<1>3. d = [w.doc EXCEPT !.streams = streams, !.objects = objects]
  BY <1>0 DEF TakeIdentity, Renamed, Fields
<1>4. v = [w EXCEPT !.doc = d] /\ [w EXCEPT !.doc = TakeIdentity(@, old, new)] = v
  BY <1>0 DEF Works
<1> HIDE DEF streams, objects, d, v
<1>5. /\ Fields(d) /\ d.nodes = w.doc.nodes /\ d.streams = streams /\ d.objects = objects /\ d.groups = w.doc.groups
      /\ d.subsystems = w.doc.subsystems /\ d.settings = w.doc.settings
      /\ d.shown = w.doc.shown /\ d.next = w.doc.next
  BY <1>0, <1>3 DEF Fields
<1>6. Works(v) /\ v.doc = d /\ v.fresh = w.fresh /\ v.issued = w.issued /\ v.code = w.code
  BY <1>0, <1>4 DEF Works
<1>7. UnitsFit(d) /\ PortsNamed(d) /\ Labelling(d)
  <2>1. UnitsFit(d) /\ PortsNamed(d)
    BY <1>1, <1>5 DEF WorkInv, Sound, UnitsFit, PortsNamed
  <2> QED
    BY <1>1, <1>5, <2>1 DEF WorkInv, Labelling, ShownFits
<1>8. ASSUME Fitting PROVE StreamsFit(d)
  <2>1. StreamsFit(w.doc)
    BY <1>8 DEF WorkInv, Wiring, Wired
  <2>2. ASSUME NEW s \in DOMAIN streams
        PROVE  /\ {streams[s].source, streams[s].target} \subseteq DOMAIN w.doc.nodes
               /\ Or0(streams[s].out) \in 0 .. OutPorts[w.doc.nodes[streams[s].source].model] - 1
               /\ Or0(streams[s].in) \in 0 .. InPorts[w.doc.nodes[streams[s].target].model] - 1
    <3> DEFINE t == from(s)
    <3>1. t \in DOMAIN w.doc.streams /\ streams[s] = w.doc.streams[t]
      BY <1>1
    <3> HIDE DEF t
    <3> QED
      BY <2>1, <3>1, Zenon DEF StreamsFit
  <2> QED
    BY <1>5, <2>2, Zenon DEF StreamsFit
<1>9. ASSUME Fitting PROVE PortsFree(d)
  <2>1. PortsFree(w.doc)
    BY <1>9 DEF WorkInv, Wiring, Wired
  <2>2. \A s, t \in DOMAIN streams : s # t =>
           from(s) # from(t) /\ from(s) \in DOMAIN w.doc.streams /\ from(t) \in DOMAIN w.doc.streams
    BY <1>1
  <2> HIDE DEF from
  <2> QED
    BY <1>1, <1>5, <2>1, <2>2 DEF PortsFree
<1>10. Issued(v)
  <2>1. NumbersRise(v)
    BY <1>5, <1>6 DEF WorkInv, Issued, NumbersRise
  <2> QED
    BY <1>1, <1>2, <1>5, <1>6, <2>1 DEF WorkInv, Issued
<1>11. DOMAIN d.nodes \cap DOMAIN d.streams = {}
  BY <1>1, <1>5 DEF WorkInv, Sound
<1>12. Sound(d)
  BY <1>1, <1>2, <1>5, <1>7, <1>11 DEF WorkInv, Sound
<1>13. Wiring(d)
  <2>1. ASSUME Fitting PROVE InputsFit(d)
    BY <1>5, <2>1 DEF WorkInv, Wiring, Wired, InputsFit
  <2> QED
    BY <1>7, <1>8, <1>9, <2>1 DEF Wiring, Wired
<1> QED
  BY <1>4, <1>6, <1>7, <1>10, <1>12, <1>13 DEF WorkInv

\* A split keeps what an edit keeps, although it goes through documents in between.
LEMMA SplitKeeps ==
    ASSUME NEW w, NEW id, NEW target, NEW in \in Nat, WorkInv(w)
    PROVE  Keeps(w, Split(w, id, target, in))
<1> DEFINE stream == w.doc.streams[id]
           tag == w.doc.objects[id].tag
           removed == RemoveObjects(w, {id}, TRUE)
           added == AddEquipment(removed, "splitter", 0)
           splitter == Newest(added)
           upstream == ConnectPorts(added, stream.source, Or0(stream.out), splitter, 0)
           renamed == RenameObject(upstream, Newest(upstream), tag, FALSE, TRUE)
           taken == [renamed EXCEPT !.doc = TakeIdentity(@, Newest(upstream), id)]
           kept == IF renamed.code # "OK" THEN renamed ELSE taken
           first == Branch(kept, splitter, "(a)", stream.target, Or0(stream.in), id, tag)
           second == Branch(first, splitter, "(b)", target, in, id, tag)
           verdict == Check(second.doc)
           e == Split(w, id, target, in)
<1>0. e = CASE id \notin DOMAIN w.doc.streams -> Refuse(w, "NOT_FOUND")
            [] second.code # "OK" -> Refuse(w, second.code)
            [] verdict # "OK" -> Refuse(w, verdict)
            [] OTHER -> second
  BY DEF Split
<1>1. ASSUME NEW c, c # "OK" PROVE Keeps(w, Refuse(w, c))
  <2>1. Works(w) /\ Fields(w.doc)
    BY DEF WorkInv, Sound
  <2>2. /\ Works(Refuse(w, c)) /\ Refuse(w, c).code = c /\ Refuse(w, c).doc = w.doc
        /\ Refuse(w, c).fresh = w.fresh /\ Refuse(w, c).issued = w.issued
    BY <2>1 DEF Works, Refuse
  <2>3. WorkInv(Refuse(w, c))
    BY <2>2 DEF WorkInv, Issued, NumbersRise
  <2>4. w.fresh \in Nat
    BY DEF WorkInv, Issued
  <2> QED
    BY <1>1, <2>2, <2>3, <2>4 DEF Keeps
<1>2. ASSUME id \in DOMAIN w.doc.streams
      PROVE  Composes(w, second)
  <2>1. Or0(stream.out) \in Nat /\ Or0(stream.in) \in Nat
    BY <1>2 DEF WorkInv, Sound, PortsNamed
  <2>2. id \notin DOMAIN w.doc.nodes /\ id \in 1 .. w.fresh - 1
    BY <1>2 DEF WorkInv, Sound, Issued
  <2>3. /\ Keeps(w, removed)
        /\ removed.code = "OK" =>
             /\ removed.fresh = w.fresh /\ id \notin DOMAIN removed.doc.objects
             /\ id \notin DOMAIN removed.doc.nodes /\ id \notin DOMAIN removed.doc.streams
    <3>1. Leaving(w, removed, {id}, {id} \cup Attached(w.doc, {id}))
      BY RemoveObjectsKeeps, Zenon
    <3> HIDE DEF removed
    <3> QED
      BY <3>1 DEF Without, Leaving
  <2> HIDE DEF removed
  <2>4. /\ Keeps(removed, added)
        /\ added.code = "OK" =>
             /\ removed.code = "OK" /\ added.fresh = removed.fresh + 1 /\ added.doc.streams = removed.doc.streams
             /\ DOMAIN added.doc.nodes = DOMAIN removed.doc.nodes \cup {removed.fresh}
             /\ DOMAIN added.doc.objects = DOMAIN removed.doc.objects \cup {removed.fresh}
    <3>1. WorkInv(removed)
      BY <2>3 DEF Keeps
    <3>2. Adding(removed, added, "splitter", 0)
      BY <3>1, AddEquipmentKeeps, Zenon
    <3> HIDE DEF added
    <3> QED
      BY <3>2 DEF With, Keeps, Adding
  <2> HIDE DEF added
  <2>5. /\ Keeps(added, upstream)
        /\ upstream.code = "OK" =>
             /\ added.code = "OK" /\ upstream.fresh = added.fresh + 1 /\ upstream.doc.nodes = added.doc.nodes
             /\ DOMAIN upstream.doc.streams = DOMAIN added.doc.streams \cup {added.fresh}
             /\ DOMAIN upstream.doc.objects = DOMAIN added.doc.objects \cup {added.fresh}
    <3>1. WorkInv(added) /\ 0 \in Nat
      BY <2>4 DEF Keeps
    <3>2. Joining(added, upstream, stream.source, Or0(stream.out), splitter, 0)
      BY <2>1, <3>1, ConnectPortsKeeps, Zenon
    <3> HIDE DEF upstream
    <3> QED
      BY <3>2 DEF Joining, With, Keeps
  <2> HIDE DEF upstream, splitter
  <2>6. /\ Keeps(upstream, renamed)
        /\ renamed.code = "OK" =>
             /\ upstream.code = "OK" /\ renamed.fresh = upstream.fresh
             /\ renamed.doc.nodes = upstream.doc.nodes /\ renamed.doc.streams = upstream.doc.streams
             /\ DOMAIN renamed.doc.objects = DOMAIN upstream.doc.objects
             /\ DOMAIN renamed.doc.shown = DOMAIN upstream.doc.objects
    <3>1. WorkInv(upstream)
      BY <2>5 DEF Keeps
    <3>2. Renaming(upstream, renamed)
      BY <3>1, RenameObjectKeeps, Zenon
    <3> HIDE DEF renamed
    <3> QED
      BY <3>2 DEF Keeps, Renaming
  <2> HIDE DEF renamed
  <2>7. /\ w.fresh \in Nat /\ removed.fresh \in Nat /\ added.fresh \in Nat /\ upstream.fresh \in Nat
        /\ renamed.fresh \in Nat /\ renamed.fresh >= w.fresh
    BY <2>3, <2>4, <2>5, <2>6 DEF Keeps, WorkInv, Issued
  <2>8. WorkInv(kept) /\ kept.fresh = renamed.fresh /\ (kept.code = "OK" => w.code = "OK")
    <3>1. CASE renamed.code # "OK"
      BY <2>6, <3>1 DEF Keeps
    <3>2. CASE renamed.code = "OK"
      <4> DEFINE old == Newest(upstream)
      <4>1. old = added.fresh /\ added.fresh = w.fresh + 1 /\ renamed.fresh = w.fresh + 2
        BY <2>3, <2>4, <2>5, <2>6, <2>7, <3>2 DEF Newest
      <4>2. old \in DOMAIN renamed.doc.streams /\ old \in DOMAIN renamed.doc.objects
        BY <2>5, <2>6, <3>2, <4>1
      <4>3. /\ id # w.fresh /\ id # w.fresh + 1 /\ id \in 1 .. renamed.fresh - 1
        BY <2>2, <2>7, <4>1
      <4>4. /\ id \notin DOMAIN renamed.doc.objects /\ id \notin DOMAIN renamed.doc.shown
            /\ id \notin DOMAIN renamed.doc.streams /\ id \notin DOMAIN renamed.doc.nodes
        BY <2>3, <2>4, <2>5, <2>6, <3>2, <4>1, <4>3
      <4> HIDE DEF old
      <4>5. WorkInv(renamed)
        BY <2>6 DEF Keeps
      <4>6. WorkInv(taken) /\ taken.fresh = renamed.fresh /\ taken.code = renamed.code
        BY <4>2, <4>3, <4>4, <4>5, IdentityTaken DEF old
      <4> QED
        BY <2>3, <2>4, <2>5, <2>6, <3>2, <4>6 DEF Keeps
    <3> QED
      BY <3>1, <3>2
  <2> HIDE DEF kept
  <2>9. Composes(kept, first)
    BY <2>1, <2>8, BranchComposes
  <2> HIDE DEF first
  <2>10. Composes(first, second)
    BY <2>9, BranchComposes DEF Composes
  <2> HIDE DEF second
  <2>11. kept.fresh \in Nat /\ first.fresh \in Nat /\ second.fresh \in Nat
    BY <2>8, <2>9, <2>10 DEF Composes, WorkInv, Issued
  <2> QED
    BY <2>7, <2>8, <2>9, <2>10, <2>11 DEF Composes
<1> HIDE DEF second, verdict, e
<1>3. CASE id \notin DOMAIN w.doc.streams \/ second.code # "OK" \/ verdict # "OK"
  <2>1. \E c : c # "OK" /\ e = Refuse(w, c)
    BY <1>0, <1>3
  <2> QED
    BY <1>1, <2>1 DEF e
<1>4. CASE id \in DOMAIN w.doc.streams /\ second.code = "OK" /\ verdict = "OK"
  <2>1. e = second
    BY <1>0, <1>4
  <2>2. Full(second.doc)
    BY <1>2, <1>4 DEF verdict, Full, Composes
  <2> QED
    BY <1>2, <1>4, <2>1, <2>2 DEF Keeps, Composes, e
<1> QED
  BY <1>3, <1>4
-------------------------------------------------------------------------------
(* Sets of numbers and their order *)

\* A finite set of numbers that is not empty has a largest.
LEMMA LargestNumber ==
    ASSUME NEW S \in SUBSET Nat, IsFiniteSet(S), S # {}
    PROVE  Max(S) \in S /\ \A n \in S : n <= Max(S)
<1> DEFINE Top(T) == \E m \in T : \A n \in T : n <= m
           Bad == {k \in Nat : \E T \in SUBSET S : T # {} /\ Cardinality(T) = k /\ ~ Top(T)}
<1>0. \A T \in SUBSET S : IsFiniteSet(T) /\ Cardinality(T) \in Nat
  BY FS_Subset, FS_CardinalityType
<1>1. Bad = {}
  <2>1. SUFFICES ASSUME Bad # {} PROVE FALSE
    OBVIOUS
  <2>2. PICK k \in Bad : \A j \in Bad : k <= j
    <3> HIDE DEF Bad
    <3>1. Bad \in SUBSET Nat
      BY DEF Bad
    <3> QED
      BY <2>1, <3>1, SmallestNumber
  <2>3. PICK T \in SUBSET S : T # {} /\ Cardinality(T) = k /\ ~ Top(T)
    BY <2>2
  <2>4. PICK c \in T : TRUE
    BY <2>3
  <2>5. Cardinality(T \ {c}) = k - 1 /\ k - 1 \in Nat /\ k - 1 \notin Bad
    <3>1. Cardinality(T \ {c}) = Cardinality(T) - 1
      BY <1>0, FS_RemoveElement
    <3>2. Cardinality(T \ {c}) \in Nat /\ k \in Nat
      BY <1>0, <2>2
    <3>3. k - 1 \in Nat /\ ~ (k <= k - 1)
      BY <2>3, <3>1, <3>2
    <3> HIDE DEF Bad
    <3> QED
      BY <2>2, <2>3, <3>1, <3>3
  <2>6. T \ {c} = {} \/ Top(T \ {c})
    <3> HIDE DEF Top
    <3> QED
      BY <2>5
  <2>7. CASE T \ {c} = {}
    <3>1. \A n \in T : n = c /\ n \in Nat
      BY <2>7
    <3>2. Top(T)
      BY <2>4, <3>1
    <3> QED
      BY <2>3, <3>2
  <2>8. CASE Top(T \ {c})
    <3>1. PICK m \in T \ {c} : \A n \in T \ {c} : n <= m
      BY <2>8
    <3>2. \A n \in T : n \in Nat
      OBVIOUS
    <3>3. CASE c <= m
      <4>1. \A n \in T : n <= m
        BY <3>1, <3>2, <3>3
      <4> QED
        BY <2>3, <3>1, <4>1
    <3>4. CASE ~ (c <= m)
      <4>1. \A n \in T : n <= c
        BY <3>1, <3>2, <3>4
      <4> QED
        BY <2>3, <2>4, <4>1
    <3> QED
      BY <3>3, <3>4
  <2> QED
    BY <2>6, <2>7, <2>8
<1>2. Top(S)
  <2> HIDE DEF Top
  <2> QED
    BY <1>0, <1>1
<1>3. PICK m \in S : \A n \in S : n <= m
  BY <1>2
<1>4. \A n \in S : m >= n
  BY <1>3
<1>5. Max(S) \in S /\ \A n \in S : Max(S) >= n
  BY <1>4 DEF Max
<1> QED
  BY <1>5

\* The equation of the identities in order, up to a number.
UpTo(ids, upTo, n) ==
    IF n = 0 THEN << >> ELSE IF n \in ids THEN Append(upTo[n - 1], n) ELSE upTo[n - 1]
Ascending(ids, k, upTo) == upTo = [n \in 0 .. k |-> UpTo(ids, upTo, n)]

\* The equation has a solution.
LEMMA AscendingExists ==
    ASSUME NEW ids, NEW k \in Nat
    PROVE  \E g : Ascending(ids, k, g)
<1> DEFINE Bad == {n \in Nat : ~ \E g : Ascending(ids, n, g)}
<1>1. SUFFICES Bad = {}
  OBVIOUS
<1>2. SUFFICES ASSUME Bad # {} PROVE FALSE
  OBVIOUS
<1>3. PICK n \in Bad : \A m \in Bad : n <= m
  <2> HIDE DEF Bad
  <2>1. Bad \in SUBSET Nat
    BY DEF Bad
  <2> QED
    BY <1>2, <2>1, SmallestNumber
<1>4. CASE n = 0
  <2> DEFINE g == [m \in 0 .. 0 |-> << >>]
  <2>1. g = [m \in 0 .. 0 |-> UpTo(ids, g, m)]
    BY DEF UpTo
  <2> HIDE DEF g
  <2> QED
    BY <1>3, <1>4, <2>1 DEF Ascending
<1>5. CASE n # 0
  <2>1. n - 1 \in Nat /\ ~ (n <= n - 1)
    BY <1>3, <1>5
  <2>2. n - 1 \notin Bad
    <3> HIDE DEF Bad
    <3> QED
      BY <1>3, <2>1
  <2>3. PICK f : Ascending(ids, n - 1, f)
    BY <2>1, <2>2
  <2> DEFINE g == [m \in 0 .. n |-> IF m = n THEN UpTo(ids, f, n) ELSE f[m]]
  <2>4. ASSUME NEW m \in 0 .. n PROVE g[m] = UpTo(ids, g, m)
    <3>1. CASE m = n
      <4>1. g[n - 1] = f[n - 1] /\ g[n] = UpTo(ids, f, n)
        BY <2>1
      <4> HIDE DEF g
      <4> QED
        BY <1>5, <3>1, <4>1 DEF UpTo
    <3>2. CASE m # n
      <4>1. m \in 0 .. n - 1 /\ g[m] = f[m]
        BY <1>3, <3>2
      <4>2. f[m] = UpTo(ids, f, m)
        BY <2>3, <4>1 DEF Ascending
      <4>3. m # 0 => m - 1 \in 0 .. n /\ m - 1 # n
        BY <1>3, <4>1
      <4>4. m # 0 => g[m - 1] = f[m - 1]
        BY <4>3
      <4> HIDE DEF g
      <4> QED
        BY <4>1, <4>2, <4>4 DEF UpTo
    <3> QED
      BY <3>1, <3>2
  <2>5. g = [m \in 0 .. n |-> UpTo(ids, g, m)]
    BY <2>4
  <2> HIDE DEF g
  <2>6. Ascending(ids, n, g)
    BY <2>5 DEF Ascending
  <2> QED
    BY <1>3, <2>6
<1> QED
  BY <1>4, <1>5

\* The identities in order are a sequence of them, and as many.
LEMMA Ordered ==
    ASSUME NEW ids, IsFiniteSet(ids), ids \subseteq Nat \ {0}
    PROVE  InOrder(ids) \in Seq(ids) /\ Len(InOrder(ids)) = Cardinality(ids)
<1> DEFINE k == Max(ids \cup {0})
           upTo == CHOOSE g : Ascending(ids, k, g)
           Part(n) == ids \cap 1 .. n
           Right(n) == upTo[n] \in Seq(Part(n)) /\ Len(upTo[n]) = Cardinality(Part(n))
           Bad == {n \in 0 .. k : ~ Right(n)}
<1>1. k \in Nat /\ \A n \in ids : n <= k
  <2>1. IsFiniteSet(ids \cup {0})
    BY FS_AddElement
  <2>2. ids \cup {0} \in SUBSET Nat
    OBVIOUS
  <2> QED
    BY <2>1, <2>2, LargestNumber
<1>2. InOrder(ids) = upTo[k]
  BY DEF InOrder, Ascending, UpTo
<1> HIDE DEF k
<1>3. Ascending(ids, k, upTo)
  BY <1>1, AscendingExists
<1> HIDE DEF upTo
<1>4. Bad = {}
  <2>1. SUFFICES ASSUME Bad # {} PROVE FALSE
    OBVIOUS
  <2>2. PICK n \in Bad : \A m \in Bad : n <= m
    <3>1. Bad \in SUBSET Nat
      BY <1>1
    <3> HIDE DEF Bad
    <3> QED
      BY <2>1, <3>1, SmallestNumber
  <2>3. n \in 0 .. k /\ upTo[n] = UpTo(ids, upTo, n)
    BY <1>3, <2>2 DEF Ascending
  <2>4. CASE n = 0
    <3>1. upTo[n] = << >> /\ Part(n) = {}
      BY <2>3, <2>4 DEF UpTo
    <3>2. Right(n)
      <4>1. Cardinality(Part(n)) = 0
        BY <3>1, FS_EmptySet
      <4>2. Len(upTo[n]) = 0
        BY <3>1
      <4>3. upTo[n] \in Seq(Part(n))
        <5> HIDE DEF Part
        <5> QED
          BY <3>1
      <4> QED
        BY <4>1, <4>2, <4>3
    <3> QED
      BY <2>2, <3>2
  <2>5. CASE n # 0
    <3>1. n - 1 \in 0 .. k /\ ~ (n <= n - 1)
      BY <1>1, <2>3, <2>5
    <3>2. n - 1 \notin Bad
      <4> HIDE DEF Bad
      <4> QED
        BY <2>2, <3>1
    <3>3. upTo[n - 1] \in Seq(Part(n - 1)) /\ Len(upTo[n - 1]) = Cardinality(Part(n - 1))
      BY <3>1, <3>2
    <3>4. IsFiniteSet(Part(n - 1))
      BY FS_Subset
    <3>5. Part(n) = IF n \in ids THEN Part(n - 1) \cup {n} ELSE Part(n - 1)
      BY <1>1, <2>3, <2>5
    <3>6. n \notin Part(n - 1)
      BY <2>3
    <3> HIDE DEF Part, Bad
    <3>7. CASE n \in ids
      <4>1. Part(n) = Part(n - 1) \cup {n} /\ upTo[n] = Append(upTo[n - 1], n)
        BY <2>3, <2>5, <3>5, <3>7 DEF UpTo
      <4>2. Cardinality(Part(n)) = Cardinality(Part(n - 1)) + 1
        BY <3>4, <3>6, <4>1, FS_AddElement
      <4>3. upTo[n - 1] \in Seq(Part(n)) /\ n \in Part(n)
        BY <3>3, <4>1
      <4>4. upTo[n] \in Seq(Part(n)) /\ Len(upTo[n]) = Len(upTo[n - 1]) + 1
        BY <4>1, <4>3
      <4> QED
        BY <2>2, <3>3, <4>2, <4>4 DEF Bad
    <3>8. CASE n \notin ids
      <4>1. Part(n) = Part(n - 1) /\ upTo[n] = upTo[n - 1]
        BY <2>3, <2>5, <3>5, <3>8 DEF UpTo
      <4> QED
        BY <2>2, <3>3, <4>1 DEF Bad
    <3> QED
      BY <3>7, <3>8
  <2> QED
    BY <2>4, <2>5
<1>5. Right(k)
  <2>1. k \in 0 .. k
    BY <1>1
  <2> HIDE DEF Right
  <2> QED
    BY <1>4, <2>1
<1>6. Part(k) = ids
  <2>1. \A n \in ids : n \in 1 .. k
    BY <1>1
  <2> QED
    BY <2>1
<1> QED
  BY <1>2, <1>5, <1>6
-------------------------------------------------------------------------------
(* Folds: a step for each of several objects, inputs or streams.  "k" says  *)
(* which, as no lemma can have an operator for a parameter.                 *)

\* A document that can be opened, under work.
Good(w) == WorkInv(w) /\ Full(w.doc)
\* What undo and redo keep: documents that can be opened, none with an identity yet to come.
Snapshots(s, n) ==
    /\ s \in Seq(Range(s))
    /\ \A i \in 1 .. Len(s) :
          /\ s[i] = [doc |-> s[i].doc, issued |-> s[i].issued]
          /\ Good(Work(s[i].doc, n, s[i].issued))

\* Which one a fold takes last, one step of it, and what is kept by every step.
FoldPick(k, s) == IF k.kind = "input" THEN CHOOSE x \in s : TRUE ELSE Max(s)
FoldStep(k, i, a) ==
    IF k.kind = "layout"
    THEN [work |-> SetLayout(a.work, {k.ids[i]}, k.layouts[k.ids[i]]),
          before |-> Append(a.before, [doc |-> a.work.doc, issued |-> a.work.issued])]
    ELSE IF k.kind = "input" THEN ConfigureInput(a, k.unit, i, k.texts[i])
    ELSE IF k.kind = "unit" THEN PasteUnit(a, k.ids[i], k.source, k.reset)
    ELSE PasteStream(a, k.ids[i], k.source)
FoldGood(k, a) ==
    IF k.kind = "layout"
    THEN /\ Good(a.work) /\ a.work.fresh >= k.fresh
         /\ Snapshots(a.before, a.work.fresh)
    ELSE IF k.kind = "input" THEN Good(a) /\ a.fresh >= k.fresh
    ELSE /\ a = [work |-> a.work, copies |-> a.copies]
         /\ Good(a.work) /\ a.work.fresh >= k.fresh

\* The equation of a fold over sets.
FoldOf(k, S, base, g, s) ==
    IF s = {} THEN base ELSE FoldStep(k, FoldPick(k, s), g[s \ {FoldPick(k, s)}])
Folding(k, S, base, g) == g = [s \in SUBSET S |-> FoldOf(k, S, base, g, s)]
Picks(k, S) == \A s \in SUBSET S : s # {} => FoldPick(k, s) \in s

\* A fold is well defined.
LEMMA FoldExists ==
    ASSUME NEW k, NEW S, NEW base, IsFiniteSet(S), Picks(k, S)
    PROVE  \E g : Folding(k, S, base, g)
<1> DEFINE Small(n) == {s \in SUBSET S : Cardinality(s) <= n}
           Has(n) == \E g : g = [s \in Small(n) |-> FoldOf(k, S, base, g, s)]
           Bad == {n \in Nat : ~ Has(n)}
<1>0. \A s \in SUBSET S : IsFiniteSet(s) /\ Cardinality(s) \in Nat /\ Cardinality(s) <= Cardinality(S)
  BY FS_Subset, FS_CardinalityType
<1>1. Has(Cardinality(S))
  <2>1. SUFFICES ASSUME Bad # {} PROVE FALSE
    BY <1>0
  <2>2. PICK n \in Bad : \A m \in Bad : n <= m
    <3> HIDE DEF Bad
    <3>1. Bad \in SUBSET Nat
      BY DEF Bad
    <3> QED
      BY <2>1, <3>1, SmallestNumber
  <2>3. \A s \in SUBSET S : s # {} =>
           FoldPick(k, s) \in s /\ Cardinality(s \ {FoldPick(k, s)}) = Cardinality(s) - 1
    <3>1. SUFFICES ASSUME NEW s \in SUBSET S, s # {}
                   PROVE  \A c \in s : Cardinality(s \ {c}) = Cardinality(s) - 1
      BY DEF Picks
    <3> QED
      BY <1>0, FS_RemoveElement
  <2>4. CASE n = 0
    <3> DEFINE g == [s \in Small(0) |-> base]
    <3>1. \A s \in Small(0) : s = {}
      BY <1>0, FS_EmptySet
    <3>2. g = [s \in Small(0) |-> FoldOf(k, S, base, g, s)]
      BY <3>1 DEF FoldOf
    <3> HIDE DEF g
    <3> QED
      BY <2>2, <2>4, <3>2
  <2>5. CASE n # 0
    <3>1. n - 1 \in Nat /\ Has(n - 1)
      <4>1. n - 1 \in Nat /\ ~ (n <= n - 1)
        BY <2>2, <2>5
      <4> HIDE DEF Has
      <4> QED
        BY <2>2, <4>1
    <3>2. PICK f : f = [s \in Small(n - 1) |-> FoldOf(k, S, base, f, s)]
      BY <3>1
    <3> DEFINE g == [s \in Small(n) |-> IF s \in Small(n - 1) THEN f[s] ELSE FoldOf(k, S, base, f, s)]
    <3>3. ASSUME NEW s \in Small(n) PROVE g[s] = FoldOf(k, S, base, g, s)
      <4>1. g[s] = FoldOf(k, S, base, f, s)
        BY <3>2
      <4>2. CASE s = {}
        BY <4>1, <4>2 DEF FoldOf
      <4>3. CASE s # {}
        <5> DEFINE r == s \ {FoldPick(k, s)}
        <5>1. r \in Small(n - 1) /\ r \in Small(n)
          BY <1>0, <2>2, <2>3, <4>3
        <5>2. g[r] = f[r]
          BY <5>1
        <5> QED
          BY <4>1, <4>3, <5>2 DEF FoldOf
      <4> QED
        BY <4>2, <4>3
    <3>4. g = [s \in Small(n) |-> FoldOf(k, S, base, g, s)]
      BY <3>3
    <3> HIDE DEF g
    <3> QED
      BY <2>2, <3>4
  <2> QED
    BY <2>2, <2>4, <2>5
<1>2. Small(Cardinality(S)) = SUBSET S
  BY <1>0
<1> QED
  BY <1>1, <1>2 DEF Folding

\* A fold keeps what each of its steps keeps.
LEMMA FoldKeeps ==
    ASSUME NEW k, NEW S, NEW base, NEW g, IsFiniteSet(S), Picks(k, S), Folding(k, S, base, g),
           FoldGood(k, base), \A i \in S : \A a : FoldGood(k, a) => FoldGood(k, FoldStep(k, i, a))
    PROVE  FoldGood(k, g[S])
<1> DEFINE Bad == {n \in Nat : \E s \in SUBSET S : Cardinality(s) = n /\ ~ FoldGood(k, g[s])}
<1>0. \A s \in SUBSET S : IsFiniteSet(s) /\ Cardinality(s) \in Nat
  BY FS_Subset, FS_CardinalityType
<1>1. Bad = {}
  <2>1. SUFFICES ASSUME Bad # {} PROVE FALSE
    OBVIOUS
  <2>2. PICK n \in Bad : \A m \in Bad : n <= m
    <3> HIDE DEF Bad
    <3>1. Bad \in SUBSET Nat
      BY DEF Bad
    <3> QED
      BY <2>1, <3>1, SmallestNumber
  <2>3. PICK s \in SUBSET S : Cardinality(s) = n /\ ~ FoldGood(k, g[s])
    BY <2>2
  <2>4. g[s] = FoldOf(k, S, base, g, s)
    BY DEF Folding
  <2>5. s # {}
    BY <2>3, <2>4 DEF FoldOf
  <2> DEFINE i == FoldPick(k, s)
             r == s \ {i}
  <2>6. i \in s /\ r \in SUBSET S
    BY <2>5 DEF Picks
  <2>7. g[s] = FoldStep(k, i, g[r])
    BY <2>4, <2>5 DEF FoldOf
  <2> HIDE DEF i
  <2>8. Cardinality(r) = n - 1 /\ Cardinality(r) \in Nat /\ n \in Nat
    BY <1>0, <2>3, <2>6, FS_RemoveElement
  <2>9. Cardinality(r) \notin Bad
    <3>1. ~ (n <= Cardinality(r))
      BY <2>8
    <3> HIDE DEF Bad
    <3> QED
      BY <2>2, <3>1
  <2>10. FoldGood(k, g[r])
    BY <2>6, <2>8, <2>9
  <2> QED
    BY <2>3, <2>6, <2>7, <2>10
<1> QED
  BY <1>0, <1>1

\* What an edit keeps.
LEMMA StaysGood ==
    ASSUME NEW w, NEW e, Good(w), Keeps(w, e)
    PROVE  Good(e) /\ e.fresh >= w.fresh
BY DEF Good, Keeps

\* Identities may be handed out meanwhile.
LEMMA GoodGrows ==
    ASSUME NEW w, NEW n \in Nat, Good(w), n >= w.fresh
    PROVE  Good(Work(w.doc, n, w.issued))
<1> DEFINE v == Work(w.doc, n, w.issued)
<1>1. v.doc = w.doc /\ v.fresh = n /\ v.issued = w.issued /\ Works(v)
  BY DEF Work, Works
<1> HIDE DEF v
<1>2. Issued(v)
  <2>1. w.fresh \in Nat /\ 1 .. w.fresh - 1 \subseteq 1 .. n - 1
    BY DEF Good, WorkInv, Issued
  <2>2. NumbersRise(v)
    BY <1>1 DEF Good, WorkInv, Issued, NumbersRise
  <2> QED
    BY <1>1, <2>1, <2>2 DEF Good, WorkInv, Issued
<1> QED
  BY <1>1, <1>2 DEF Good, WorkInv, v

\* A sequence is one of its elements.
LEMMA InSequence ==
    ASSUME NEW S, NEW s \in Seq(S)
    PROVE  s \in Seq(Range(s))
<1>1. Len(s) \in Nat /\ DOMAIN s = 1 .. Len(s) /\ s = [i \in 1 .. Len(s) |-> s[i]]
  OBVIOUS
<1>2. \A i \in 1 .. Len(s) : s[i] \in Range(s)
  BY <1>1 DEF Range
<1> QED
  BY <1>1, <1>2

\* Snapshots stay good when identities are handed out.
LEMMA SnapshotsGrow ==
    ASSUME NEW s, NEW m \in Nat, NEW n \in Nat, Snapshots(s, m), m <= n
    PROVE  Snapshots(s, n)
<1>1. ASSUME NEW i \in 1 .. Len(s) PROVE Good(Work(s[i].doc, n, s[i].issued))
  <2> DEFINE w == Work(s[i].doc, m, s[i].issued)
  <2>1. Good(w) /\ w.fresh = m /\ w.doc = s[i].doc /\ w.issued = s[i].issued
    BY DEF Snapshots, Work
  <2> HIDE DEF w
  <2>2. n >= w.fresh
    BY <2>1
  <2>3. Good(Work(w.doc, n, w.issued))
    BY <2>1, <2>2, GoodGrows
  <2> QED
    BY <2>1, <2>3
<1> QED
  BY <1>1 DEF Snapshots

\* What is pushed is good.
LEMMA SnapshotsJoin ==
    ASSUME NEW s, NEW t, NEW n, Snapshots(s, n), Snapshots(t, n)
    PROVE  Snapshots(s \o t, n)
<1> DEFINE S == Range(s) \cup Range(t)
           u == s \o t
<1>1. s \in Seq(S) /\ t \in Seq(S)
  BY DEF Snapshots
<1> HIDE DEF S
<1>2. u \in Seq(S) /\ Len(u) = Len(s) + Len(t) /\ Len(s) \in Nat /\ Len(t) \in Nat
  BY <1>1
<1>3. \A i \in 1 .. Len(u) : u[i] = IF i <= Len(s) THEN s[i] ELSE t[i - Len(s)]
  BY <1>1
<1> HIDE DEF u
<1>4. \A i \in 1 .. Len(u) : i \in 1 .. Len(s) \/ (~ (i <= Len(s)) /\ i - Len(s) \in 1 .. Len(t))
  BY <1>2
<1>5. \A i \in 1 .. Len(u) : (\E j \in 1 .. Len(s) : u[i] = s[j]) \/ (\E j \in 1 .. Len(t) : u[i] = t[j])
  BY <1>3, <1>4
<1>6. \A i \in 1 .. Len(u) : /\ u[i] = [doc |-> u[i].doc, issued |-> u[i].issued]
                            /\ Good(Work(u[i].doc, n, u[i].issued))
  BY <1>5 DEF Snapshots
<1>7. u \in Seq(Range(u))
  BY <1>2, InSequence
<1> QED
  BY <1>6, <1>7 DEF Snapshots, u

\* One snapshot.
LEMMA SnapshotTaken ==
    ASSUME NEW d, NEW is, NEW n, Good(Work(d, n, is))
    PROVE  Snapshots(<<[doc |-> d, issued |-> is]>>, n)
<1> DEFINE x == [doc |-> d, issued |-> is]
           s == <<x>>
<1>1. x = [doc |-> x.doc, issued |-> x.issued] /\ x.doc = d /\ x.issued = is
  OBVIOUS
<1> HIDE DEF x
<1>2. s \in Seq({x}) /\ Len(s) = 1 /\ s[1] = x
  OBVIOUS
<1> HIDE DEF s
<1>3. s \in Seq(Range(s))
  BY <1>2, InSequence
<1>4. \A i \in 1 .. Len(s) : s[i] = x
  BY <1>2
<1>5. Snapshots(s, n)
  BY <1>1, <1>3, <1>4 DEF Snapshots
<1> QED
  BY <1>5 DEF s, x

\* A snapshot more.
LEMMA SnapshotPushed ==
    ASSUME NEW s, NEW d, NEW is, NEW n, Snapshots(s, n), Good(Work(d, n, is))
    PROVE  Snapshots(Append(s, [doc |-> d, issued |-> is]), n)
<1> DEFINE x == [doc |-> d, issued |-> is]
<1>1. Snapshots(s \o <<x>>, n)
  BY SnapshotTaken, SnapshotsJoin
<1>2. s \in Seq(Range(s))
  BY DEF Snapshots
<1> HIDE DEF x
<1>3. s \o <<x>> = Append(s, x)
  <2>1. s \in Seq(Range(s) \cup {x}) /\ x \in Range(s) \cup {x}
    BY <1>2
  <2> QED
    BY <2>1
<1> QED
  BY <1>1, <1>3 DEF x

\* What undo and redo restore, and what is left.
LEMMA SnapshotPopped ==
    ASSUME NEW s, NEW n, Snapshots(s, n), s # << >>
    PROVE  /\ Snapshots(Front(s), n)
           /\ Last(s) = [doc |-> Last(s).doc, issued |-> Last(s).issued]
           /\ Good(Work(Last(s).doc, n, Last(s).issued))
<1>1. s \in Seq(Range(s)) /\ Len(s) \in Nat /\ Len(s) # 0
  BY DEF Snapshots
<1>2. Last(s) = s[Len(s)] /\ Len(s) \in 1 .. Len(s)
  BY <1>1 DEF Last
<1>3. Front(s) = SubSeq(s, 1, Len(s) - 1)
  BY DEF Front
<1> DEFINE f == Front(s)
<1>4. f \in Seq(Range(s)) /\ Len(f) = Len(s) - 1 /\ \A i \in 1 .. Len(f) : f[i] = s[i] /\ i \in 1 .. Len(s)
  <2>1. \A S : \A q \in Seq(S) : \A m \in 0 .. Len(q) :
           /\ SubSeq(q, 1, m) \in Seq(S) /\ Len(SubSeq(q, 1, m)) = m
           /\ \A i \in 1 .. m : SubSeq(q, 1, m)[i] = q[i]
    OBVIOUS
  <2>2. Len(s) - 1 \in 0 .. Len(s)
    BY <1>1
  <2> DEFINE m == Len(s) - 1
  <2>3. /\ SubSeq(s, 1, m) \in Seq(Range(s)) /\ Len(SubSeq(s, 1, m)) = m
        /\ \A i \in 1 .. m : SubSeq(s, 1, m)[i] = s[i]
    <3> HIDE DEF m
    <3> QED
      BY <1>1, <2>1, <2>2, Zenon DEF m
  <2>4. \A i \in 1 .. m : i \in 1 .. Len(s)
    BY <1>1
  <2> QED
    BY <1>3, <2>3, <2>4
<1> HIDE DEF f
<1>5. f \in Seq(Range(f))
  BY <1>4, InSequence
<1>6. Snapshots(f, n)
  BY <1>4, <1>5 DEF Snapshots
<1> QED
  BY <1>2, <1>6 DEF Snapshots, f

\* Choosing the last of a sequence of steps.
LEMMA PicksLast ==
    ASSUME NEW k, NEW n \in Nat, k.kind # "input"
    PROVE  IsFiniteSet(1 .. n) /\ Picks(k, 1 .. n)
<1>1. IsFiniteSet(1 .. n)
  <2>1. 1 \in Int /\ n \in Int
    OBVIOUS
  <2> QED
    BY <2>1, FS_Interval
<1>2. ASSUME NEW s \in SUBSET (1 .. n), s # {} PROVE Max(s) \in s
  <2>1. IsFiniteSet(s)
    BY <1>1, FS_Subset, Zenon
  <2>2. s \in SUBSET Nat
    OBVIOUS
  <2> QED
    BY <1>2, <2>1, <2>2, LargestNumber
<1> QED
  BY <1>1, <1>2 DEF Picks, FoldPick

\* Pasting the inputs of a unit.
LEMMA InputsKeep ==
    ASSUME NEW w, NEW unit, NEW texts, NEW names, IsFiniteSet(names), Good(w)
    PROVE  Good(PasteInputs(w, unit, texts, names)) /\ PasteInputs(w, unit, texts, names).fresh >= w.fresh
<1> DEFINE k == [kind |-> "input", unit |-> unit, texts |-> texts, fresh |-> w.fresh]
           pick(s) == CHOOSE x \in s : TRUE
           h == CHOOSE g : g = [s \in SUBSET names |->
                    IF s = {} THEN w
                    ELSE ConfigureInput(g[s \ {CHOOSE x \in s : TRUE}], unit,
                                        CHOOSE x \in s : TRUE, texts[CHOOSE x \in s : TRUE])]
<1>1. PasteInputs(w, unit, texts, names) = h[names]
  BY DEF PasteInputs, FoldSet, MapThenFoldSet
<1>2. k.kind = "input" /\ k.unit = unit /\ k.texts = texts /\ k.fresh = w.fresh
  OBVIOUS
<1> HIDE DEF k
<1>3. Picks(k, names) /\ \A s : FoldPick(k, s) = pick(s)
  BY <1>2 DEF Picks, FoldPick
<1>4. PICK g : Folding(k, names, w, g)
  BY <1>3, FoldExists
<1>5. \A s, f : FoldOf(k, names, w, f, s) =
                    IF s = {} THEN w ELSE ConfigureInput(f[s \ {pick(s)}], unit, pick(s), texts[pick(s)])
  BY <1>2, <1>3 DEF FoldOf, FoldStep
<1>6. \E f : f = [s \in SUBSET names |->
                    IF s = {} THEN w
                    ELSE ConfigureInput(f[s \ {CHOOSE x \in s : TRUE}], unit,
                                        CHOOSE x \in s : TRUE, texts[CHOOSE x \in s : TRUE])]
  <2>1. g = [s \in SUBSET names |->
                    IF s = {} THEN w ELSE ConfigureInput(g[s \ {pick(s)}], unit, pick(s), texts[pick(s)])]
    BY <1>4, <1>5 DEF Folding
  <2> QED
    BY <2>1
<1>7. h = [s \in SUBSET names |->
                    IF s = {} THEN w
                    ELSE ConfigureInput(h[s \ {CHOOSE x \in s : TRUE}], unit,
                                        CHOOSE x \in s : TRUE, texts[CHOOSE x \in s : TRUE])]
  BY <1>6
<1> HIDE DEF h
<1>8. Folding(k, names, w, h)
  BY <1>5, <1>7 DEF Folding
<1>9. FoldGood(k, w)
  BY <1>2 DEF FoldGood, Good, WorkInv, Issued
<1>10. ASSUME NEW i \in names, NEW a, FoldGood(k, a) PROVE FoldGood(k, FoldStep(k, i, a))
  <2> DEFINE e == ConfigureInput(a, unit, i, texts[i])
  <2>1. Good(a) /\ a.fresh >= w.fresh /\ FoldStep(k, i, a) = e
    BY <1>2, <1>10 DEF FoldGood, FoldStep
  <2>2. Keeps(a, e)
    BY <2>1, ConfigureInputKeeps DEF Good
  <2> HIDE DEF e
  <2>3. Good(e) /\ e.fresh >= a.fresh
    BY <2>1, <2>2, StaysGood
  <2>4. e.fresh \in Nat /\ a.fresh \in Nat /\ w.fresh \in Nat
    BY <2>1, <2>3 DEF Good, WorkInv, Issued
  <2> QED
    BY <1>2, <2>1, <2>3, <2>4 DEF FoldGood
<1>11. FoldGood(k, h[names])
  BY <1>3, <1>8, <1>9, <1>10, FoldKeeps
<1> QED
  BY <1>1, <1>2, <1>11 DEF FoldGood

\* A layout for each of several objects, with the snapshots before each.
LEMMA LayoutsKeep ==
    ASSUME NEW layouts, IsFiniteSet(DOMAIN layouts), DOMAIN layouts \subseteq Nat \ {0}, Good(Now), fresh \in Nat
    PROVE  LET e == LayoutRun(layouts) IN
           Good(e.work) /\ e.work.fresh >= fresh /\ Snapshots(e.before, e.work.fresh)
<1> DEFINE ids == InOrder(DOMAIN layouts)
           base == [work |-> Now, before |-> << >>]
           k == [kind |-> "layout", ids |-> ids, layouts |-> layouts, fresh |-> fresh]
           D == DOMAIN ids
           h == CHOOSE g : g = [s \in SUBSET D |->
                    IF s = {} THEN base
                    ELSE [work |-> SetLayout(g[s \ {Max(s)}].work, {ids[Max(s)]}, layouts[ids[Max(s)]]),
                          before |-> Append(g[s \ {Max(s)}].before,
                                           [doc |-> g[s \ {Max(s)}].work.doc, issued |-> g[s \ {Max(s)}].work.issued])]]
<1>1. LayoutRun(layouts) = h[D]
  BY DEF LayoutRun, FoldLeft, MapThenFoldSet
<1>2. k.kind = "layout" /\ k.ids = ids /\ k.layouts = layouts /\ k.fresh = fresh
  OBVIOUS
<1>3. ids \in Seq(DOMAIN layouts)
  BY Ordered
<1> HIDE DEF k, ids, base
<1>4. IsFiniteSet(D) /\ Picks(k, D) /\ \A s : FoldPick(k, s) = Max(s)
  <2>1. D = 1 .. Len(ids) /\ Len(ids) \in Nat
    BY <1>3
  <2>2. k.kind # "input"
    BY <1>2
  <2>3. \A s : FoldPick(k, s) = Max(s)
    BY <2>2 DEF FoldPick
  <2> QED
    BY <2>1, <2>2, <2>3, PicksLast
<1> HIDE DEF D
<1>5. PICK g : Folding(k, D, base, g)
  BY <1>4, FoldExists
<1>6. \A s, f : FoldOf(k, D, base, f, s) =
                    IF s = {} THEN base
                    ELSE [work |-> SetLayout(f[s \ {Max(s)}].work, {ids[Max(s)]}, layouts[ids[Max(s)]]),
                          before |-> Append(f[s \ {Max(s)}].before,
                                           [doc |-> f[s \ {Max(s)}].work.doc, issued |-> f[s \ {Max(s)}].work.issued])]
  BY <1>2, <1>4 DEF FoldOf, FoldStep
<1>7. g = [s \in SUBSET D |->
                    IF s = {} THEN base
                    ELSE [work |-> SetLayout(g[s \ {Max(s)}].work, {ids[Max(s)]}, layouts[ids[Max(s)]]),
                          before |-> Append(g[s \ {Max(s)}].before,
                                           [doc |-> g[s \ {Max(s)}].work.doc, issued |-> g[s \ {Max(s)}].work.issued])]]
  BY <1>5, <1>6 DEF Folding
<1>8. h = [s \in SUBSET D |->
                    IF s = {} THEN base
                    ELSE [work |-> SetLayout(h[s \ {Max(s)}].work, {ids[Max(s)]}, layouts[ids[Max(s)]]),
                          before |-> Append(h[s \ {Max(s)}].before,
                                           [doc |-> h[s \ {Max(s)}].work.doc, issued |-> h[s \ {Max(s)}].work.issued])]]
  BY <1>7
<1> HIDE DEF h
<1>9. Folding(k, D, base, h)
  BY <1>6, <1>8 DEF Folding
<1>10. FoldGood(k, base)
  <2>1. base.work = Now /\ base.before = << >>
    BY DEF base
  <2>2. Now.fresh = fresh
    BY DEF Now, Work
  <2>3. << >> \in Seq(Range(<< >>)) /\ Len(<< >>) = 0
    OBVIOUS
  <2>4. Snapshots(<< >>, Now.fresh)
    BY <2>3 DEF Snapshots
  <2> QED
    BY <1>2, <2>1, <2>2, <2>4 DEF FoldGood
<1>11. ASSUME NEW i \in D, NEW a, FoldGood(k, a) PROVE FoldGood(k, FoldStep(k, i, a))
  <2> DEFINE w == a.work
             e == SetLayout(w, {ids[i]}, layouts[ids[i]])
             x == [doc |-> w.doc, issued |-> w.issued]
             r == FoldStep(k, i, a)
  <2>1. Good(w) /\ w.fresh >= fresh /\ Snapshots(a.before, w.fresh)
    BY <1>2, <1>11 DEF FoldGood
  <2>2. r.work = e /\ r.before = Append(a.before, x)
    BY <1>2 DEF FoldStep
  <2> HIDE DEF w
  <2>3. Keeps(w, e)
    BY <2>1, SetLayoutKeeps DEF Good
  <2> HIDE DEF e
  <2>4. Good(e) /\ e.fresh >= w.fresh
    BY <2>1, <2>3, StaysGood
  <2>5. e.fresh \in Nat /\ w.fresh \in Nat
    BY <2>1, <2>4 DEF Good, WorkInv, Issued
  <2>6. Snapshots(a.before, e.fresh)
    BY <2>1, <2>4, <2>5, SnapshotsGrow
  <2>7. Good(Work(w.doc, e.fresh, w.issued))
    BY <2>1, <2>4, <2>5, GoodGrows
  <2>8. Snapshots(Append(a.before, x), e.fresh)
    BY <2>6, <2>7, SnapshotPushed
  <2>9. e.fresh >= fresh
    BY <2>1, <2>4, <2>5
  <2> HIDE DEF r, x
  <2>10. Good(r.work) /\ r.work.fresh >= fresh /\ Snapshots(r.before, r.work.fresh)
    BY <2>2, <2>4, <2>8, <2>9
  <2> QED
    BY <1>2, <2>10 DEF FoldGood, r
<1>12. FoldGood(k, h[D])
  BY <1>4, <1>9, <1>10, <1>11, FoldKeeps
<1> QED
  BY <1>1, <1>2, <1>12 DEF FoldGood

\* What is pasted into.
Pasting(p, n) == p = [work |-> p.work, copies |-> p.copies] /\ Good(p.work) /\ p.work.fresh >= n

\* Pasting one unit.
LEMMA PasteUnitKeeps ==
    ASSUME NEW p, NEW n \in Nat, NEW source, NEW id \in DOMAIN source.nodes, NEW reset, Pasting(p, n), UnitsFit(source)
    PROVE  Pasting(PasteUnit(p, id, source, reset), n)
<1> DEFINE added == AddEquipment(p.work, source.nodes[id].model, source.objects[id].layout)
           texts == source.nodes[id].inputs
           names == IF reset THEN {} ELSE DOMAIN texts
           e == PasteInputs(added, Newest(added), texts, names)
           copies == With(p.copies, id, Newest(added))
<1>1. PasteUnit(p, id, source, reset) = [work |-> e, copies |-> copies]
  BY DEF PasteUnit
<1>2. Good(p.work) /\ p.work.fresh >= n
  BY DEF Pasting
<1>3. Keeps(p.work, added)
  BY <1>2, AddEquipmentKeeps DEF Adding, Good
<1> HIDE DEF added
<1>4. Good(added) /\ added.fresh >= p.work.fresh
  BY <1>2, <1>3, StaysGood
<1>5. IsFiniteSet(names)
  <2>1. IsFiniteSet(DOMAIN texts)
    BY DEF UnitsFit
  <2> HIDE DEF texts
  <2> QED
    BY <2>1, FS_EmptySet
<1> HIDE DEF names, texts, copies
<1>6. Good(e) /\ e.fresh >= added.fresh
  BY <1>4, <1>5, InputsKeep
<1> HIDE DEF e
<1>7. e.fresh \in Nat /\ added.fresh \in Nat /\ p.work.fresh \in Nat
  BY <1>2, <1>4, <1>6 DEF Good, WorkInv, Issued
<1> QED
  BY <1>1, <1>2, <1>4, <1>6, <1>7 DEF Pasting

\* Pasting one stream, if both its ends were pasted.
LEMMA PasteStreamKeeps ==
    ASSUME NEW p, NEW n \in Nat, NEW source, NEW id \in DOMAIN source.streams, Pasting(p, n), PortsNamed(source)
    PROVE  Pasting(PasteStream(p, id, source), n)
<1> DEFINE s == source.streams[id]
           inside == s.source \in DOMAIN p.copies /\ s.target \in DOMAIN p.copies
           e == ConnectPorts(p.work, p.copies[s.source], Or0(s.out), p.copies[s.target], Or0(s.in))
           q == [p EXCEPT !.work = e]
<1>1. PasteStream(p, id, source) = IF inside THEN q ELSE p
  BY DEF PasteStream, Pasting
<1>2. Good(p.work) /\ p.work.fresh >= n /\ p = [work |-> p.work, copies |-> p.copies]
  BY DEF Pasting
<1>3. Or0(s.out) \in Nat /\ Or0(s.in) \in Nat
  BY DEF PortsNamed
<1> HIDE DEF s, inside
<1>4. WorkInv(p.work)
  BY <1>2 DEF Good
<1>5. Keeps(p.work, e)
  BY <1>3, <1>4, ConnectPortsKeeps, Zenon DEF Joining
<1> HIDE DEF e
<1>6. Good(e) /\ e.fresh >= p.work.fresh
  BY <1>2, <1>5, StaysGood
<1>7. e.fresh \in Nat /\ p.work.fresh \in Nat
  BY <1>2, <1>6 DEF Good, WorkInv, Issued
<1>8. q = [work |-> e, copies |-> p.copies]
  BY <1>2
<1>9. Pasting(q, n)
  BY <1>2, <1>6, <1>7, <1>8 DEF Pasting
<1> HIDE DEF q
<1> QED
  BY <1>1, <1>9

\* Pasting several units.
LEMMA PasteUnitsKeep ==
    ASSUME NEW p, NEW n \in Nat, NEW source, NEW ids \in Seq(DOMAIN source.nodes), NEW reset,
           Pasting(p, n), UnitsFit(source)
    PROVE  Pasting(PasteUnits(p, ids, source, reset), n)
<1> DEFINE k == [kind |-> "unit", ids |-> ids, source |-> source, reset |-> reset, fresh |-> n]
           D == DOMAIN ids
           h == CHOOSE g : g = [s \in SUBSET D |->
                    IF s = {} THEN p ELSE PasteUnit(g[s \ {Max(s)}], ids[Max(s)], source, reset)]
<1>1. PasteUnits(p, ids, source, reset) = h[D]
  BY DEF PasteUnits, FoldLeft, MapThenFoldSet
<1>2. k.kind = "unit" /\ k.ids = ids /\ k.source = source /\ k.reset = reset /\ k.fresh = n
  OBVIOUS
<1> HIDE DEF k
<1>3. D = 1 .. Len(ids) /\ Len(ids) \in Nat /\ \A i \in D : ids[i] \in DOMAIN source.nodes
  OBVIOUS
<1>4. IsFiniteSet(D) /\ Picks(k, D) /\ \A s : FoldPick(k, s) = Max(s)
  <2>2. k.kind # "input"
    BY <1>2
  <2>3. \A s : FoldPick(k, s) = Max(s)
    BY <2>2 DEF FoldPick
  <2> QED
    BY <1>3, <2>2, <2>3, PicksLast
<1> HIDE DEF D
<1>5. PICK g : Folding(k, D, p, g)
  BY <1>4, FoldExists
<1>6. \A s, f : FoldOf(k, D, p, f, s) =
                    IF s = {} THEN p ELSE PasteUnit(f[s \ {Max(s)}], ids[Max(s)], source, reset)
  BY <1>2, <1>4 DEF FoldOf, FoldStep
<1>7. g = [s \in SUBSET D |-> IF s = {} THEN p ELSE PasteUnit(g[s \ {Max(s)}], ids[Max(s)], source, reset)]
  BY <1>5, <1>6 DEF Folding
<1>8. h = [s \in SUBSET D |-> IF s = {} THEN p ELSE PasteUnit(h[s \ {Max(s)}], ids[Max(s)], source, reset)]
  BY <1>7
<1> HIDE DEF h
<1>9. Folding(k, D, p, h)
  BY <1>6, <1>8 DEF Folding
<1>10. FoldGood(k, p)
  BY <1>2 DEF FoldGood, Pasting
<1>11. ASSUME NEW i \in D, NEW a, FoldGood(k, a) PROVE FoldGood(k, FoldStep(k, i, a))
  <2> DEFINE id == ids[i]
             e == PasteUnit(a, id, source, reset)
  <2>1. Pasting(a, n) /\ id \in DOMAIN source.nodes /\ FoldStep(k, i, a) = e
    BY <1>2, <1>3, <1>11 DEF FoldGood, FoldStep, Pasting
  <2> HIDE DEF id
  <2>2. Pasting(e, n)
    BY <2>1, PasteUnitKeeps
  <2> HIDE DEF e
  <2> QED
    BY <1>2, <2>1, <2>2 DEF FoldGood, Pasting
<1>12. FoldGood(k, h[D])
  BY <1>4, <1>9, <1>10, <1>11, FoldKeeps
<1> QED
  BY <1>1, <1>2, <1>12 DEF FoldGood, Pasting

\* Pasting several streams.
LEMMA PasteStreamsKeep ==
    ASSUME NEW p, NEW n \in Nat, NEW source, NEW ids \in Seq(DOMAIN source.streams), Pasting(p, n), PortsNamed(source)
    PROVE  Pasting(PasteStreams(p, ids, source), n)
<1> DEFINE k == [kind |-> "stream", ids |-> ids, source |-> source, fresh |-> n]
           D == DOMAIN ids
           h == CHOOSE g : g = [s \in SUBSET D |->
                    IF s = {} THEN p ELSE PasteStream(g[s \ {Max(s)}], ids[Max(s)], source)]
<1>1. PasteStreams(p, ids, source) = h[D]
  BY DEF PasteStreams, FoldLeft, MapThenFoldSet
<1>2. k.kind = "stream" /\ k.ids = ids /\ k.source = source /\ k.fresh = n
  OBVIOUS
<1> HIDE DEF k
<1>3. D = 1 .. Len(ids) /\ Len(ids) \in Nat /\ \A i \in D : ids[i] \in DOMAIN source.streams
  OBVIOUS
<1>4. IsFiniteSet(D) /\ Picks(k, D) /\ \A s : FoldPick(k, s) = Max(s)
  <2>2. k.kind # "input"
    BY <1>2
  <2>3. \A s : FoldPick(k, s) = Max(s)
    BY <2>2 DEF FoldPick
  <2> QED
    BY <1>3, <2>2, <2>3, PicksLast
<1> HIDE DEF D
<1>5. PICK g : Folding(k, D, p, g)
  BY <1>4, FoldExists
<1>6. \A s, f : FoldOf(k, D, p, f, s) = IF s = {} THEN p ELSE PasteStream(f[s \ {Max(s)}], ids[Max(s)], source)
  BY <1>2, <1>4 DEF FoldOf, FoldStep
<1>7. g = [s \in SUBSET D |-> IF s = {} THEN p ELSE PasteStream(g[s \ {Max(s)}], ids[Max(s)], source)]
  BY <1>5, <1>6 DEF Folding
<1>8. h = [s \in SUBSET D |-> IF s = {} THEN p ELSE PasteStream(h[s \ {Max(s)}], ids[Max(s)], source)]
  BY <1>7
<1> HIDE DEF h
<1>9. Folding(k, D, p, h)
  BY <1>6, <1>8 DEF Folding
<1>10. FoldGood(k, p)
  BY <1>2 DEF FoldGood, Pasting
<1>11. ASSUME NEW i \in D, NEW a, FoldGood(k, a) PROVE FoldGood(k, FoldStep(k, i, a))
  <2> DEFINE id == ids[i]
             e == PasteStream(a, id, source)
  <2>1. Pasting(a, n) /\ id \in DOMAIN source.streams /\ FoldStep(k, i, a) = e
    BY <1>2, <1>3, <1>11 DEF FoldGood, FoldStep, Pasting
  <2> HIDE DEF id
  <2>2. Pasting(e, n)
    BY <2>1, PasteStreamKeeps
  <2> HIDE DEF e
  <2> QED
    BY <1>2, <2>1, <2>2 DEF FoldGood, Pasting
<1>12. FoldGood(k, h[D])
  BY <1>4, <1>9, <1>10, <1>11, FoldKeeps
<1> QED
  BY <1>1, <1>2, <1>12 DEF FoldGood, Pasting

\* What the clipboard has.
Clipped(source) ==
    Sound(source) /\ IsFiniteSet(DOMAIN source.objects) /\ DOMAIN source.objects \subseteq Nat \ {0}

\* A paste keeps a good document good, whatever sound document is on the clipboard.
LEMMA PasteEquipmentKeeps ==
    ASSUME NEW w, NEW source, NEW ids, NEW connections, NEW reset, Good(w), Clipped(source)
    PROVE  LET e == PasteEquipment(w, source, ids, connections, reset).work IN
           Good(e) /\ e.fresh >= w.fresh
<1> DEFINE start == [work |-> w, copies |-> << >>]
           order == InOrder(ids \cap DOMAIN source.nodes)
           units == PasteUnits(start, order, source, reset)
           some == IF connections THEN DOMAIN source.streams ELSE {}
           between == InOrder(some)
           all == PasteStreams(units, between, source)
           verdict == Check(source)
<1>1. PasteEquipment(w, source, ids, connections, reset) =
        IF verdict # "OK" THEN [start EXCEPT !.work = Refuse(w, verdict)] ELSE all
  BY DEF PasteEquipment
<1>2. CASE verdict # "OK"
  <2> DEFINE v == Refuse(w, verdict)
  <2>1. v.doc = w.doc /\ v.fresh = w.fresh /\ v.issued = w.issued /\ Works(v)
    BY DEF Refuse, Works, Good, WorkInv
  <2>2. PasteEquipment(w, source, ids, connections, reset).work = v
    BY <1>1, <1>2
  <2> HIDE DEF v
  <2>3. Good(v) /\ v.fresh >= w.fresh
    BY <2>1 DEF Good, WorkInv, Issued, NumbersRise
  <2> QED
    BY <2>2, <2>3
<1>3. CASE verdict = "OK"
  <2>0. w.fresh \in Nat /\ UnitsFit(source) /\ PortsNamed(source)
    BY DEF Good, WorkInv, Issued, Clipped, Sound
  <2>1. DOMAIN source.objects = DOMAIN source.nodes \cup DOMAIN source.streams
    BY <1>3, Checked
  <2>2. order \in Seq(DOMAIN source.nodes)
    <3> DEFINE S == ids \cap DOMAIN source.nodes
    <3>1. S \subseteq DOMAIN source.objects
      BY <2>1
    <3>2. IsFiniteSet(S) /\ S \subseteq Nat \ {0}
      BY <3>1, FS_Subset DEF Clipped
    <3>3. S \subseteq DOMAIN source.nodes
      OBVIOUS
    <3> HIDE DEF S
    <3>4. InOrder(S) \in Seq(S)
      BY <3>2, Ordered
    <3>5. InOrder(S) \in Seq(DOMAIN source.nodes)
      BY <3>3, <3>4
    <3> QED
      BY <3>5 DEF S
  <2>3. between \in Seq(DOMAIN source.streams)
    <3>1. some \subseteq DOMAIN source.objects /\ some \subseteq DOMAIN source.streams
      BY <2>1
    <3> HIDE DEF some
    <3>2. IsFiniteSet(some) /\ some \subseteq Nat \ {0}
      BY <3>1, FS_Subset DEF Clipped
    <3>4. InOrder(some) \in Seq(some)
      BY <3>2, Ordered
    <3> QED
      BY <3>1, <3>4
  <2>4. Pasting(start, w.fresh)
    <3>1. start.work = w /\ start = [work |-> start.work, copies |-> start.copies]
      OBVIOUS
    <3> HIDE DEF start
    <3> QED
      BY <2>0, <3>1 DEF Pasting
  <2> HIDE DEF start, order, between
  <2>5. Pasting(units, w.fresh)
    BY <2>0, <2>2, <2>4, PasteUnitsKeep
  <2> HIDE DEF units
  <2>6. Pasting(all, w.fresh)
    BY <2>0, <2>3, <2>5, PasteStreamsKeep
  <2> HIDE DEF all
  <2> QED
    BY <1>1, <1>3, <2>6 DEF Pasting
<1> QED
  BY <1>2, <1>3

(* The invariant *)

IInv ==
    /\ Good(Now)
    /\ Snapshots(past, fresh) /\ Snapshots(future, fresh)
    /\ canvas \subseteq Ids /\ rows \subseteq 1 .. Cardinality(Ids)
    /\ clipboard = Nobody \/ Clipped(clipboard.source)

\* What the check and the bound on identities say of a good document.
LEMMA GoodHas ==
    ASSUME NEW w, Good(w)
    PROVE  /\ DOMAIN w.doc.nodes \cap DOMAIN w.doc.streams = {}
           /\ DOMAIN w.doc.objects = DOMAIN w.doc.nodes \cup DOMAIN w.doc.streams
           /\ IsFiniteSet(DOMAIN w.doc.objects) /\ DOMAIN w.doc.objects \subseteq Nat \ {0}
           /\ w.fresh \in Nat \ {0} /\ DOMAIN w.doc.objects \subseteq 1 .. w.fresh - 1
<1>1. Check(w.doc) = "OK"
  BY DEF Good, Full
<1>2. /\ DOMAIN w.doc.nodes \cap DOMAIN w.doc.streams = {}
      /\ DOMAIN w.doc.objects = DOMAIN w.doc.nodes \cup DOMAIN w.doc.streams
  BY <1>1, Checked, Zenon
<1>3. w.fresh \in Nat \ {0} /\ DOMAIN w.doc.objects \subseteq 1 .. w.fresh - 1
  BY DEF Good, WorkInv, Issued
<1>4. IsFiniteSet(1 .. w.fresh - 1)
  <2>1. 1 \in Int /\ w.fresh - 1 \in Int
    BY <1>3
  <2> QED
    BY <2>1, FS_Interval, Zenon
<1>5. IsFiniteSet(DOMAIN w.doc.objects)
  BY <1>3, <1>4, FS_Subset
<1> QED
  BY <1>2, <1>3, <1>5

\* The table has a row for every object, those of units first.
LEMMA TableIs ==
    ASSUME NEW w, Good(w)
    PROVE  /\ Table(w.doc) \in Seq(DOMAIN w.doc.objects)
           /\ Len(Table(w.doc)) = Cardinality(DOMAIN w.doc.objects)
           /\ Cardinality(DOMAIN w.doc.objects) \in Nat
           /\ 1 .. Cardinality(DOMAIN w.doc.nodes) \subseteq 1 .. Cardinality(DOMAIN w.doc.objects)
<1> DEFINE A == DOMAIN w.doc.nodes
           B == DOMAIN w.doc.streams
           O == DOMAIN w.doc.objects
<1>1. A \cap B = {} /\ O = A \cup B /\ IsFiniteSet(O) /\ O \subseteq Nat \ {0}
  BY GoodHas
<1>2. Table(w.doc) = InOrder(A) \o InOrder(B)
  BY DEF Table
<1> HIDE DEF A, B, O
<1>3. A \subseteq O /\ B \subseteq O
  BY <1>1
<1>4. IsFiniteSet(A) /\ IsFiniteSet(B)
  BY <1>1, <1>3, FS_Subset
<1>5. A \subseteq Nat \ {0} /\ B \subseteq Nat \ {0}
  BY <1>1, <1>3
<1>6. InOrder(A) \in Seq(A) /\ Len(InOrder(A)) = Cardinality(A)
  BY <1>4, <1>5, Ordered
<1>7. InOrder(B) \in Seq(B) /\ Len(InOrder(B)) = Cardinality(B)
  BY <1>4, <1>5, Ordered
<1>8. Cardinality(O) = Cardinality(A) + Cardinality(B) /\ Cardinality(A) \in Nat /\ Cardinality(B) \in Nat
  <2>1. Cardinality(O) = Cardinality(A) + Cardinality(B) - Cardinality(A \cap B)
    BY <1>1, <1>4, FS_Union
  <2>2. Cardinality(A \cap B) = 0
    BY <1>1, FS_EmptySet
  <2>3. Cardinality(A) \in Nat /\ Cardinality(B) \in Nat
    BY <1>4, FS_CardinalityType
  <2> QED
    BY <2>1, <2>2, <2>3
<1>9. InOrder(A) \in Seq(O) /\ InOrder(B) \in Seq(O)
  BY <1>3, <1>6, <1>7
<1>10. InOrder(A) \o InOrder(B) \in Seq(O) /\ Len(InOrder(A) \o InOrder(B)) = Len(InOrder(A)) + Len(InOrder(B))
  BY <1>9
<1>11. Cardinality(O) \in Nat /\ 1 .. Cardinality(A) \subseteq 1 .. Cardinality(O)
  BY <1>8
<1> QED
  BY <1>2, <1>6, <1>7, <1>8, <1>10, <1>11 DEF A, B, O

\* The rows of a table are objects.
LEMMA ListedIs ==
    ASSUME NEW w, Good(w), NEW selected \in SUBSET (1 .. Cardinality(DOMAIN w.doc.objects))
    PROVE  Listed(w.doc, selected) \subseteq DOMAIN w.doc.objects
<1> DEFINE t == Table(w.doc)
<1>1. t \in Seq(DOMAIN w.doc.objects) /\ Len(t) = Cardinality(DOMAIN w.doc.objects)
  BY TableIs
<1>2. Listed(w.doc, selected) = {t[r] : r \in selected}
  BY DEF Listed
<1> HIDE DEF t
<1>3. \A r \in selected : t[r] \in DOMAIN w.doc.objects
  BY <1>1
<1> QED
  BY <1>2, <1>3

\* What is selected is there.
LEMMA SelectedAreThere ==
    ASSUME IInv
    PROVE  SelectedIds \subseteq Ids
<1>1. Good(Now) /\ Now.doc = doc
  BY DEF IInv, Now, Work
<1>2. Listed(doc, rows) \subseteq Ids
  <2>1. Ids = DOMAIN Now.doc.objects /\ rows \in SUBSET (1 .. Cardinality(DOMAIN Now.doc.objects))
    BY <1>1 DEF IInv, Ids
  <2>2. Listed(Now.doc, rows) \subseteq DOMAIN Now.doc.objects
    BY <1>1, <2>1, ListedIs
  <2> QED
    BY <1>1, <2>1, <2>2
<1> QED
  BY <1>2 DEF SelectedIds, IInv

\* The editor shows a document that is good.
LEMMA ShowKeeps ==
    ASSUME NEW w, NEW selection, Good(w), doc' = w.doc, Show(w.doc, selection)
    PROVE  canvas' \subseteq Ids' /\ rows' \subseteq 1 .. Cardinality(Ids')
<1>1. Ids' = DOMAIN w.doc.objects
  BY DEF Ids
<1>2. 1 .. Cardinality(DOMAIN w.doc.nodes) \subseteq 1 .. Cardinality(DOMAIN w.doc.objects)
  BY TableIs
<1> QED
  BY <1>1, <1>2 DEF Show

\* What is edited is good, and so is what undo restores.
LEMMA EditedKeeps ==
    ASSUME IInv, NEW w, NEW before, NEW selection, NEW command, Edited(w, before, selection, command),
           Good(w), w.fresh >= fresh, Snapshots(before, w.fresh)
    PROVE  IInv'
<1>1. doc' = w.doc /\ fresh' = w.fresh /\ issued' = w.issued /\ w.code = "OK"
  BY DEF Edited, Kept
<1>2. Now' = Work(w.doc, w.fresh, w.issued)
  BY <1>1 DEF Now
<1>3. Work(w.doc, w.fresh, w.issued) = w
  BY <1>1 DEF Good, WorkInv, Works, Work
<1>4. Good(Now')
  BY <1>2, <1>3
<1>5. fresh \in Nat /\ w.fresh \in Nat
  <2>1. Now.fresh \in Nat /\ Now.fresh = fresh
    BY GoodHas DEF IInv, Now, Work
  <2> QED
    BY <2>1, GoodHas
<1>6. Snapshots(past, w.fresh)
  BY <1>5, SnapshotsGrow DEF IInv
<1>7. Snapshots(past', fresh')
  <2>1. past' = past \o before
    BY DEF Edited
  <2> QED
    BY <1>1, <1>6, <2>1, SnapshotsJoin
<1>8. Snapshots(future', fresh')
  <2>1. future' = << >>
    BY DEF Edited
  <2>2. << >> \in Seq(Range(<< >>)) /\ Len(<< >>) = 0
    OBVIOUS
  <2>3. \A n : Snapshots(<< >>, n)
    BY <2>2 DEF Snapshots
  <2> QED
    BY <2>1, <2>3
<1>9. canvas' \subseteq Ids' /\ rows' \subseteq 1 .. Cardinality(Ids')
  BY <1>1, ShowKeeps DEF Edited
<1>10. clipboard' = clipboard
  BY DEF Edited
<1>11. Good(Now)'
  BY <1>4
<1> QED
  BY <1>7, <1>8, <1>9, <1>10, <1>11 DEF IInv

\* One edit of the document that is shown.
LEMMA ApplyKeeps ==
    ASSUME IInv, NEW w, NEW selection, NEW command, Edited(w, <<Snapshot>>, selection, command),
           Good(w), w.fresh >= fresh
    PROVE  IInv'
<1>1. Good(Now) /\ Now.doc = doc /\ Now.issued = issued /\ Now.fresh = fresh
  BY DEF IInv, Now, Work
<1>2. fresh \in Nat /\ w.fresh \in Nat
  BY <1>1, GoodHas
<1>3. Good(Work(Now.doc, w.fresh, Now.issued))
  BY <1>1, <1>2, GoodGrows
<1>4. Snapshots(<<[doc |-> doc, issued |-> issued]>>, w.fresh)
  BY <1>1, <1>3, SnapshotTaken
<1>5. Snapshots(<<Snapshot>>, w.fresh)
  BY <1>4 DEF Snapshot
<1> QED
  BY <1>5, EditedKeeps

\* One edit that keeps what it is made of.
LEMMA KeepingApplies ==
    ASSUME IInv, NEW w, NEW selection, NEW command, Edited(w, <<Snapshot>>, selection, command), Keeps(Now, w)
    PROVE  IInv'
<1>1. Good(Now) /\ Now.fresh = fresh
  BY DEF IInv, Now, Work
<1>2. Good(w) /\ w.fresh >= fresh
  BY <1>1, StaysGood
<1> QED
  BY <1>2, ApplyKeeps

\* The adapter's table of ports agrees with the catalogue: as many, of different names.
LEMMA PortNames ==
    ASSUME NEW m \in Models
    PROVE  /\ m \in DOMAIN InputPorts /\ m \in DOMAIN OutputPorts
           /\ Len(InputPorts[m]) = InPorts[m] /\ Len(OutputPorts[m]) = OutPorts[m]
           /\ InPorts[m] \in 0 .. 2 /\ OutPorts[m] \in 0 .. 2
           /\ \A i, j \in 1 .. InPorts[m] : InputPorts[m][i] = InputPorts[m][j] => i = j
           /\ \A i, j \in 1 .. OutPorts[m] : OutputPorts[m][i] = OutputPorts[m][j] => i = j
<1>1. CASE m = "source"
  BY <1>1 DEF InputPorts, OutputPorts, InPorts, OutPorts, Models
<1>2. CASE m = "sink"
  BY <1>2 DEF InputPorts, OutputPorts, InPorts, OutPorts, Models
<1>3. CASE m = "heater"
  BY <1>3 DEF InputPorts, OutputPorts, InPorts, OutPorts, Models
<1>4. CASE m = "radiator"
  BY <1>4 DEF InputPorts, OutputPorts, InPorts, OutPorts, Models
<1>5. CASE m = "mixer"
  BY <1>5 DEF InputPorts, OutputPorts, InPorts, OutPorts, Models
<1>6. CASE m = "splitter"
  BY <1>6 DEF InputPorts, OutputPorts, InPorts, OutPorts, Models
<1>7. CASE m = "heat_exchanger"
  BY <1>7 DEF InputPorts, OutputPorts, InPorts, OutPorts, Models
<1> QED
  BY <1>1, <1>2, <1>3, <1>4, <1>5, <1>6, <1>7 DEF Models

\* A document that converts has its units, streams and labels fit.
LEMMA ConvertibleFits ==
    ASSUME NEW d, Convertible(d), UnitsFit(d), PortsNamed(d), DOMAIN d.nodes \cap DOMAIN d.streams = {}
    PROVE  Wired(d) /\ ShownFits(d)
<1> DEFINE connections == [s \in DOMAIN d.streams |-> Connection(d, d.streams[s])]
           units == [i \in DOMAIN d.nodes |-> Unit(d, i)]
           bad == \/ \E i \in DOMAIN d.nodes : \E name \in DOMAIN d.nodes[i].inputs : ~Accepts(d.nodes[i].model, name)
                  \/ \E s \in DOMAIN d.streams : ~StreamFits(d, d.streams[s])
           contract == DraftToContract(d)
<1>1. contract = IF bad THEN Refused ELSE [units |-> units, connections |-> connections]
  BY DEF DraftToContract
<1>2. ~ bad
  BY <1>1 DEF Convertible
<1>3. contract.connections = connections
  <2>1. contract = [units |-> units, connections |-> connections]
    BY <1>1, <1>2
  <2> HIDE DEF contract, units, connections
  <2> QED
    BY <2>1
<1>4. \A s, t \in DOMAIN d.streams : s # t =>
         connections[s].from # connections[t].from /\ connections[s].to # connections[t].to
  <2>1. \A s, t \in DOMAIN contract.connections : s # t =>
           /\ contract.connections[s].from # contract.connections[t].from
           /\ contract.connections[s].to # contract.connections[t].to
    BY DEF Convertible
  <2>2. DOMAIN connections = DOMAIN d.streams
    OBVIOUS
  <2> HIDE DEF contract, connections
  <2> QED
    BY <1>3, <2>1, <2>2
<1>5. InputsFit(d)
  BY <1>2 DEF InputsFit
<1>6. StreamsFit(d)
  <2>1. ASSUME NEW s \in DOMAIN d.streams
        PROVE  /\ {d.streams[s].source, d.streams[s].target} \subseteq DOMAIN d.nodes
               /\ Or0(d.streams[s].out) \in 0 .. OutPorts[d.nodes[d.streams[s].source].model] - 1
               /\ Or0(d.streams[s].in) \in 0 .. InPorts[d.nodes[d.streams[s].target].model] - 1
    <3> DEFINE x == d.streams[s]
               m == d.nodes[x.source].model
               n == d.nodes[x.target].model
    <3>1. /\ x.source \in DOMAIN d.nodes /\ x.target \in DOMAIN d.nodes
          /\ Or0(x.out) < Len(OutputPorts[m]) /\ Or0(x.in) < Len(InputPorts[n])
      <4>1. StreamFits(d, d.streams[s])
        BY <1>2
      <4> QED
        BY <4>1 DEF StreamFits
    <3>2. Or0(x.out) \in Nat /\ Or0(x.in) \in Nat
      BY DEF PortsNamed
    <3>3. m \in Models /\ n \in Models
      BY <3>1 DEF UnitsFit
    <3> HIDE DEF m, n, x
    <3>4. /\ Len(OutputPorts[m]) = OutPorts[m] /\ Len(InputPorts[n]) = InPorts[n]
          /\ InPorts[n] \in 0 .. 2 /\ OutPorts[m] \in 0 .. 2
      BY <3>3, PortNames
    <3>5. Or0(x.out) \in 0 .. OutPorts[m] - 1 /\ Or0(x.in) \in 0 .. InPorts[n] - 1
      BY <3>1, <3>2, <3>4
    <3> QED
      BY <3>1, <3>5 DEF m, n, x
  <2> QED
    BY <2>1, Zenon DEF StreamsFit
<1>7. PortsFree(d)
  <2>1. ASSUME NEW s \in DOMAIN d.streams, NEW t \in DOMAIN d.streams, s # t
        PROVE  /\ <<d.streams[s].source, Or0(d.streams[s].out)>> # <<d.streams[t].source, Or0(d.streams[t].out)>>
               /\ <<d.streams[s].target, Or0(d.streams[s].in)>> # <<d.streams[t].target, Or0(d.streams[t].in)>>
    <3>1. /\ Connection(d, d.streams[s]).from # Connection(d, d.streams[t]).from
          /\ Connection(d, d.streams[s]).to # Connection(d, d.streams[t]).to
      BY <1>4, <2>1
    <3> QED
      BY <3>1 DEF Connection
  <2> QED
    BY <2>1 DEF PortsFree
<1>8. ShownFits(d)
  <2>1. ~ \E i \in DOMAIN d.shown :
            \/ i \notin DOMAIN d.nodes \cup DOMAIN d.streams
            \/ d.shown[i].kind # (IF i \in DOMAIN d.nodes THEN "equipment" ELSE "connection")
    BY DEF Convertible, ToBrowser
  <2>2. DOMAIN d.nodes \cap DOMAIN d.streams = {}
    OBVIOUS
  <2> QED
    BY <2>1, <2>2 DEF ShownFits
<1> QED
  BY <1>5, <1>6, <1>7, <1>8 DEF Wired

\* A document that is opened is good.
LEMMA InitIInv ==
    Init => IInv
<1> SUFFICES ASSUME Init PROVE IInv
  OBVIOUS
<1>1. Sound(doc) /\ Full(doc) /\ Numbered(doc)
  BY EditorAssumption DEF Init
<1> DEFINE ids == Ids \cup DOMAIN doc.groups \cup DOMAIN doc.subsystems
           all == {0} \cup Ids \cup DOMAIN doc.groups \cup DOMAIN doc.subsystems
<1>2. IsFiniteSet(ids) /\ ids \subseteq Nat \ {0}
  BY <1>1 DEF Numbered, Ids
<1>3. Max(all) \in Nat /\ \A n \in ids : n <= Max(all)
  <2>1. all = ids \cup {0}
    OBVIOUS
  <2> HIDE DEF all, ids
  <2>2. IsFiniteSet(all) /\ all \in SUBSET Nat /\ all # {}
    BY <1>2, <2>1, FS_AddElement
  <2>3. Max(all) \in all /\ \A n \in all : n <= Max(all)
    BY <2>2, LargestNumber
  <2> QED
    BY <2>1, <2>2, <2>3
<1>4. fresh = 1 + Max(all)
  BY DEF Init
<1> HIDE DEF all
<1>5. fresh \in Nat \ {0} /\ \A n \in ids : n \in 1 .. fresh - 1
  <2> HIDE DEF ids
  <2> QED
    BY <1>2, <1>3, <1>4
<1>6. DOMAIN doc.objects \subseteq 1 .. fresh - 1
  BY <1>5 DEF Ids
<1>7. DOMAIN doc.nodes \cup DOMAIN doc.streams = DOMAIN doc.objects
  BY <1>1, Checked DEF Full
<1>8. DOMAIN doc.shown \subseteq DOMAIN doc.objects
  BY <1>1 DEF Full
<1>9. Now.doc = doc /\ Now.fresh = fresh /\ Now.issued = << >> /\ Works(Now)
  BY DEF Now, Work, Works, Init
<1>10. NumbersRise(Now)
  <2>1. doc.next \in Nat
    BY <1>1 DEF Sound
  <2>2. << >> \in Seq(Nat) /\ Len(<< >>) = 0
    OBVIOUS
  <2> QED
    BY <1>9, <2>1, <2>2 DEF NumbersRise
<1>11. Good(Now)
  <2>1. Issued(Now)
    BY <1>5, <1>6, <1>7, <1>8, <1>9, <1>10 DEF Issued
  <2>2. ASSUME Fitting PROVE Wired(doc) /\ ShownFits(doc)
    <3>1. Convertible(doc)
      BY <2>2 DEF Fitting, Init
    <3> QED
      BY <1>1, <3>1, ConvertibleFits DEF Sound
  <2>3. Wiring(doc) /\ Labelling(doc)
    BY <1>1, <2>2 DEF Wiring, Labelling, Sound
  <2> QED
    BY <1>1, <1>9, <2>1, <2>3 DEF Good, WorkInv
<1>12. Snapshots(past, fresh) /\ Snapshots(future, fresh)
  <2>1. << >> \in Seq(Range(<< >>)) /\ Len(<< >>) = 0
    OBVIOUS
  <2>2. \A n : Snapshots(<< >>, n)
    BY <2>1 DEF Snapshots
  <2> QED
    BY <2>2 DEF Init
<1>13. clipboard = Nobody \/ Clipped(clipboard.source)
  <2>1. ASSUME clipboard # Nobody PROVE Clipped(clipboard.source)
    <3>1. Sound(clipboard.source) /\ Numbered(clipboard.source)
      BY <2>1, EditorAssumption DEF Init
    <3> DEFINE d == clipboard.source
               numbers == DOMAIN d.objects \cup DOMAIN d.groups \cup DOMAIN d.subsystems
    <3>2. IsFiniteSet(numbers) /\ numbers \subseteq Nat \ {0} /\ DOMAIN d.objects \subseteq numbers
      BY <3>1 DEF Numbered
    <3> HIDE DEF numbers
    <3>3. IsFiniteSet(DOMAIN d.objects) /\ DOMAIN d.objects \subseteq Nat \ {0}
      BY <3>2, FS_Subset
    <3> QED
      BY <3>1, <3>3 DEF Clipped
  <2> QED
    BY <2>1
<1>14. canvas = {} /\ rows = {}
  BY DEF Init
<1> QED
  BY <1>11, <1>12, <1>13, <1>14 DEF IInv

\* A selection changes nothing else.
LEMMA ChooseKeeps ==
    ASSUME IInv, NEW selection, NEW selected, Choose(selection, selected),
           selection \subseteq Ids, selected \subseteq 1 .. Cardinality(Ids)
    PROVE  IInv'
<1>1. doc' = doc /\ issued' = issued /\ past' = past /\ future' = future /\ fresh' = fresh /\ clipboard' = clipboard
  BY DEF Choose
<1>2. Now' = Now /\ Ids' = Ids
  BY <1>1 DEF Now, Ids
<1>3. canvas' = selection /\ rows' = selected
  BY DEF Choose
<1>4. Good(Now)'
  <2>1. Good(Now)
    BY DEF IInv
  <2> QED
    BY <1>2, <2>1
<1> QED
  BY <1>1, <1>2, <1>3, <1>4 DEF IInv

\* A step that changes nothing.
LEMMA StillKeeps ==
    ASSUME IInv, UNCHANGED vars
    PROVE  IInv'
<1>1. /\ doc' = doc /\ issued' = issued /\ past' = past /\ future' = future /\ fresh' = fresh
      /\ clipboard' = clipboard /\ canvas' = canvas /\ rows' = rows
  BY DEF vars, shown
<1>2. Now' = Now /\ Ids' = Ids
  BY <1>1 DEF Now, Ids
<1>3. Good(Now)'
  <2>1. Good(Now)
    BY DEF IInv
  <2> QED
    BY <1>2, <2>1
<1> QED
  BY <1>1, <1>2, <1>3 DEF IInv

\* Resetting routes and showing details, object by object.
LEMMA EachKeeps ==
    ASSUME IInv, NEW layouts, DOMAIN layouts \subseteq Ids, LayoutEach(layouts)
    PROVE  IInv'
<1>1. Good(Now) /\ Now.doc = doc /\ Now.fresh = fresh
  BY DEF IInv, Now, Work
<1>2. IsFiniteSet(Ids) /\ Ids \subseteq Nat \ {0} /\ fresh \in Nat
  BY <1>1, GoodHas DEF Ids
<1>3. IsFiniteSet(DOMAIN layouts) /\ DOMAIN layouts \subseteq Nat \ {0}
  BY <1>2, FS_Subset
<1> DEFINE run == LayoutRun(layouts)
<1>4. Good(run.work) /\ run.work.fresh >= fresh /\ Snapshots(run.before, run.work.fresh)
  BY <1>1, <1>2, <1>3, LayoutsKeep
<1>5. Edited(run.work, run.before, canvas, Other)
  BY DEF LayoutEach
<1> HIDE DEF run
<1> QED
  BY <1>4, <1>5, EditedKeeps

\* A new group or subsystem has an identity of its own.
LEMMA GroupingIs ==
    ASSUME IInv
    PROVE  Good(Grouping) /\ Grouping.fresh >= fresh /\ Grouping.fresh \in Nat /\ fresh \in Nat
<1>1. Good(Now) /\ Now.doc = doc /\ Now.fresh = fresh /\ Now.issued = issued
  BY DEF IInv, Now, Work
<1>2. Grouping = Work(doc, fresh + 1, issued)
  BY DEF Grouping, Now, Work
<1>3. fresh \in Nat
  BY <1>1, GoodHas
<1>4. fresh + 1 \in Nat /\ fresh + 1 >= fresh
  BY <1>3
<1>5. Good(Work(Now.doc, fresh + 1, Now.issued))
  BY <1>1, <1>4, GoodGrows
<1>6. Grouping.fresh = fresh + 1
  BY <1>2 DEF Work
<1> QED
  BY <1>1, <1>2, <1>3, <1>4, <1>5, <1>6

\* An edit after an identity for a group was taken.
LEMMA GroupingApplies ==
    ASSUME IInv, NEW w, Apply(w), Keeps(Grouping, w)
    PROVE  IInv'
<1>1. Good(w) /\ w.fresh >= Grouping.fresh
  BY GroupingIs, StaysGood
<1>2. w.fresh \in Nat
  BY <1>1, GoodHas
<1>3. w.fresh >= fresh
  BY <1>1, <1>2, GroupingIs
<1> QED
  BY <1>1, <1>3, ApplyKeeps DEF Apply

\* What is undone or redone was good.
LEMMA RestoreKeeps ==
    ASSUME IInv, NEW snapshot, Restore(snapshot), Good(Work(snapshot.doc, fresh, snapshot.issued)),
           Snapshots(past', fresh), Snapshots(future', fresh)
    PROVE  IInv'
<1>1. doc' = snapshot.doc /\ issued' = snapshot.issued /\ fresh' = fresh /\ clipboard' = clipboard
  BY DEF Restore
<1> DEFINE w == Work(snapshot.doc, fresh, snapshot.issued)
<1>2. Now' = w /\ w.doc = snapshot.doc
  BY <1>1 DEF Now, Work
<1>3. Good(w)
  OBVIOUS
<1> HIDE DEF w
<1>4. Good(Now)'
  BY <1>2, <1>3
<1>5. Show(w.doc, canvas)
  BY <1>2 DEF Restore
<1>6. canvas' \subseteq Ids' /\ rows' \subseteq 1 .. Cardinality(Ids')
  BY <1>1, <1>2, <1>3, <1>5, ShowKeeps
<1> QED
  BY <1>1, <1>4, <1>6 DEF IInv

\* Every command of the editor keeps the invariant.
LEMMA StepKeeps ==
    IInv /\ [Next]_vars => IInv'
<1> SUFFICES ASSUME IInv, [Next]_vars PROVE IInv'
  OBVIOUS
<1>0. Good(Now) /\ WorkInv(Now) /\ Now.doc = doc /\ Now.fresh = fresh /\ Now.issued = issued
  BY DEF IInv, Good, Now, Work
<1>1. CASE SelectOnCanvas
  <2>1. PICK ids \in SUBSET Ids : Choose(ids, rows)
    BY <1>1 DEF SelectOnCanvas
  <2> QED
    BY <2>1, ChooseKeeps DEF IInv
<1>2. CASE SelectMembers
  <2>1. PICK ids : Choose(ids, rows) /\ ids \subseteq Ids
    BY <1>2 DEF SelectMembers
  <2> QED
    BY <2>1, ChooseKeeps DEF IInv
<1>3. CASE SelectRows
  <2>1. PICK selected \in SUBSET (TableRows \cap 1 .. Cardinality(Ids)) : Choose(Listed(doc, selected), selected)
    BY <1>3 DEF SelectRows
  <2>2. selected \in SUBSET (1 .. Cardinality(DOMAIN Now.doc.objects))
    BY <1>0 DEF Ids
  <2>3. Listed(Now.doc, selected) \subseteq DOMAIN Now.doc.objects
    BY <1>0, <2>2, ListedIs
  <2>4. Listed(doc, selected) \subseteq Ids /\ selected \subseteq 1 .. Cardinality(Ids)
    BY <1>0, <2>2, <2>3 DEF Ids
  <2> QED
    BY <2>1, <2>4, ChooseKeeps
<1>4. CASE Add
  <2>1. PICK model \in NewModels : Apply(AddEquipment(Now, model, 1))
    BY <1>4 DEF Add
  <2>2. Keeps(Now, AddEquipment(Now, model, 1))
    BY <1>0, AddEquipmentKeeps DEF Adding
  <2> QED
    BY <2>1, <2>2, KeepingApplies DEF Apply
<1>5. CASE Connect
  <2>1. PICK a, b, out, in, selection :
           /\ out \in Nat /\ in \in Nat
           /\ Edited(ConnectPorts(Now, a, out, b, in), <<Snapshot>>, selection, Other)
    <3>1. PICK a \in DOMAIN doc.nodes, b \in DOMAIN doc.nodes :
            \E out \in 0 .. OutPorts[doc.nodes[a].model] - 1, in \in 0 .. InPorts[doc.nodes[b].model] - 1 :
              Edited(ConnectPorts(Now, a, out, b, in), <<Snapshot>>,
                     IF doc.settings.prompt THEN {Newest(ConnectPorts(Now, a, out, b, in))} ELSE canvas, Other)
      BY <1>5, Zenon DEF Connect
    <3>2. PICK out \in 0 .. OutPorts[doc.nodes[a].model] - 1, in \in 0 .. InPorts[doc.nodes[b].model] - 1 :
              Edited(ConnectPorts(Now, a, out, b, in), <<Snapshot>>,
                     IF doc.settings.prompt THEN {Newest(ConnectPorts(Now, a, out, b, in))} ELSE canvas, Other)
      BY <3>1
    <3>3. out \in Nat /\ in \in Nat
      OBVIOUS
    <3> QED
      BY <3>2, <3>3, Zenon
  <2>2. Keeps(Now, ConnectPorts(Now, a, out, b, in))
    BY <1>0, <2>1, ConnectPortsKeeps, Zenon DEF Joining
  <2> QED
    BY <2>1, <2>2, KeepingApplies, Zenon
<1>6. CASE DeleteSelection
  <2> DEFINE confirmed == Attached(doc, SelectedIds) # {}
             w == RemoveObjects(Now, SelectedIds, confirmed)
  <2>1. Apply(w)
    BY <1>6 DEF DeleteSelection
  <2>2. Keeps(Now, w)
    BY <1>0, RemoveObjectsKeeps, Zenon DEF Leaving
  <2> HIDE DEF w
  <2> QED
    BY <2>1, <2>2, KeepingApplies DEF Apply
<1>7. CASE Move
  <2>1. Apply(SetLayout(Now, canvas \cap DOMAIN doc.nodes, 1))
    BY <1>7 DEF Move
  <2>2. Keeps(Now, SetLayout(Now, canvas \cap DOMAIN doc.nodes, 1))
    BY <1>0, SetLayoutKeeps
  <2> QED
    BY <2>1, <2>2, KeepingApplies DEF Apply
<1>8. CASE Route
  <2>1. PICK s : Apply(SetLayout(Now, {s}, 1))
    BY <1>8 DEF Route
  <2>2. Keeps(Now, SetLayout(Now, {s}, 1))
    BY <1>0, SetLayoutKeeps
  <2> QED
    BY <2>1, <2>2, KeepingApplies DEF Apply
<1>9. CASE ResetRoutes
  <2> DEFINE layouts == [s \in SelectedIds \cap DOMAIN doc.streams |-> 0]
  <2>1. LayoutEach(layouts)
    BY <1>9 DEF ResetRoutes
  <2>2. DOMAIN layouts \subseteq Ids
    BY SelectedAreThere
  <2> HIDE DEF layouts
  <2> QED
    BY <2>1, <2>2, EachKeeps
<1>10. CASE ToggleDetails
  <2> DEFINE layouts == [i \in SelectedIds |-> 1 - doc.objects[i].layout]
  <2>1. LayoutEach(layouts)
    BY <1>10 DEF ToggleDetails
  <2>2. DOMAIN layouts \subseteq Ids
    BY SelectedAreThere
  <2> HIDE DEF layouts
  <2> QED
    BY <2>1, <2>2, EachKeeps
<1>11. CASE Configure
  <2>1. PICK i, name, text : Apply(ConfigureInput(Now, i, name, text))
    BY <1>11, Zenon DEF Configure
  <2>2. Keeps(Now, ConfigureInput(Now, i, name, text))
    BY <1>0, ConfigureInputKeeps
  <2> QED
    BY <2>1, <2>2, KeepingApplies DEF Apply
<1>12. CASE DisplayOverride
  <2>1. PICK i, name : Apply(DisplayUnit(Now, i, name, "unit"))
    BY <1>12, Zenon DEF DisplayOverride
  <2>2. Keeps(Now, DisplayUnit(Now, i, name, "unit"))
    BY <1>0, DisplayUnitKeeps
  <2> QED
    BY <2>1, <2>2, KeepingApplies DEF Apply
<1>13. CASE RenameSelected
  <2>1. PICK i, tag : Apply(IF RenameObject(Now, i, tag, FALSE, TRUE).code = "TAG_CONFLICT"
                            THEN RenameObject(Now, i, tag, TRUE, TRUE) ELSE RenameObject(Now, i, tag, FALSE, TRUE))
    BY <1>13, Zenon DEF RenameSelected
  <2>2. Keeps(Now, RenameObject(Now, i, tag, FALSE, TRUE)) /\ Keeps(Now, RenameObject(Now, i, tag, TRUE, TRUE))
    BY <1>0, RenameObjectKeeps, Zenon DEF Renaming
  <2>3. PICK w : Apply(w) /\ Keeps(Now, w)
    BY <2>1, <2>2, Zenon
  <2> QED
    BY <2>3, KeepingApplies DEF Apply
<1>14. CASE SplitStream
  <2>1. PICK s, target, in, command : in \in Nat /\ Edited(Split(Now, s, target, in), <<Snapshot>>, {s}, command)
    <3>1. PICK s \in DOMAIN doc.streams, target \in DOMAIN doc.nodes :
            \E in \in 0 .. InPorts[doc.nodes[target].model] - 1 :
               Edited(Split(Now, s, target, in), <<Snapshot>>, {s},
                      [command |-> "split", stream |-> s, target |-> target, in |-> in])
      BY <1>14, Zenon DEF SplitStream
    <3>2. PICK in \in 0 .. InPorts[doc.nodes[target].model] - 1 :
               Edited(Split(Now, s, target, in), <<Snapshot>>, {s},
                      [command |-> "split", stream |-> s, target |-> target, in |-> in])
      BY <3>1
    <3>3. in \in Nat
      OBVIOUS
    <3> QED
      BY <3>2, <3>3, Zenon
  <2>2. Keeps(Now, Split(Now, s, target, in))
    BY <1>0, <2>1, SplitKeeps, Zenon
  <2> QED
    BY <2>1, <2>2, KeepingApplies, Zenon
<1>15. CASE ChangeSettings
  <2>1. PICK settings \in SettingsChoices : Apply(Settings(Now, settings))
    BY <1>15 DEF ChangeSettings
  <2>2. Keeps(Now, Settings(Now, settings))
    BY <1>0, SettingsKeeps, EditorAssumption
  <2> QED
    BY <2>1, <2>2, KeepingApplies DEF Apply
<1>16. CASE ChangeLayers
  <2>1. Apply(LayerPreferences(Now, doc.active, "red"))
    BY <1>16 DEF ChangeLayers
  <2>2. Keeps(Now, LayerPreferences(Now, doc.active, "red"))
    BY <1>0, LayerPreferencesKeeps
  <2> QED
    BY <2>1, <2>2, KeepingApplies DEF Apply
<1>17. CASE ChooseGroup
  <2>1. PICK g : Apply(LayerPreferences(Now, g, doc.colour))
    BY <1>17 DEF ChooseGroup
  <2>2. Keeps(Now, LayerPreferences(Now, g, doc.colour))
    BY <1>0, LayerPreferencesKeeps
  <2> QED
    BY <2>1, <2>2, KeepingApplies DEF Apply
<1>18. CASE CreateVisualGroup
  <2> DEFINE members == SelectedIds \cap DOMAIN doc.streams
  <2>1. Apply(UpsertGroup(Grouping, fresh, members))
    BY <1>18 DEF CreateVisualGroup
  <2>2. Keeps(Grouping, UpsertGroup(Grouping, fresh, members))
    BY GroupingIs, UpsertGroupKeeps DEF Good
  <2> HIDE DEF members
  <2> QED
    BY <2>1, <2>2, GroupingApplies
<1>19. CASE CreateSubsystem
  <2>1. Apply(UpsertSubsystem(Grouping, fresh, SelectedIds))
    BY <1>19 DEF CreateSubsystem
  <2>2. Keeps(Grouping, UpsertSubsystem(Grouping, fresh, SelectedIds))
    BY GroupingIs, UpsertSubsystemKeeps DEF Good
  <2> QED
    BY <2>1, <2>2, GroupingApplies
<1>20. CASE RemoveGrouping
  <2>1. CASE \E g \in DOMAIN doc.groups : Apply(RemoveGroup(Now, g))
    <3>1. PICK g : Apply(RemoveGroup(Now, g))
      BY <2>1
    <3>2. Keeps(Now, RemoveGroup(Now, g))
      BY <1>0, RemoveGroupKeeps
    <3> QED
      BY <3>1, <3>2, KeepingApplies DEF Apply
  <2>2. CASE \E s \in DOMAIN doc.subsystems : Apply(RemoveSubsystem(Now, s))
    <3>1. PICK s : Apply(RemoveSubsystem(Now, s))
      BY <2>2
    <3>2. Keeps(Now, RemoveSubsystem(Now, s))
      BY <1>0, RemoveSubsystemKeeps
    <3> QED
      BY <3>1, <3>2, KeepingApplies DEF Apply
  <2> QED
    BY <1>20, <2>1, <2>2 DEF RemoveGrouping
<1>21. CASE CopySelection
  <2>1. /\ doc' = doc /\ issued' = issued /\ past' = past /\ future' = future /\ fresh' = fresh
        /\ canvas' = canvas /\ rows' = rows /\ \E ids : clipboard' = Clip(doc, ids)
    BY <1>21 DEF CopySelection, shown
  <2>2. Now' = Now /\ Ids' = Ids
    BY <2>1 DEF Now, Ids
  <2>3. Good(Now)'
    BY <1>0, <2>2
  <2>4. clipboard'.source = doc
    BY <2>1 DEF Clip
  <2>5. Clipped(doc)
    BY <1>0, GoodHas DEF WorkInv, Clipped
  <2> QED
    BY <2>1, <2>2, <2>3, <2>4, <2>5 DEF IInv
<1>22. CASE Paste
  <2>1. PICK asked, command :
           /\ clipboard # Nobody
           /\ Edited(PasteEquipment(Now, clipboard.source, clipboard.ids, asked[1], asked[2]).work,
                     <<Snapshot>>, canvas, command)
    BY <1>22, Zenon DEF Paste
  <2>2. Clipped(clipboard.source)
    BY <2>1 DEF IInv
  <2> DEFINE w == PasteEquipment(Now, clipboard.source, clipboard.ids, asked[1], asked[2]).work
  <2>3. Good(w) /\ w.fresh >= fresh
    BY <1>0, <2>2, PasteEquipmentKeeps
  <2> HIDE DEF w
  <2>4. Edited(w, <<Snapshot>>, canvas, command)
    BY <2>1 DEF w
  <2> QED
    BY <2>3, <2>4, ApplyKeeps
<1>23. CASE Undo
  <2>1. past # << >> /\ past' = Front(past) /\ future' = Append(future, Snapshot) /\ Restore(Last(past))
    BY <1>23 DEF Undo
  <2>2. /\ Snapshots(Front(past), fresh) /\ Good(Work(Last(past).doc, fresh, Last(past).issued))
    BY <2>1, SnapshotPopped DEF IInv
  <2>3. Good(Work(doc, fresh, issued))
    BY <1>0 DEF Now
  <2>4. Snapshots(Append(future, [doc |-> doc, issued |-> issued]), fresh)
    BY <2>3, SnapshotPushed DEF IInv
  <2>5. Snapshots(past', fresh) /\ Snapshots(future', fresh)
    BY <2>1, <2>2, <2>4 DEF Snapshot
  <2> QED
    BY <2>1, <2>2, <2>5, RestoreKeeps
<1>24. CASE Redo
  <2>1. future # << >> /\ future' = Front(future) /\ past' = Append(past, Snapshot) /\ Restore(Last(future))
    BY <1>24 DEF Redo
  <2>2. /\ Snapshots(Front(future), fresh) /\ Good(Work(Last(future).doc, fresh, Last(future).issued))
    BY <2>1, SnapshotPopped DEF IInv
  <2>3. Good(Work(doc, fresh, issued))
    BY <1>0 DEF Now
  <2>4. Snapshots(Append(past, [doc |-> doc, issued |-> issued]), fresh)
    BY <2>3, SnapshotPushed DEF IInv
  <2>5. Snapshots(past', fresh) /\ Snapshots(future', fresh)
    BY <2>1, <2>2, <2>4 DEF Snapshot
  <2> QED
    BY <2>1, <2>2, <2>5, RestoreKeeps
<1>25. CASE UNCHANGED vars
  BY <1>25, StillKeeps
<1> QED
  BY <1>1, <1>2, <1>3, <1>4, <1>5, <1>6, <1>7, <1>8, <1>9, <1>10, <1>11, <1>12, <1>13, <1>14, <1>15, <1>16,
     <1>17, <1>18, <1>19, <1>20, <1>21, <1>22, <1>23, <1>24, <1>25 DEF Next

\* The invariant of the editor: the document that is shown and those undo and redo restore pass the
\* check and fit the catalogue, the selection is in the document, and so is that of the table.
THEOREM EditorInvariant ==
    Spec => []IInv
<1> QED
  BY InitIInv, StepKeeps, PTL DEF Spec

(* Properties *)

\* Neither the browser format nor the adapter refuses a good document.
LEMMA Converts ==
    ASSUME Fitting, NEW w, Good(w)
    PROVE  /\ ToBrowser(w.doc) # Refused
           /\ DraftToContract(w.doc) =
                [units |-> [i \in DOMAIN w.doc.nodes |-> Unit(w.doc, i)],
                 connections |-> [s \in DOMAIN w.doc.streams |-> Connection(w.doc, w.doc.streams[s])]]
<1> DEFINE d == w.doc
           browser == [nodes |-> d.nodes, edges |-> d.streams,
                       labels |-> [i \in DOMAIN d.nodes |-> IF i \in DOMAIN d.shown THEN d.shown[i].label ELSE NoTag]]
<1>0. /\ DOMAIN d.nodes \cap DOMAIN d.streams = {} /\ DOMAIN d.objects = DOMAIN d.nodes \cup DOMAIN d.streams
      /\ DOMAIN d.shown \subseteq DOMAIN d.objects
  BY GoodHas DEF Good, Full
<1>1. ShownFits(d) /\ UnitsFit(d) /\ StreamsFit(d) /\ InputsFit(d)
  BY DEF Good, WorkInv, Sound, Wiring, Wired, Labelling
<1>2. ~ \E i \in DOMAIN d.shown :
          \/ i \notin DOMAIN d.nodes \cup DOMAIN d.streams
          \/ d.shown[i].kind # (IF i \in DOMAIN d.nodes THEN "equipment" ELSE "connection")
  BY <1>0, <1>1 DEF ShownFits
<1>3. ToBrowser(d) = browser
  BY <1>2 DEF ToBrowser
<1>4. browser # Refused
  BY DEF Refused
<1>5. \A i \in DOMAIN d.nodes : \A name \in DOMAIN d.nodes[i].inputs : Accepts(d.nodes[i].model, name)
  BY <1>1 DEF InputsFit
<1>6. ASSUME NEW s \in DOMAIN d.streams PROVE StreamFits(d, d.streams[s])
  <2> DEFINE stream == d.streams[s]
             a == d.nodes[stream.source].model
             b == d.nodes[stream.target].model
  <2>1. /\ stream.source \in DOMAIN d.nodes /\ stream.target \in DOMAIN d.nodes
        /\ Or0(stream.out) \in 0 .. OutPorts[a] - 1 /\ Or0(stream.in) \in 0 .. InPorts[b] - 1
    BY <1>1, Zenon DEF StreamsFit
  <2>2. a \in Models /\ b \in Models
    BY <1>1, <2>1 DEF UnitsFit
  <2> HIDE DEF a, b
  <2>3. /\ Len(InputPorts[b]) = InPorts[b] /\ Len(OutputPorts[a]) = OutPorts[a]
        /\ InPorts[b] \in 0 .. 2 /\ OutPorts[a] \in 0 .. 2
    BY <2>2, PortNames
  <2>4. Or0(stream.out) < Len(OutputPorts[a]) /\ Or0(stream.in) < Len(InputPorts[b])
    BY <2>1, <2>3
  <2> QED
    BY <2>1, <2>4 DEF StreamFits, a, b
<1>7. DraftToContract(d) =
                [units |-> [i \in DOMAIN d.nodes |-> Unit(d, i)],
                 connections |-> [s \in DOMAIN d.streams |-> Connection(d, d.streams[s])]]
  BY <1>5, <1>6 DEF DraftToContract
<1> QED
  BY <1>3, <1>4, <1>7

\* The streams of a good document have no port in common, as the engine names them.
LEMMA ConnectionsDiffer ==
    ASSUME Fitting, NEW w, Good(w), NEW s \in DOMAIN w.doc.streams, NEW t \in DOMAIN w.doc.streams, s # t
    PROVE  /\ Connection(w.doc, w.doc.streams[s]).from # Connection(w.doc, w.doc.streams[t]).from
           /\ Connection(w.doc, w.doc.streams[s]).to # Connection(w.doc, w.doc.streams[t]).to
<1> DEFINE d == w.doc
           x == d.streams[s]
           y == d.streams[t]
<1>1. PortsFree(d) /\ UnitsFit(d) /\ StreamsFit(d)
  BY DEF Good, WorkInv, Sound, Wiring, Wired
<1>2. /\ <<x.source, Or0(x.out)>> # <<y.source, Or0(y.out)>>
      /\ <<x.target, Or0(x.in)>> # <<y.target, Or0(y.in)>>
  BY <1>1, Zenon DEF PortsFree
<1>3. ASSUME NEW z \in {x, y}
      PROVE  /\ z.source \in DOMAIN d.nodes /\ z.target \in DOMAIN d.nodes
             /\ Or0(z.out) \in 0 .. OutPorts[d.nodes[z.source].model] - 1
             /\ Or0(z.in) \in 0 .. InPorts[d.nodes[z.target].model] - 1
  BY <1>1, Zenon DEF StreamsFit
<1> HIDE DEF x, y
<1>4. ASSUME x.source = y.source
      PROVE  OutputPorts[d.nodes[x.source].model][Or0(x.out) + 1] # OutputPorts[d.nodes[y.source].model][Or0(y.out) + 1]
  <2> DEFINE m == d.nodes[x.source].model
  <2>1. m \in Models
    BY <1>1, <1>3 DEF UnitsFit
  <2>2. Or0(x.out) \in 0 .. OutPorts[m] - 1 /\ Or0(y.out) \in 0 .. OutPorts[m] - 1 /\ Or0(x.out) # Or0(y.out)
    BY <1>2, <1>3, <1>4
  <2>3. d.nodes[y.source].model = m
    BY <1>4
  <2> HIDE DEF m
  <2>4. /\ OutPorts[m] \in 0 .. 2
        /\ \A i, j \in 1 .. OutPorts[m] : OutputPorts[m][i] = OutputPorts[m][j] => i = j
    BY <2>1, PortNames
  <2>5. Or0(x.out) + 1 \in 1 .. OutPorts[m] /\ Or0(y.out) + 1 \in 1 .. OutPorts[m] /\ Or0(x.out) + 1 # Or0(y.out) + 1
    BY <2>2, <2>4
  <2>6. OutputPorts[m][Or0(x.out) + 1] # OutputPorts[m][Or0(y.out) + 1]
    BY <2>4, <2>5
  <2> QED
    BY <2>3, <2>6 DEF m
<1>5. ASSUME x.target = y.target
      PROVE  InputPorts[d.nodes[x.target].model][Or0(x.in) + 1] # InputPorts[d.nodes[y.target].model][Or0(y.in) + 1]
  <2> DEFINE m == d.nodes[x.target].model
  <2>1. m \in Models
    BY <1>1, <1>3 DEF UnitsFit
  <2>2. Or0(x.in) \in 0 .. InPorts[m] - 1 /\ Or0(y.in) \in 0 .. InPorts[m] - 1 /\ Or0(x.in) # Or0(y.in)
    BY <1>2, <1>3, <1>5
  <2>3. d.nodes[y.target].model = m
    BY <1>5
  <2> HIDE DEF m
  <2>4. /\ InPorts[m] \in 0 .. 2
        /\ \A i, j \in 1 .. InPorts[m] : InputPorts[m][i] = InputPorts[m][j] => i = j
    BY <2>1, PortNames
  <2>5. Or0(x.in) + 1 \in 1 .. InPorts[m] /\ Or0(y.in) + 1 \in 1 .. InPorts[m] /\ Or0(x.in) + 1 # Or0(y.in) + 1
    BY <2>2, <2>4
  <2>6. InputPorts[m][Or0(x.in) + 1] # InputPorts[m][Or0(y.in) + 1]
    BY <2>4, <2>5
  <2> QED
    BY <2>3, <2>6 DEF m
<1> HIDE DEF d
<1>6. Connection(d, x).from # Connection(d, y).from
  BY <1>4 DEF Connection
<1>7. Connection(d, x).to # Connection(d, y).to
  BY <1>5 DEF Connection
<1> QED
  BY <1>6, <1>7 DEF d, x, y

\* DraftsConvert: if the documents that are opened can be represented by the browser format
\* (to_browser) and the engine's adapter (draft_to_contract), with one stream at a port, so can
\* all that is made of them, whatever is on the clipboard, by any sequence of edits, undo and redo.
THEOREM DraftsConverting ==
    ASSUME \A d \in StartDocuments : Convertible(d)
    PROVE  Spec => []DraftsConvert
<1>0. Fitting
  BY DEF Fitting
<1>1. ASSUME IInv PROVE DraftsConvert
  <2>1. Good(Now) /\ Now.doc = doc
    BY <1>1 DEF IInv, Now, Work
  <2>2. /\ ToBrowser(doc) # Refused
        /\ DraftToContract(doc) =
                [units |-> [i \in DOMAIN doc.nodes |-> Unit(doc, i)],
                 connections |-> [s \in DOMAIN doc.streams |-> Connection(doc, doc.streams[s])]]
    BY <1>0, <2>1, Converts
  <2> DEFINE contract == DraftToContract(doc)
             connections == [s \in DOMAIN doc.streams |-> Connection(doc, doc.streams[s])]
  <2>3. contract # Refused /\ contract.connections = connections
    BY <2>2 DEF Refused
  <2> HIDE DEF contract
  <2>4. \A s, t \in DOMAIN connections : s # t =>
           connections[s].from # connections[t].from /\ connections[s].to # connections[t].to
    BY <1>0, <2>1, ConnectionsDiffer
  <2> HIDE DEF connections
  <2>5. \A s, t \in DOMAIN contract.connections : s # t =>
           /\ contract.connections[s].from # contract.connections[t].from
           /\ contract.connections[s].to # contract.connections[t].to
    BY <2>3, <2>4
  <2> QED
    BY <2>2, <2>3, <2>5 DEF DraftsConvert, Convertible, contract
<1> QED
  BY <1>1, EditorInvariant, PTL

\* SelectionIsThere: the selection of the canvas or the table (selected_ids) names objects of
\* the document that is shown, also after deletions, undo and redo.
THEOREM SelectionStays ==
    Spec => []SelectionIsThere
<1>1. IInv => SelectionIsThere
  BY SelectedAreThere DEF SelectionIsThere
<1> QED
  BY <1>1, EditorInvariant, PTL

\* NumbersIssuedOnce: no two streams of a document's edits are given the same number (_next_tag),
\* whatever was renamed or removed in between.
THEOREM NumbersDiffer ==
    Spec => []NumbersIssuedOnce
<1>1. ASSUME IInv PROVE NumbersIssuedOnce
  <2>1. NumbersRise(Now) /\ Now.issued = issued
    BY <1>1 DEF IInv, Good, WorkInv, Issued, Now, Work
  <2>2. issued \in Seq(Nat) /\ \A m, n \in 1 .. Len(issued) : m < n => issued[m] < issued[n]
    BY <2>1 DEF NumbersRise
  <2>3. DOMAIN issued = 1 .. Len(issued) /\ Len(issued) \in Nat /\ \A m \in 1 .. Len(issued) : issued[m] \in Nat
    BY <2>2
  <2>4. \A m, n \in 1 .. Len(issued) : issued[m] = issued[n] => m = n
    BY <2>2, <2>3
  <2> QED
    BY <2>3, <2>4 DEF NumbersIssuedOnce, IsInjective
<1> QED
  BY <1>1, EditorInvariant, PTL

\* Without a difference, two records of objects are the same.
LEMMA ChangedNothing ==
    ASSUME NEW f, NEW g, Maps(f), Maps(g), Changed(f, g) = {}
    PROVE  f = g
<1>1. \A i \in DOMAIN f \cup DOMAIN g : i \in DOMAIN f /\ i \in DOMAIN g /\ f[i] = g[i]
  BY DEF Changed
<1> QED
  BY <1>1 DEF Maps

\* Nothing differs from itself.
LEMMA ChangedIs ==
    ASSUME NEW f
    PROVE  Changed(f, f) = {}
BY DEF Changed

\* The hash that a validation receipt is for is of units and streams alone.
LEMMA SameHash ==
    ASSUME NEW v, NEW w, v.nodes = w.nodes, v.streams = w.streams
    PROVE  EngineeringHash(v) = EngineeringHash(w)
<1> DEFINE Units(d) == [i \in DOMAIN d.nodes |-> Unit(d, i)]
           Connections(d) == [s \in DOMAIN d.streams |-> Connection(d, d.streams[s])]
           Case(d) == [units |-> Units(d), connections |-> Connections(d)]
           Bad(d) == \/ \E i \in DOMAIN d.nodes : \E name \in DOMAIN d.nodes[i].inputs : ~Accepts(d.nodes[i].model, name)
                     \/ \E s \in DOMAIN d.streams : ~StreamFits(d, d.streams[s])
           Bare(d) == [i \in DOMAIN d.nodes |->
                         [kind |-> d.nodes[i].model,
                          parameters |-> {<<EngineParameter[name], d.nodes[i].inputs[name]>> :
                                            name \in DOMAIN d.nodes[i].inputs}]]
<1>1. ASSUME NEW d
      PROVE  EngineeringHash(d) = IF Bad(d) THEN Refused ELSE [connections |-> Connections(d), units |-> Bare(d)]
  <2> DEFINE c == DraftToContract(d)
             bad == Bad(d)
  <2>1. c = IF bad THEN Refused ELSE Case(d)
    BY DEF DraftToContract
  <2>2. EngineeringHash(d) = IF c = Refused THEN Refused
          ELSE [connections |-> c.connections,
                units |-> [i \in DOMAIN c.units |-> [kind |-> c.units[i].kind, parameters |-> c.units[i].parameters]]]
    BY DEF EngineeringHash
  <2>3. [i \in DOMAIN Units(d) |-> [kind |-> Units(d)[i].kind, parameters |-> Units(d)[i].parameters]] = Bare(d)
    BY DEF Unit
  <2> HIDE DEF c, bad
  <2>4. CASE bad
    BY <2>1, <2>2, <2>4 DEF bad
  <2>5. CASE ~ bad
    <3>1. c = Case(d)
      BY <2>1, <2>5
    <3>2. c # Refused /\ c.units = Units(d) /\ c.connections = Connections(d)
      BY <3>1 DEF Refused
    <3> QED
      BY <2>2, <2>3, <2>5, <3>2 DEF bad
  <2> QED
    BY <2>4, <2>5
<1>2. Bare(v) = Bare(w)
  OBVIOUS
<1>3. Connections(v) = Connections(w)
  BY DEF Connection
<1>4. Bad(v) <=> Bad(w)
  BY DEF StreamFits
<1> HIDE DEF Bad, Bare, Connections
<1> QED
  BY <1>1, <1>2, <1>3, <1>4

\* What the differences and the classification of two good documents say.
LEMMA Classified ==
    ASSUME NEW v, NEW w, Good(v), Good(w)
    PROVE  LET b == v.doc
               a == w.doc
               engineering == EngineeringDifferences(b, a) IN
           /\ Classification(b, a) = "engineering" <=> engineering # {}
           /\ a # [b EXCEPT !.shown = a.shown] => engineering \cup PresentationDifferences(b, a) # {}
           /\ Classification(b, a) # "engineering" => EngineeringHash(a) = EngineeringHash(b)
<1> DEFINE b == v.doc
           a == w.doc
           engineering == EngineeringDifferences(b, a)
           presentation == PresentationDifferences(b, a)
<1>1. /\ Fields(b) /\ Maps(b.nodes) /\ Maps(b.streams) /\ Maps(b.objects) /\ Maps(b.groups) /\ Maps(b.subsystems)
      /\ Fields(a) /\ Maps(a.nodes) /\ Maps(a.streams) /\ Maps(a.objects) /\ Maps(a.groups) /\ Maps(a.subsystems)
  BY DEF Good, WorkInv, Sound
<1> HIDE DEF a, b
<1>2. engineering = {} <=> b.nodes = a.nodes /\ b.streams = a.streams /\ b.subsystems = a.subsystems
  <2>1. engineering = Changed(b.nodes, a.nodes) \cup Changed(b.streams, a.streams) \cup Changed(b.subsystems, a.subsystems)
    BY DEF EngineeringDifferences
  <2>2. ASSUME engineering = {} PROVE b.nodes = a.nodes /\ b.streams = a.streams /\ b.subsystems = a.subsystems
    <3>1. Changed(b.nodes, a.nodes) = {} /\ Changed(b.streams, a.streams) = {} /\ Changed(b.subsystems, a.subsystems) = {}
      BY <2>1, <2>2
    <3> QED
      BY <1>1, <3>1, ChangedNothing
  <2>3. ASSUME b.nodes = a.nodes, b.streams = a.streams, b.subsystems = a.subsystems PROVE engineering = {}
    BY <2>1, <2>3, ChangedIs
  <2> QED
    BY <2>2, <2>3
<1>3. Classification(b, a) = "engineering" <=> ~ (b.nodes = a.nodes /\ b.streams = a.streams /\ b.subsystems = a.subsystems)
  <2>1. ContentHash(b) = ContentHash(a) <=> b.nodes = a.nodes /\ b.streams = a.streams /\ b.subsystems = a.subsystems
    BY DEF ContentHash
  <2> QED
    BY <2>1 DEF Classification
<1>4. ASSUME engineering \cup presentation = {} PROVE a = [b EXCEPT !.shown = a.shown]
  <2>1. b.nodes = a.nodes /\ b.streams = a.streams /\ b.subsystems = a.subsystems
    BY <1>2, <1>4
  <2>2. /\ Changed(b.objects, a.objects) = {} /\ Changed(b.groups, a.groups) = {}
        /\ 0 \notin {d \in {0} : Preferences(b) # Preferences(a)}
    BY <1>4 DEF PresentationDifferences
  <2>3. b.objects = a.objects /\ b.groups = a.groups
    BY <1>1, <2>2, ChangedNothing
  <2>4. b.settings = a.settings /\ b.active = a.active /\ b.colour = a.colour /\ b.next = a.next
    BY <2>2 DEF Preferences
  <2> QED
    BY <1>1, <2>1, <2>3, <2>4 DEF Fields
<1>5. ASSUME Classification(b, a) # "engineering" PROVE EngineeringHash(a) = EngineeringHash(b)
  BY <1>3, <1>5, SameHash DEF a, b
<1> QED
  BY <1>2, <1>3, <1>4, <1>5 DEF a, b

\* EditsAreClassified: of every step, the history's classification agrees with the differences it
\* lists (compare_documents), and without an engineering change the hash a validation receipt is
\* for stays.
THEOREM EditsClassified ==
    Spec => EditsAreClassified
<1>1. ASSUME IInv, IInv'
      PROVE  LET kind == Classification(doc, doc')
                 engineering == EngineeringDifferences(doc, doc')
                 presentation == PresentationDifferences(doc, doc') IN
             /\ kind = "engineering" <=> engineering # {}
             /\ doc' # [doc EXCEPT !.shown = doc'.shown] => engineering \cup presentation # {}
             /\ kind # "engineering" => EngineeringHash(doc') = EngineeringHash(doc)
  <2> DEFINE v == Work(doc, fresh, issued)
             w == Work(doc', fresh', issued')
  <2>1. Good(v) /\ v.doc = doc
    BY <1>1 DEF IInv, Now, Work
  <2>2. Good(w) /\ w.doc = doc'
    <3>1. Good(Now')
      BY <1>1 DEF IInv
    <3>2. Now' = w
      BY DEF Now
    <3> QED
      BY <3>1, <3>2 DEF Work
  <2> HIDE DEF v, w
  <2> QED
    BY <2>1, <2>2, Classified
<1> QED
  BY <1>1, EditorInvariant, PTL DEF EditsAreClassified
===============================================================================
