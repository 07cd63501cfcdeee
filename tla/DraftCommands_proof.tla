-------------------------- MODULE DraftCommands_proof --------------------------
(***************************************************************************)
(* Proofs about CommandRegistry and DraftCommands, for any number of       *)
(* callers, requests, sessions, drafts, revisions, processes in a row and  *)
(* saves of another process.  Of the registry alone: it implements         *)
(* OnceLedger, and what a caller is answered is what is recorded for its   *)
(* request.  Of the draft stores behind it: what a save acknowledged       *)
(* stays, revisions are changes that follow each other, reads show what    *)
(* was acknowledged before, and the registry with its use cases performed  *)
(* step by step still implements OnceLedger.                               *)
(***************************************************************************)
EXTENDS DraftCommands, TLAPS

-------------------------------------------------------------------------------
(* The registry alone *)

Busy(c) == call[c].pc \in {"invoking", "recording"}

\* An id is under way in one thread at most, which alone decides what is recorded for it.
OneThread ==
    \A c, d \in Callers : Busy(c) /\ Busy(d) /\ IdOf(c) = IdOf(d) => c = d

\* Where a thread is says how far its id has come.
Progress ==
    \A c \in Callers :
        /\ Busy(c) => IdOf(c) \in inFlight
        /\ At(c, "invoking") => IdOf(c) \notin performed
        /\ At(c, "recording") => IdOf(c) \in performed
        /\ call[c].pc \in {"recording", "answered"} => call[c].outcome \in Outcomes

\* What is under way is not recorded yet, and what was performed is one or the other.
Bookkeeping ==
    /\ \A i \in inFlight : completed[i] = NoEntry
    /\ \A i \in performed : i \in inFlight \/ completed[i] # NoEntry

IInv == TypeOK /\ OneThread /\ Progress /\ Bookkeeping /\ AnswersAreRecorded

-------------------------------------------------------------------------------
(* Lemmas about the operators *)

\* Only a request with an id passes the checks, and the others are refused with a code of
\* the registry's own.
LEMMA VerdictCodes ==
    ASSUME NEW r \in Requests
    PROVE  /\ Verdict(r) \in OwnCodes \cup {"OK"}
           /\ Verdict(r) = "OK" => r.id \in Ids
BY DEF Verdict, OwnCodes, Ids

\* A refusal is an outcome.
LEMMA RefusalsAreOutcomes ==
    ASSUME NEW k \in OwnCodes
    PROVE  Rejected(k) \in Outcomes
BY DEF Rejected, Outcomes, Codes

\* The request of an idle thread is one of the requests.
LEMMA IdleType == Idle \in Call /\ Idle.pc = "idle" /\ Idle.request \in Requests
BY RegistryAssumption DEF Idle, Call

\* A recorded entry is something else than none.
LEMMA EntriesExist ==
    ASSUME NEW r \in Requests, NEW o \in Outcomes
    PROVE  [request |-> r, outcome |-> o] \in Entries /\ [request |-> r, outcome |-> o] # NoEntry
BY RegistryAssumption DEF Entries

-------------------------------------------------------------------------------
(* The invariant *)

LEMMA InitInv == Init => IInv
<1> SUFFICES ASSUME Init PROVE IInv
  OBVIOUS
<1>1. \A c \in Callers : call[c] = Idle
  BY DEF Init
<1> QED
  BY <1>1, IdleType, RegistryAssumption
  DEF Init, IInv, TypeOK, OneThread, Progress, Bookkeeping, AnswersAreRecorded, Busy, At

\* A thread that answers without a use case leaves the books alone.
LEMMA RefuseInv ==
    ASSUME IInv, NEW c \in Callers, NEW k \in OwnCodes, At(c, "idle"), Refuse(c, k),
           UNCHANGED <<regVars, completed, inFlight, performed>>
    PROVE  IInv'
<1>1. call' = [call EXCEPT ![c] = [pc |-> "answered", request |-> Idle.request,
                                   outcome |-> Rejected(k)]]
  BY DEF Refuse, Answer, GoTo
<1>2. TypeOK'
  BY <1>1, IdleType, RefusalsAreOutcomes DEF IInv, TypeOK, Call, regVars
<1>3. OneThread' /\ Progress' /\ Bookkeeping'
  BY <1>1, RefusalsAreOutcomes
  DEF IInv, TypeOK, OneThread, Progress, Bookkeeping, Busy, At, IdOf
<1>4. AnswersAreRecorded'
  BY <1>1 DEF IInv, TypeOK, AnswersAreRecorded, At, IdOf
<1> QED
  BY <1>2, <1>3, <1>4 DEF IInv

LEMMA DispatchInv ==
    ASSUME IInv, NEW c \in Callers, NEW r \in Requests, Dispatch(c, r)
    PROVE  IInv'
<1>0. At(c, "idle") /\ UNCHANGED <<regVars, completed, performed>>
  BY DEF Dispatch
<1>1. CASE Verdict(r) # "OK" /\ Refuse(c, Verdict(r)) /\ UNCHANGED inFlight
  BY <1>0, <1>1, VerdictCodes, RefuseInv
<1>2. CASE Refuse(c, "REQUEST_ID_CONFLICT") /\ UNCHANGED inFlight
  <2>1. "REQUEST_ID_CONFLICT" \in OwnCodes
    BY DEF OwnCodes
  <2> QED
    BY <1>0, <1>2, <2>1, RefuseInv
<1>3. CASE Refuse(c, "REQUEST_IN_FLIGHT") /\ UNCHANGED inFlight
  <2>1. "REQUEST_IN_FLIGHT" \in OwnCodes
    BY DEF OwnCodes
  <2> QED
    BY <1>0, <1>3, <2>1, RefuseInv
<1>4. CASE /\ Verdict(r) = "OK" /\ completed[r.id] # NoEntry
           /\ completed[r.id].request = r /\ Answer(c, r, completed[r.id].outcome)
           /\ UNCHANGED inFlight
  <2>1. r.id \in Ids /\ completed[r.id] \in Entries
    BY <1>4, VerdictCodes DEF IInv, TypeOK
  <2>2. completed[r.id] = [request |-> r, outcome |-> completed[r.id].outcome]
        /\ completed[r.id].outcome \in Outcomes
    BY <1>4, <2>1 DEF Entries
  <2>3. call' = [call EXCEPT ![c] = [pc |-> "answered", request |-> r,
                                     outcome |-> completed[r.id].outcome]]
    BY <1>4 DEF Answer, GoTo
  <2>4. TypeOK'
    BY <1>0, <1>4, <2>2, <2>3 DEF IInv, TypeOK, Call, regVars
  <2>5. OneThread' /\ Progress' /\ Bookkeeping'
    BY <1>0, <1>4, <2>2, <2>3 DEF IInv, TypeOK, OneThread, Progress, Bookkeeping, Busy, At, IdOf
  <2>6. AnswersAreRecorded'
    BY <1>0, <2>2, <2>3 DEF IInv, TypeOK, AnswersAreRecorded, At, IdOf
  <2> QED
    BY <2>4, <2>5, <2>6 DEF IInv
<1>5. CASE /\ Verdict(r) = "OK" /\ Admits(r)
           /\ inFlight' = inFlight \cup {r.id} /\ GoTo(c, "invoking", r, NoOutcome)
  <2>1. r.id \in Ids /\ completed[r.id] = NoEntry /\ r.id \notin inFlight /\ r.id \notin performed
    BY <1>5, VerdictCodes DEF Admits, IInv, Bookkeeping
  <2>2. call' = [call EXCEPT ![c] = [pc |-> "invoking", request |-> r, outcome |-> NoOutcome]]
    BY <1>5 DEF GoTo
  <2>3. TypeOK'
    BY <1>0, <1>5, <2>1, <2>2 DEF IInv, TypeOK, Call, regVars
  <2>4. OneThread'
    BY <1>5, <2>1, <2>2 DEF IInv, TypeOK, OneThread, Progress, Busy, IdOf
  <2>5. Progress' /\ Bookkeeping'
    BY <1>0, <1>5, <2>1, <2>2 DEF IInv, TypeOK, Progress, Bookkeeping, Busy, At, IdOf
  <2>6. AnswersAreRecorded'
    BY <1>0, <2>2 DEF IInv, TypeOK, AnswersAreRecorded, At, IdOf
  <2> QED
    BY <2>3, <2>4, <2>5, <2>6 DEF IInv
<1> QED
  BY <1>1, <1>2, <1>3, <1>4, <1>5 DEF Dispatch

LEMMA InvokeInv ==
    ASSUME IInv, NEW c \in Callers, NEW o \in Outcomes, Invoke(c, o)
    PROVE  IInv'
<1>1. /\ At(c, "invoking") /\ UNCHANGED <<regVars, completed, inFlight>>
      /\ performed' = performed \cup {IdOf(c)}
      /\ call' = [call EXCEPT ![c] = [pc |-> "recording", request |-> call[c].request,
                                      outcome |-> o]]
  BY DEF Invoke, GoTo
<1>2. IdOf(c) \in inFlight /\ inFlight \subseteq Ids
  BY <1>1 DEF IInv, Progress, Busy, At, TypeOK
<1>3. TypeOK'
  BY <1>1, <1>2 DEF IInv, TypeOK, Call, regVars
<1>4. OneThread'
  BY <1>1 DEF IInv, TypeOK, OneThread, Busy, At, IdOf
<1>5. Progress'
  BY <1>1, <1>2 DEF IInv, TypeOK, OneThread, Progress, Busy, At, IdOf
<1>6. Bookkeeping' /\ AnswersAreRecorded'
  BY <1>1, <1>2 DEF IInv, TypeOK, Bookkeeping, AnswersAreRecorded, At, IdOf
<1> QED
  BY <1>3, <1>4, <1>5, <1>6 DEF IInv

LEMMA InterruptInv ==
    ASSUME IInv, NEW c \in Callers, Interrupt(c)
    PROVE  IInv'
<1>1. /\ At(c, "invoking") /\ UNCHANGED <<regVars, completed, performed>>
      /\ inFlight' = inFlight \ {IdOf(c)} /\ call' = [call EXCEPT ![c] = Idle]
  BY DEF Interrupt
<1>2. IdOf(c) \notin performed
  BY <1>1 DEF IInv, Progress
<1>3. TypeOK'
  BY <1>1, IdleType DEF IInv, TypeOK, regVars
<1>4. OneThread' /\ Progress'
  BY <1>1, IdleType DEF IInv, TypeOK, OneThread, Progress, Busy, At, IdOf
<1>5. Bookkeeping' /\ AnswersAreRecorded'
  BY <1>1, <1>2, IdleType DEF IInv, TypeOK, Bookkeeping, AnswersAreRecorded, At, IdOf
<1> QED
  BY <1>3, <1>4, <1>5 DEF IInv

LEMMA RecordInv ==
    ASSUME IInv, NEW c \in Callers, Record(c)
    PROVE  IInv'
<1> DEFINE entry == [request |-> call[c].request, outcome |-> call[c].outcome]
<1>1. /\ At(c, "recording") /\ UNCHANGED <<regVars, performed>>
      /\ completed' = [completed EXCEPT ![IdOf(c)] = entry]
      /\ inFlight' = inFlight \ {IdOf(c)}
      /\ call' = [call EXCEPT ![c] = [pc |-> "answered", request |-> call[c].request,
                                      outcome |-> call[c].outcome]]
  BY DEF Record, Answer, GoTo
<1>2. /\ IdOf(c) \in inFlight /\ IdOf(c) \in Ids /\ completed[IdOf(c)] = NoEntry
      /\ call[c].outcome \in Outcomes
  BY <1>1 DEF IInv, Progress, Busy, At, TypeOK, Bookkeeping
<1>3. call[c].request \in Requests /\ entry \in Entries /\ entry # NoEntry
  BY <1>2, EntriesExist DEF IInv, TypeOK, Call
<1>4. TypeOK'
  BY <1>1, <1>2, <1>3 DEF IInv, TypeOK, Call, regVars
<1>5. OneThread' /\ Progress'
  BY <1>1 DEF IInv, TypeOK, OneThread, Progress, Busy, At, IdOf
<1>6. Bookkeeping'
  BY <1>1, <1>2, <1>3 DEF IInv, TypeOK, Bookkeeping
<1>7. AnswersAreRecorded'
  <2> SUFFICES ASSUME NEW d \in Callers, At(d, "answered")',
                      call'[d].outcome \notin {Rejected(k) : k \in OwnCodes}
               PROVE  completed'[IdOf(d)'] = [request |-> call'[d].request,
                                              outcome |-> call'[d].outcome]
    BY DEF AnswersAreRecorded
  <2>1. CASE d = c
    BY <1>1, <1>2, <2>1 DEF IInv, TypeOK, IdOf
  <2>2. CASE d # c
    <3>1. call'[d] = call[d]
      BY <1>1, <2>2 DEF IInv, TypeOK
    <3>2. completed[IdOf(d)] = [request |-> call[d].request, outcome |-> call[d].outcome]
      BY <3>1 DEF IInv, AnswersAreRecorded, At
    <3>3. call[d] \in Call
      BY DEF IInv, TypeOK
    <3>4. At(d, "answered") /\ call[d].request \in Requests
      BY <3>1, <3>3 DEF At, Call
    <3>5. completed[IdOf(d)] # NoEntry
      BY <3>2, <3>4, EntriesExist DEF IInv, Progress, At
    <3> QED
      BY <1>1, <1>2, <3>1, <3>2, <3>5 DEF IInv, TypeOK, IdOf
  <2> QED
    BY <2>1, <2>2
<1> QED
  BY <1>4, <1>5, <1>6, <1>7 DEF IInv

LEMMA ReturnInv ==
    ASSUME IInv, NEW c \in Callers, Return(c)
    PROVE  IInv'
BY IdleType DEF Return, IInv, TypeOK, OneThread, Progress, Bookkeeping, AnswersAreRecorded,
   Busy, At, IdOf, regVars

LEMMA RestartInv ==
    ASSUME IInv, Restart
    PROVE  IInv'
<1>1. \A c \in Callers : call'[c] = Idle
  BY DEF Restart
<1>2. TypeOK'
  BY IdleType, RegistryAssumption DEF Restart, IInv, TypeOK
<1> QED
  BY <1>1, <1>2, IdleType
  DEF Restart, IInv, OneThread, Progress, Bookkeeping, AnswersAreRecorded, Busy, At

LEMMA StepInv == IInv /\ [Next]_vars => IInv'
<1> SUFFICES ASSUME IInv, [Next]_vars PROVE IInv'
  OBVIOUS
<1>1. CASE UNCHANGED vars
  BY <1>1 DEF IInv, TypeOK, OneThread, Progress, Bookkeeping, AnswersAreRecorded,
     Busy, At, IdOf, vars, regVars
<1> QED
  BY <1>1, DispatchInv, InvokeInv, InterruptInv, RecordInv, ReturnInv, RestartInv DEF Next

-------------------------------------------------------------------------------
(* Theorems *)

\* The books of the dispatcher agree with where its threads are, whatever they present.
THEOREM Invariant == Spec => []IInv
BY InitInv, StepInv, PTL DEF Spec

\* The registry and its callers hold what their types allow.
THEOREM TypeCorrect == Spec => []TypeOK
<1>1. IInv => TypeOK
  BY DEF IInv
<1> QED
  BY <1>1, Invariant, PTL

\* Whoever is answered with the outcome of a use case is answered with what is recorded for
\* its own request, also when it repeated the request of another caller.
THEOREM AnswersRecorded == Spec => []AnswersAreRecorded
<1>1. IInv => AnswersAreRecorded
  BY DEF IInv
<1> QED
  BY <1>1, Invariant, PTL

\* Every step of the dispatcher is one of the ledger's, or none.
LEMMA StepImplements ==
    ASSUME IInv, [Next]_vars
    PROVE  [Ledger!Next]_(Ledger!vars)
<1>1. ASSUME NEW c \in Callers, NEW r \in Requests, Dispatch(c, r)
      PROVE  [Ledger!Next]_(Ledger!vars)
  <2>1. CASE Verdict(r) = "OK" /\ Admits(r) /\ inFlight' = inFlight \cup {r.id}
    <3>1. r.id \in Ids
      BY <2>1, VerdictCodes
    <3> QED
      BY <1>1, <2>1, <3>1 DEF Dispatch, Admits, Ledger!Next, Ledger!Start
  <2>2. CASE UNCHANGED inFlight
    BY <1>1, <2>2 DEF Dispatch, Ledger!vars
  <2> QED
    BY <1>1, <2>1, <2>2 DEF Dispatch
<1>2. ASSUME NEW c \in Callers, NEW o \in Outcomes, Invoke(c, o)
      PROVE  [Ledger!Next]_(Ledger!vars)
  <2>1. At(c, "invoking") /\ IdOf(c) \in inFlight \ performed /\ IdOf(c) \in Ids
    BY <1>2 DEF Invoke, IInv, Progress, Busy, At, TypeOK
  <2> QED
    BY <1>2, <2>1 DEF Invoke, Ledger!Next, Ledger!Perform
<1>3. ASSUME NEW c \in Callers, Interrupt(c)
      PROVE  [Ledger!Next]_(Ledger!vars)
  <2>1. At(c, "invoking") /\ IdOf(c) \in inFlight \ performed /\ IdOf(c) \in Ids
    BY <1>3 DEF Interrupt, IInv, Progress, Busy, At, TypeOK
  <2> QED
    BY <1>3, <2>1 DEF Interrupt, Ledger!Next, Ledger!Abandon
<1>4. ASSUME NEW c \in Callers, Record(c)
      PROVE  [Ledger!Next]_(Ledger!vars)
  <2> DEFINE entry == [request |-> call[c].request, outcome |-> call[c].outcome]
  <2>1. /\ IdOf(c) \in inFlight \cap performed /\ IdOf(c) \in Ids
        /\ call[c].outcome \in Outcomes
    BY <1>4 DEF Record, IInv, Progress, Busy, At, TypeOK
  <2>2. entry \in Entries
    BY <2>1, EntriesExist DEF IInv, TypeOK, Call
  <2>3. /\ completed' = [completed EXCEPT ![IdOf(c)] = entry]
        /\ inFlight' = inFlight \ {IdOf(c)} /\ UNCHANGED performed
    BY <1>4 DEF Record
  <2>4. completed'[IdOf(c)] = entry
    BY <2>1, <2>3 DEF IInv, TypeOK
  <2> QED
    BY <2>1, <2>2, <2>3, <2>4 DEF Ledger!Next, Ledger!Decide
<1>5. CASE Restart
  BY <1>5 DEF Restart, Ledger!Next, Ledger!Forget
<1>6. CASE UNCHANGED vars \/ \E c \in Callers : Return(c)
  BY <1>6 DEF Return, vars, Ledger!vars
<1> QED
  BY <1>1, <1>2, <1>3, <1>4, <1>5, <1>6 DEF Next

\* docs/native/DW1_BOUNDARY.md: whoever repeats a request, and whenever, its use case is
\* performed once per session and one outcome is recorded for it.
THEOREM RegistryImplementsOnce == Spec => ImplementsOnce
<1>1. Init => Ledger!Init
  BY DEF Init, Ledger!Init
<1>2. IInv /\ [Next]_vars => [Ledger!Next]_(Ledger!vars)
  BY StepImplements
<1> QED
  BY <1>1, <1>2, Invariant, PTL DEF Spec, ImplementsOnce, Ledger!Spec

-------------------------------------------------------------------------------
(* The invariant *)

Distinct(store) == \A f, g \in store : f.name = g.name /\ f.revision = g.revision => f = g

\* There is a latest of every name that has files at all.
HasLatest(store) ==
    \A n \in DraftIds : Named(store, n) # {} =>
        \E f \in Named(store, n) : \A g \in Named(store, n) : g.revision <= f.revision

\* A file holds what its name says, or is torn.
BrowserFiles ==
    /\ browser \subseteq File /\ Distinct(browser) /\ HasLatest(browser)
    /\ \A f \in browser :
          /\ SafeName[f.name] = f.name
          /\ f.doc # Torn => f.doc.revision = f.revision /\ SafeName[f.doc.id] = f.name

NativeFiles ==
    /\ native \subseteq File /\ Distinct(native) /\ HasLatest(native)
    /\ \A f \in native : f.doc # Torn /\ f.doc.revision = f.revision /\ f.doc.id = f.name

\* Document d changes what file f holds, and is the revision after it.
Follows(f, d) ==
    /\ f.revision = d.revision - 1 /\ f.doc # Torn
    /\ [f.doc EXCEPT !.revision = d.revision] # d

Before(store, name, revision) == {f \in store : f.name = name /\ f.revision < revision}

\* What a revision of a name holds, or will hold, is the first, or it changes the revision
\* before it, or that one was rewritten.
Sequel(store, rewritten, name, revision, doc) ==
    \/ revision = 1
    \/ \E f \in store :
          /\ f.name = name /\ f.revision = revision - 1
          /\ \/ Place(f) \in rewritten
             \/ f.doc # Torn /\ (doc # Torn => [f.doc EXCEPT !.revision = revision] # doc)

Sequels(store, rewritten) ==
    \A g \in store : Sequel(store, rewritten, g.name, g.revision, g.doc)

Changes ==
    /\ Sequels(browser, contested)
    /\ \A g \in native : g.revision \notin Imported => IsChange(native, {}, g)

Above(store, name, revision) == \A g \in Named(store, name) : g.revision < revision

OneSaver ==
    \A c, d \in Callers :
        /\ Holds(c, {"browser", "opening", "torn"}) /\ Holds(d, {"browser", "opening", "torn"})
              => c = d
        /\ Holds(c, {"native", "linked"}) /\ Holds(d, {"native", "linked"}) => c = d

\* The other process saves the revision after the latest it saw, and every file it has opened
\* is counted as contested.
ElsewhereSave ==
    LET f == elsewhere.file IN
    elsewhere # NoStep =>
        /\ elsewhere = [at |-> elsewhere.at, file |-> f]
        /\ f \in File /\ f.doc \in Docs /\ f.doc.revision = f.revision
        /\ SafeName[f.name] = f.name /\ SafeName[f.doc.id] = f.name
        /\ Sequel(browser, contested, f.name, f.revision, f.doc)
        /\ elsewhere.at = "torn" => Place(f) \in contested

Global ==
    /\ BrowserFiles /\ NativeFiles /\ Changes /\ OneSaver /\ AcknowledgedStay /\ ElsewhereSave
    /\ foreign \in Nat /\ DOMAIN step = Callers /\ DOMAIN known = Callers
    /\ \A a \in acknowledged :
          /\ a[1] \in {"browser", "native"} /\ a[2].name \in DraftIds
          /\ a[2].revision \in Nat /\ a[2].doc # Torn

\* Where a thread is in its use case.
Where(c) ==
    /\ step[c].at \in
          {"none", "browser", "opening", "torn", "native", "linked", "listed", "missed"}
    /\ step[c].at = "none" => step[c] = NoStep
    /\ step[c].at # "none" => At(c, "invoking")
    /\ step[c].at \in {"browser", "opening", "torn", "native", "linked"} =>
          step[c] = [at |-> step[c].at, doc |-> step[c].doc]
    /\ Busy(c) => Verdict(call[c].request) = "OK"
    /\ step[c].at \in {"browser", "opening", "torn"} =>
          Reaches(c) = <<"services", "draft.save">>
    /\ step[c].at \in {"native", "linked"} => Reaches(c) = <<"pfd", "pfd.save">>
    /\ step[c].at = "listed" => Reaches(c) = <<"pfd", "pfd.list">> /\ step[c].seen \subseteq Docs

\* The save of a browser draft is the revision after the latest it found, and its file is not
\* there before it is opened, unless the other process opened it.
BrowserSave(c) ==
    LET d == step[c].doc
        name == SafeName[Asked(c).id] IN
    step[c].at \in {"browser", "opening", "torn"} =>
        /\ d \in Docs /\ d.id = Asked(c).id
        /\ Sequel(browser, contested, name, d.revision, d)
        /\ \A g \in browser :
              g.name = name /\ g.revision = d.revision =>
                  Place(g) \in contested \/ (step[c].at = "torn" /\ g.doc = Torn)

\* The save of a native draft is the revision after the latest, or another process has
\* published that one, or it brings its number along.
NativeSave(c) ==
    LET d == step[c].doc
        f == FileOf(d, d.id) IN
    /\ step[c].at \in {"native", "linked"} => d \in Docs
    /\ step[c].at = "linked" => f \in native
    /\ step[c].at = "native" =>
          \/ Taken(native, f)
          \/ /\ Above(native, d.id, d.revision)
             /\ \/ /\ Named(native, d.id) = {}
                   /\ d.revision = 1 \/ d.revision \in {r.body.revision : r \in Requests}
                \/ d.revision \in Imported
                \/ \E g \in Named(native, d.id) : Follows(g, d)

\* What a read has to show was acknowledged, and concerns it until it is answered.
Knows(c) ==
    /\ known[c] \subseteq acknowledged
    /\ \A a \in known[c] : Busy(c) /\ Concerns(call[c].request, a)
    /\ step[c].at = "missed" => known[c] = {}

Fresh(c) ==
    At(c, "recording") /\ call[c].outcome.disposition = "COMPLETED" =>
        \A a \in known[c] :
            \E d \in call[c].outcome.data :
                d.revision >= a[2].revision /\ SafeName[d.id] = SafeName[a[2].name]

CallerInv(c) == Where(c) /\ BrowserSave(c) /\ NativeSave(c) /\ Knows(c) /\ Fresh(c)

DraftInv == IInv /\ Global /\ \A c \in Callers : CallerInv(c)

-------------------------------------------------------------------------------
(* Lemmas about documents, files and requests *)

\* What a document is made of.
LEMMA DocFields ==
    ASSUME NEW d \in Docs
    PROVE  /\ d.id \in DraftIds /\ d.body \in Bodies /\ d # Torn
           /\ d.revision \in Nat /\ 1 <= d.revision /\ d.revision <= MaxRevision
BY DraftAssumption DEF Docs, Revisions

\* A document under another revision number.
LEMMA Renumbered ==
    ASSUME NEW d \in Docs, NEW n \in Nat, 1 <= n, n <= MaxRevision
    PROVE  /\ [d EXCEPT !.revision = n] = [id |-> d.id, revision |-> n, body |-> d.body]
           /\ [d EXCEPT !.revision = n] \in Docs
           /\ [d EXCEPT !.revision = n].id = d.id /\ [d EXCEPT !.revision = n].revision = n
BY DraftAssumption DEF Docs, Revisions

\* Documents that differ under one revision number differ under each.
LEMMA ChangesAnyway ==
    ASSUME NEW d \in Docs, NEW e \in Docs, NEW n \in Nat, 1 <= n, n <= MaxRevision,
           d # [e EXCEPT !.revision = d.revision]
    PROVE  [d EXCEPT !.revision = n] # [e EXCEPT !.revision = n]
<1>1. d = [id |-> d.id, revision |-> d.revision, body |-> d.body]
  BY DEF Docs
<1>2. [e EXCEPT !.revision = d.revision] = [id |-> e.id, revision |-> d.revision, body |-> e.body]
  BY DocFields, Renumbered
<1>3. d.id # e.id \/ d.body # e.body
  BY <1>1, <1>2
<1>4. /\ [d EXCEPT !.revision = n] = [id |-> d.id, revision |-> n, body |-> d.body]
      /\ [e EXCEPT !.revision = n] = [id |-> e.id, revision |-> n, body |-> e.body]
  BY Renumbered
<1> QED
  BY <1>3, <1>4

\* What a file is made of.
LEMMA FileFields ==
    ASSUME NEW f \in File
    PROVE  /\ f.name \in DraftIds /\ f.revision \in Nat
           /\ 1 <= f.revision /\ f.revision <= MaxRevision
           /\ f.doc # Torn => f.doc \in Docs
           /\ f = [name |-> f.name, revision |-> f.revision, doc |-> f.doc]
BY DraftAssumption DEF File, Revisions

\* The file of a document, and the same file before it is written.
LEMMA FileOfDoc ==
    ASSUME NEW d \in Docs, NEW n \in DraftIds
    PROVE  /\ FileOf(d, n) \in File
           /\ FileOf(d, n).name = n /\ FileOf(d, n).revision = d.revision /\ FileOf(d, n).doc = d
           /\ [FileOf(d, n) EXCEPT !.doc = Torn] \in File
           /\ [FileOf(d, n) EXCEPT !.doc = Torn].name = n
           /\ [FileOf(d, n) EXCEPT !.doc = Torn].revision = d.revision
           /\ [FileOf(d, n) EXCEPT !.doc = Torn].doc = Torn
<1>1. d.revision \in Revisions
  BY DEF Docs
<1>2. [FileOf(d, n) EXCEPT !.doc = Torn] = [name |-> n, revision |-> d.revision, doc |-> Torn]
  BY DEF FileOf
<1>3. [name |-> n, revision |-> d.revision, doc |-> Torn] \in File
  BY <1>1 DEF File
<1>4. FileOf(d, n) \in File
  BY <1>1 DEF File, FileOf
<1> QED
  BY <1>2, <1>3, <1>4 DEF FileOf

\* The latest of a name is one of its files, and none is later.
LEMMA LatestIs ==
    ASSUME NEW store, HasLatest(store), NEW n \in DraftIds, Named(store, n) # {}
    PROVE  /\ Latest(store, n) \in store /\ Latest(store, n).name = n
           /\ \A g \in Named(store, n) : g.revision <= Latest(store, n).revision
<1>1. PICK f \in Named(store, n) : \A g \in Named(store, n) : g.revision <= f.revision
  BY DEF HasLatest
<1>2. /\ Latest(store, n) \in Named(store, n)
      /\ \A g \in Named(store, n) : g.revision <= Latest(store, n).revision
  BY <1>1 DEF Latest
<1> QED
  BY <1>2 DEF Named

\* A file that is put in its place, or on one that has it, leaves the others what they were,
\* and there is a latest of every name.
LEMMA PutFile ==
    ASSUME NEW store \in SUBSET File, Distinct(store), HasLatest(store), NEW f \in File
    PROVE  /\ Put(store, f) \subseteq File /\ Distinct(Put(store, f)) /\ HasLatest(Put(store, f))
           /\ f \in Put(store, f) /\ \A g \in Put(store, f) \ {f} : g \in store
           /\ \A g \in store : Place(g) # Place(f) => g \in Put(store, f)
<1> DEFINE P == Put(store, f)
<1>0. f.name \in DraftIds /\ f.revision \in Nat /\ \A g \in store : g.revision \in Nat
  BY FileFields
<1>1. P \subseteq File /\ Distinct(P)
  BY DEF Put, Distinct, Place
<1>2. HasLatest(P)
  <2> SUFFICES ASSUME NEW n \in DraftIds, Named(P, n) # {}
               PROVE  \E h \in Named(P, n) : \A g \in Named(P, n) : g.revision <= h.revision
    BY DEF HasLatest
  <2>1. CASE n # f.name
    <3>1. Named(P, n) = Named(store, n)
      BY <2>1 DEF Named, Put, Place
    <3> QED
      BY <3>1 DEF HasLatest
  <2>2. CASE n = f.name /\ \A g \in Named(store, n) : g.revision <= f.revision
    <3>1. f \in Named(P, n)
      BY <2>2 DEF Named, Put
    <3>2. \A g \in Named(P, n) : g.revision <= f.revision
      BY <1>0, <2>2 DEF Named, Put
    <3> QED
      BY <3>1, <3>2
  <2>3. ASSUME n = f.name, NEW g \in Named(store, n), ~(g.revision <= f.revision)
        PROVE  \E h \in Named(P, n) : \A k \in Named(P, n) : k.revision <= h.revision
    <3>1. PICK h \in Named(store, n) : \A k \in Named(store, n) : k.revision <= h.revision
      BY <2>3 DEF HasLatest
    <3>2. h.revision \in Nat /\ g.revision \in Nat /\ g.revision <= h.revision
      BY <1>0, <2>3, <3>1 DEF Named
    <3>3. f.revision < h.revision
      BY <1>0, <2>3, <3>2
    <3>4. h \in Named(P, n)
      BY <1>0, <3>2, <3>3 DEF Named, Put, Place
    <3>5. \A k \in Named(P, n) : k.revision <= h.revision
      BY <1>0, <3>1, <3>2, <3>3 DEF Named, Put
    <3> QED
      BY <3>4, <3>5
  <2> QED
    BY <2>1, <2>2, <2>3
<1>3. f \in P /\ (\A g \in P \ {f} : g \in store) /\ \A g \in store : Place(g) # Place(f) => g \in P
  BY DEF Put
<1> QED
  BY <1>1, <1>2, <1>3

\* A file above all of its name leaves the changes that were there.
LEMMA PutTop ==
    ASSUME NEW store \in SUBSET File, NEW f \in File,
           \A g \in Named(store, f.name) : g.revision <= f.revision
    PROVE  /\ Before(Put(store, f), f.name, f.revision) = Before(store, f.name, f.revision)
           /\ \A g \in Put(store, f) \ {f} :
                 g \in store /\ (IsChange(store, {}, g) => IsChange(Put(store, f), {}, g))
<1> DEFINE P == Put(store, f)
<1>0. f.name \in DraftIds /\ f.revision \in Nat /\ \A g \in store : g.revision \in Nat
  BY FileFields
<1>1. Before(P, f.name, f.revision) = Before(store, f.name, f.revision)
  BY <1>0 DEF Put, Before, Place
<1>2. ASSUME NEW g \in P \ {f}
      PROVE  g \in store /\ (IsChange(store, {}, g) => IsChange(P, {}, g))
  <2>1. g \in store /\ (g.name # f.name \/ g.revision # f.revision)
    BY DEF Put, Place
  <2>2. g.name = f.name => g.revision < f.revision
    BY <1>0, <2>1 DEF Named
  <2>3. {h \in P : h.name = g.name /\ h.revision < g.revision}
        = {h \in store : h.name = g.name /\ h.revision < g.revision}
    BY <1>0, <2>1, <2>2 DEF Put, Place
  <2> QED
    BY <2>1, <2>3 DEF IsChange
<1> QED
  BY <1>1, <1>2

\* What follows a revision still does when a file is put in another's place that was torn or
\* counts as rewritten.
LEMMA SequelStays ==
    ASSUME NEW store \in SUBSET File, NEW p \in File, NEW rewritten, NEW after,
           rewritten \subseteq after,
           \A g \in store : Place(g) = Place(p) => Place(p) \in after \/ g.doc = Torn,
           NEW name, NEW revision, NEW doc, Sequel(store, rewritten, name, revision, doc)
    PROVE  Sequel(Put(store, p), after, name, revision, doc)
<1>1. CASE revision = 1
  BY <1>1 DEF Sequel
<1>2. ASSUME NEW f \in store, f.name = name, f.revision = revision - 1,
             \/ Place(f) \in rewritten
             \/ f.doc # Torn /\ (doc # Torn => [f.doc EXCEPT !.revision = revision] # doc)
      PROVE  Sequel(Put(store, p), after, name, revision, doc)
  <2>1. CASE Place(f) # Place(p)
    <3>1. f \in Put(store, p)
      BY <2>1 DEF Put
    <3> QED
      BY <1>2, <3>1 DEF Sequel
  <2>2. CASE Place(f) = Place(p)
    <3>1. Place(p) \in after
      BY <1>2, <2>2
    <3>2. p \in Put(store, p) /\ p.name = name /\ p.revision = revision - 1
      BY <1>2, <2>2 DEF Put, Place
    <3> QED
      BY <3>1, <3>2 DEF Sequel
  <2> QED
    BY <2>1, <2>2
<1> QED
  BY <1>1, <1>2 DEF Sequel

\* A file that is empty follows what its document follows.
LEMMA SequelTorn ==
    ASSUME NEW store, NEW rewritten, NEW name, NEW revision, NEW doc, doc # Torn,
           Sequel(store, rewritten, name, revision, doc)
    PROVE  Sequel(store, rewritten, name, revision, Torn)
BY DEF Sequel

\* What a thread asks for is a request with a document.
LEMMA CallFacts ==
    ASSUME IInv, NEW c \in Callers
    PROVE  /\ call[c].request \in Requests /\ Asked(c) \in Docs
           /\ call[c].pc \in {"idle", "invoking", "recording", "answered"}
BY DraftAssumption DEF IInv, TypeOK, Call, Asked

\* The requests that read the stores reach the use cases that do.
LEMMA ReadsReach ==
    ASSUME NEW r \in Requests, Verdict(r) = "OK"
    PROVE  LET reached == UseCase(registry, r.command, r.parameters) IN
           /\ r.command = "pfd.list" => reached = <<"pfd", "pfd.list">>
           /\ r.command = "pfd.open" => reached = <<"pfd", "OpenDraft">>
           /\ r.command = "draft.open" => reached = <<"services", "OpenDraft">>
<1>1. r.command \in CommandNames(registry) /\ r.parameters = Parameters[r.command]
  BY DEF Verdict
<1>2. CASE r.command = "pfd.list"
  <2>1. registry.pfd
    BY <1>1, <1>2 DEF CommandNames, ServiceParameters, HistoryParameters
  <2> QED
    BY <1>2, <2>1 DEF UseCase, HistoryParameters
<1>3. CASE r.command = "pfd.open"
  <2>1. registry.pfd
    BY <1>1, <1>3 DEF CommandNames, ServiceParameters, HistoryParameters
  <2>2. r.parameters = "OpenDraft"
    BY <1>1, <1>3 DEF Parameters, ServiceParameters, PfdParameters, HistoryParameters
  <2> QED
    BY <1>3, <2>1, <2>2 DEF UseCase, HistoryParameters, PfdParameters
<1>4. CASE r.command = "draft.open"
  <2>1. registry.services # "demonstration"
    BY <1>1, <1>4 DEF CommandNames, PfdParameters, HistoryParameters
  <2>2. r.parameters = "OpenDraft"
    BY <1>1, <1>4 DEF Parameters, ServiceParameters
  <2> QED
    BY <1>4, <2>1, <2>2 DEF UseCase, HistoryParameters, PfdParameters
<1> QED
  BY <1>2, <1>3, <1>4

\* So only the reads of a store know of files they have to show.
LEMMA KnowsReach ==
    ASSUME IInv, NEW c \in Callers, Where(c), Knows(c), NEW a \in known[c]
    PROVE  /\ a \in acknowledged
           /\ \/ Reaches(c) = <<"pfd", "pfd.list">> /\ a[1] = "native"
              \/ Reaches(c) = <<"pfd", "OpenDraft">> /\ a[1] = "native" /\ a[2].name = Asked(c).id
              \/ /\ Reaches(c) = <<"services", "OpenDraft">>
                 /\ a[1] = "browser" /\ a[2].name = SafeName[Asked(c).id]
<1>1. Busy(c) /\ Concerns(call[c].request, a) /\ a \in acknowledged
  BY DEF Knows
<1>2. Verdict(call[c].request) = "OK" /\ call[c].request \in Requests
  BY <1>1, CallFacts DEF Where
<1> QED
  BY <1>1, <1>2, ReadsReach DEF Concerns, Reaches, Asked

\* Outcomes of the use cases are outcomes of the registry.
LEMMA OutcomesAre ==
    /\ \A k \in {"NOT_FOUND", "BOUNDARY_FAILURE", "DRAFT_EXISTS", "INVALID_COMMAND"} :
          Rejected(k) \in Outcomes
    /\ \A ds \in SUBSET Docs : Completed(ds) \in Outcomes
<1>1. \A k \in {"NOT_FOUND", "BOUNDARY_FAILURE", "DRAFT_EXISTS", "INVALID_COMMAND"} : k \in Codes
  BY DraftAssumption DEF Codes, OwnCodes
<1> QED
  BY <1>1, DraftAssumption DEF Rejected, Completed, Outcomes

-------------------------------------------------------------------------------
(* What an action leaves alone *)

\* A thread that does not move, and whose store nobody else may write, stays where it is.
LEMMA Untouched ==
    ASSUME DraftInv, NEW d \in Callers,
           registry' = registry, call'[d] = call[d], step'[d] = step[d], known'[d] = known[d],
           acknowledged \subseteq acknowledged',
           (browser' = browser /\ contested' = contested) \/ ~Holds(d, {"browser", "opening", "torn"}),
           \/ native' = native /\ foreign' = foreign
           \/ native \subseteq native' /\ ~Holds(d, {"native"})
    PROVE  CallerInv(d)'
<1>1. Where(d) /\ BrowserSave(d) /\ NativeSave(d) /\ Knows(d) /\ Fresh(d)
  BY DEF DraftInv, CallerInv
<1>2. Where(d)'
  BY <1>1 DEF Where, At, Busy, Reaches, Verdict
<1>3. BrowserSave(d)'
  <2>1. Asked(d)' = Asked(d)
    BY DEF Asked
  <2>2. CASE browser' = browser /\ contested' = contested
    <3> DEFINE doc == step[d].doc
               name == SafeName[Asked(d).id]
    <3>1. CASE step[d].at \notin {"browser", "opening", "torn"}
      BY <3>1 DEF BrowserSave
    <3>2. CASE step[d].at \in {"browser", "opening", "torn"}
      <4>1. /\ doc \in Docs /\ doc.id = Asked(d).id
            /\ Sequel(browser, contested, name, doc.revision, doc)
            /\ \A g \in browser :
                  g.name = name /\ g.revision = doc.revision =>
                      Place(g) \in contested \/ (step[d].at = "torn" /\ g.doc = Torn)
        BY <1>1, <3>2 DEF BrowserSave
      <4> HIDE DEF name, doc
      <4>2. Sequel(browser', contested', name, doc.revision, doc)
        BY <2>2, <4>1
      <4> QED
        BY <2>1, <2>2, <4>1, <4>2 DEF BrowserSave, Sequel, name, doc
    <3> QED
      BY <3>1, <3>2
  <2>3. CASE ~Holds(d, {"browser", "opening", "torn"})
    BY <2>3 DEF BrowserSave, Holds
  <2> QED
    BY <2>2, <2>3
<1>4. NativeSave(d)'
  <2>1. CASE native' = native /\ foreign' = foreign
    BY <1>1, <2>1 DEF NativeSave, Taken, Above, Named, Imported
  <2>2. CASE native \subseteq native' /\ ~Holds(d, {"native"})
    BY <1>1, <2>2 DEF NativeSave, Holds
  <2> QED
    BY <2>1, <2>2
<1>5. Knows(d)'
  BY <1>1 DEF Knows, Busy
<1>6. Fresh(d)'
  BY <1>1 DEF Fresh, At
<1> QED
  BY <1>2, <1>3, <1>4, <1>5, <1>6 DEF CallerInv

\* The locks stay exclusive when the one thread that moves had the lock or took it free.
LEMMA LocksKept ==
    ASSUME OneSaver, DOMAIN step = Callers, NEW c \in Callers, NEW s,
           step' = [step EXCEPT ![c] = s],
           s.at \in {"browser", "opening", "torn"} =>
              BrowserLockFree \/ Holds(c, {"browser", "opening", "torn"}),
           s.at \in {"native", "linked"} => NativeLockFree \/ Holds(c, {"native", "linked"})
    PROVE  OneSaver' /\ DOMAIN step' = Callers
<1>1. step'[c] = s /\ \A d \in Callers \ {c} : step'[d] = step[d]
  OBVIOUS
<1> QED
  BY <1>1 DEF OneSaver, Holds, BrowserLockFree, NativeLockFree

\* What is left of the invariant when neither store is written.
LEMMA StoresKept ==
    ASSUME Global, UNCHANGED <<browser, native, otherVars>>, OneSaver', DOMAIN step' = Callers,
           DOMAIN known' = Callers,
           \A a \in acknowledged' \ acknowledged :
              \/ /\ a[1] = "native" /\ a[2] \in native
              \/ /\ a[1] = "browser" /\ a[2] \in browser /\ a[2].doc # Torn
    PROVE  Global'
<1>1. \A a \in acknowledged' :
          /\ a[1] \in {"browser", "native"} /\ a[2].name \in DraftIds
          /\ a[2].revision \in Nat /\ a[2].doc # Torn
          /\ IF a[1] = "native" THEN a[2] \in native
             ELSE Taken(browser, a[2]) /\ (Place(a[2]) \notin contested => a[2] \in browser)
  <2> TAKE a \in acknowledged'
  <2>1. CASE a \in acknowledged
    BY <2>1 DEF Global, AcknowledgedStay
  <2>2. CASE a[1] = "native" /\ a[2] \in native
    BY <2>2, FileFields DEF Global, NativeFiles
  <2>3. CASE a[1] = "browser" /\ a[2] \in browser /\ a[2].doc # Torn
    BY <2>3, FileFields DEF Global, BrowserFiles, Taken
  <2> QED
    BY <2>1, <2>2, <2>3
<1>0. UNCHANGED <<foreign, elsewhere, contested>>
  BY DEF otherVars
<1>2. BrowserFiles' /\ NativeFiles'
  BY DEF Global, BrowserFiles, NativeFiles, HasLatest, Named, Distinct
<1>3. Changes'
  BY <1>0 DEF Global, Changes, Imported, IsChange, Sequels, Sequel
<1>4. ElsewhereSave'
  BY <1>0 DEF Global, ElsewhereSave, Sequel
<1> QED
  BY <1>0, <1>1, <1>2, <1>3, <1>4 DEF Global, AcknowledgedStay, Taken

\* A thread ends its use case with an outcome that is fresh enough; only the one that holds
\* the lock has written the browser's store.
LEMMA FinishCallers ==
    ASSUME DraftInv, NEW c \in Callers, NEW o \in Outcomes, Finish(c, o),
           UNCHANGED <<native, otherVars, known>>, acknowledged \subseteq acknowledged',
           browser' = browser \/ Holds(c, {"browser", "opening", "torn"}),
           o.disposition = "COMPLETED" => \A a \in known[c] :
              \E d \in o.data : d.revision >= a[2].revision /\ SafeName[d.id] = SafeName[a[2].name]
    PROVE  /\ IInv' /\ OneSaver' /\ DOMAIN step' = Callers /\ DOMAIN known' = Callers
           /\ \A d \in Callers : CallerInv(d)'
<1>0. IInv /\ Global /\ \A d \in Callers : CallerInv(d)
  BY DEF DraftInv
<1>1. Invoke(c, o) /\ step' = [step EXCEPT ![c] = NoStep]
  BY DEF Finish
<1>2. IInv'
  BY <1>0, <1>1, InvokeInv
<1>3. /\ At(c, "invoking") /\ registry' = registry
      /\ call' = [call EXCEPT ![c] = [pc |-> "recording", request |-> call[c].request,
                                      outcome |-> o]]
  BY <1>1 DEF Invoke, GoTo, regVars
<1>4. /\ \A d \in Callers \ {c} : call'[d] = call[d] /\ step'[d] = step[d]
      /\ call'[c] = [pc |-> "recording", request |-> call[c].request, outcome |-> o]
      /\ step'[c] = NoStep
  BY <1>0, <1>1, <1>3 DEF IInv, TypeOK, Global
<1>5. NoStep.at = "none"
  BY DEF NoStep
<1>6. OneSaver' /\ DOMAIN step' = Callers
  BY <1>0, <1>1, <1>5, LocksKept DEF Global
<1>8. CallerInv(c)'
  <2>1. Where(c) /\ Knows(c) /\ Busy(c)
    BY <1>0, <1>3 DEF CallerInv, Busy, At
  <2>2. Where(c)'
    BY <1>3, <1>4, <1>5, <2>1 DEF Where, Busy, At, Verdict
  <2>3. BrowserSave(c)' /\ NativeSave(c)'
    BY <1>4, <1>5 DEF BrowserSave, NativeSave
  <2>4. Knows(c)'
    BY <1>4, <1>5, <2>1 DEF Knows, Busy
  <2>5. Fresh(c)'
    BY <1>4 DEF Fresh, At
  <2> QED
    BY <2>2, <2>3, <2>4, <2>5 DEF CallerInv
<1>9. ASSUME NEW d \in Callers, d # c
      PROVE  CallerInv(d)'
  <2>1. call'[d] = call[d] /\ step'[d] = step[d] /\ known'[d] = known[d]
    BY <1>4, <1>9
  <2>2. Holds(c, {"browser", "opening", "torn"}) => ~Holds(d, {"browser", "opening", "torn"})
    BY <1>0, <1>9 DEF Global, OneSaver
  <2>3. foreign' = foreign /\ contested' = contested
    BY DEF otherVars
  <2> QED
    BY <1>3, <2>1, <2>2, <2>3, Untouched
<1>10. DOMAIN known' = Callers
  BY <1>0 DEF Global
<1> QED
  BY <1>2, <1>6, <1>8, <1>9, <1>10

\* The same with the stores as they are: what is acknowledged is in its store.
LEMMA FinishKeeps ==
    ASSUME DraftInv, NEW c \in Callers, NEW o \in Outcomes, Finish(c, o),
           UNCHANGED <<browser, native, otherVars, known>>, acknowledged \subseteq acknowledged',
           \A a \in acknowledged' \ acknowledged :
              \/ /\ a[1] = "native" /\ a[2] \in native
              \/ /\ a[1] = "browser" /\ a[2] \in browser /\ a[2].doc # Torn,
           o.disposition = "COMPLETED" => \A a \in known[c] :
              \E d \in o.data : d.revision >= a[2].revision /\ SafeName[d.id] = SafeName[a[2].name]
    PROVE  DraftInv'
<1>1. /\ IInv' /\ OneSaver' /\ DOMAIN step' = Callers /\ DOMAIN known' = Callers
      /\ \A d \in Callers : CallerInv(d)'
  BY FinishCallers
<1>2. Global'
  BY <1>1, StoresKept DEF DraftInv
<1> QED
  BY <1>1, <1>2 DEF DraftInv

\* A use case that answers without writing anything.
LEMMA QuietlyKeeps ==
    ASSUME DraftInv, NEW c \in Callers, NEW o \in Outcomes, Quietly(c, o),
           o.disposition = "COMPLETED" => \A a \in known[c] :
              \E d \in o.data : d.revision >= a[2].revision /\ SafeName[d.id] = SafeName[a[2].name]
    PROVE  DraftInv'
BY FinishKeeps DEF Quietly

\* A rejection shows nothing, which is fresh enough.
LEMMA RejectionKeeps ==
    ASSUME DraftInv, NEW c \in Callers,
           NEW k \in {"NOT_FOUND", "BOUNDARY_FAILURE", "DRAFT_EXISTS", "INVALID_COMMAND"},
           Quietly(c, Rejected(k))
    PROVE  DraftInv'
<1>1. Rejected(k) \in Outcomes /\ Rejected(k).disposition # "COMPLETED"
  BY OutcomesAre DEF Rejected
<1> QED
  BY <1>1, QuietlyKeeps

\* A use case that goes on without writing anything.
LEMMA ContinueKeeps ==
    ASSUME DraftInv, NEW c \in Callers, NEW s, Continue(c, s), UNCHANGED <<browser, native>>,
           s.at \in {"browser", "opening", "torn"} =>
              BrowserLockFree \/ Holds(c, {"browser", "opening", "torn"}),
           s.at \in {"native", "linked"} => NativeLockFree \/ Holds(c, {"native", "linked"}),
           step'[c] = s => CallerInv(c)'
    PROVE  DraftInv'
<1>0. IInv /\ Global /\ \A d \in Callers : CallerInv(d)
  BY DEF DraftInv
<1>1. /\ step' = [step EXCEPT ![c] = s]
      /\ UNCHANGED <<vars, otherVars, acknowledged, known>>
  BY DEF Continue
<1>2. IInv'
  BY <1>0, <1>1, StepInv
<1>3. OneSaver' /\ DOMAIN step' = Callers
  BY <1>0, <1>1, LocksKept DEF Global
<1>4. Global'
  BY <1>0, <1>1, <1>3, StoresKept DEF Global
<1>5. step'[c] = s /\ \A d \in Callers \ {c} : step'[d] = step[d]
  BY <1>0, <1>1 DEF Global
<1>6. ASSUME NEW d \in Callers, d # c
      PROVE  CallerInv(d)'
  <2>1. call'[d] = call[d] /\ step'[d] = step[d] /\ known'[d] = known[d] /\ registry' = registry
    BY <1>1, <1>5, <1>6 DEF vars, regVars
  <2>2. foreign' = foreign /\ contested' = contested
    BY <1>1 DEF otherVars
  <2> QED
    BY <1>1, <2>1, <2>2, Untouched
<1> QED
  BY <1>2, <1>4, <1>5, <1>6 DEF DraftInv

-------------------------------------------------------------------------------
(* The browser's repository *)

\* What latest finds: nothing, a torn file, or the document of the latest revision.
LEMMA FromBrowserIs ==
    ASSUME BrowserFiles, NEW id \in DraftIds
    PROVE  \/ FromBrowser(id) \in {Rejected("NOT_FOUND"), Rejected("INVALID_COMMAND")}
           \/ \E d \in Docs :
                 /\ FromBrowser(id) = Completed({d}) /\ SafeName[d.id] = SafeName[id]
                 /\ \A g \in Named(browser, SafeName[id]) : g.revision <= d.revision
<1>1. SafeName[id] \in DraftIds
  BY DraftAssumption
<1>2. CASE Named(browser, SafeName[id]) = {}
  BY <1>2 DEF FromBrowser
<1>3. CASE Named(browser, SafeName[id]) # {}
  <2> DEFINE f == Latest(browser, SafeName[id])
  <2>1. /\ f \in browser /\ f.name = SafeName[id]
        /\ \A g \in Named(browser, SafeName[id]) : g.revision <= f.revision
    BY <1>1, <1>3, LatestIs DEF BrowserFiles
  <2>2. CASE f.doc = Torn
    BY <1>3, <2>2 DEF FromBrowser
  <2>3. CASE f.doc # Torn
    <3>1. f.doc \in Docs /\ f.doc.revision = f.revision /\ SafeName[f.doc.id] = f.name
      BY <2>1, <2>3, FileFields DEF BrowserFiles
    <3>2. FromBrowser(id) = Completed({f.doc})
      BY <1>3, <2>3 DEF FromBrowser
    <3> QED
      BY <2>1, <3>1, <3>2
  <2> QED
    BY <2>2, <2>3
<1> QED
  BY <1>2, <1>3

\* An opened draft is at least as new as what was acknowledged under its name.
LEMMA OpenBrowserInv ==
    ASSUME DraftInv, NEW c \in Callers, OpenBrowser(c)
    PROVE  DraftInv'
<1>0. IInv /\ Global /\ Where(c) /\ Knows(c) /\ Asked(c) \in Docs
  BY CallFacts DEF DraftInv, CallerInv
<1> DEFINE id == Asked(c).id
<1>1. /\ Reaches(c) = <<"services", "OpenDraft">> /\ Quietly(c, FromBrowser(id))
      /\ id \in DraftIds /\ BrowserFiles
  BY <1>0, DocFields DEF OpenBrowser, Performing, Global
<1>2. CASE FromBrowser(id) \in {Rejected("NOT_FOUND"), Rejected("INVALID_COMMAND")}
  BY <1>1, <1>2, RejectionKeeps
<1>3. ASSUME NEW d \in Docs, FromBrowser(id) = Completed({d}), SafeName[d.id] = SafeName[id],
             \A g \in Named(browser, SafeName[id]) : g.revision <= d.revision
      PROVE  DraftInv'
  <2>1. ASSUME NEW a \in known[c]
        PROVE  d.revision >= a[2].revision /\ SafeName[d.id] = SafeName[a[2].name]
    <3>1. a \in acknowledged /\ a[1] = "browser" /\ a[2].name = SafeName[id]
      BY <1>0, <1>1, KnowsReach
    <3>2. PICK g \in browser : g.name = a[2].name /\ g.revision = a[2].revision
      BY <1>0, <3>1 DEF Global, AcknowledgedStay, Taken, Place
    <3>3. SafeName[a[2].name] = SafeName[id]
      BY <1>1, <3>1, DraftAssumption
    <3>4. a[2].revision <= d.revision /\ a[2].revision \in Nat /\ d.revision \in Nat
      BY <1>1, <1>3, <3>1, <3>2, FileFields, DocFields DEF Named, BrowserFiles
    <3> QED
      BY <1>3, <3>3, <3>4
  <2>2. Completed({d}) \in Outcomes /\ Completed({d}).data = {d}
    BY OutcomesAre DEF Completed
  <2> QED
    BY <1>1, <1>3, <2>1, <2>2, QuietlyKeeps
<1> QED
  BY <1>1, <1>2, <1>3, FromBrowserIs

LEMMA CreateDraftInv ==
    ASSUME DraftInv, NEW c \in Callers, CreateDraft(c)
    PROVE  DraftInv'
<1>0. IInv /\ Global /\ Where(c) /\ Knows(c) /\ Asked(c) \in Docs
  BY CallFacts DEF DraftInv, CallerInv
<1> DEFINE found == FromBrowser(Asked(c).id)
           fresh == [Asked(c) EXCEPT !.revision = 1]
<1>1. Reaches(c) = <<"services", "CreateDraft">> /\ Asked(c).id \in DraftIds /\ BrowserFiles
  BY <1>0, DocFields DEF CreateDraft, Performing, Global
<1>2. Quietly(c, CASE found.disposition = "COMPLETED" -> Rejected("DRAFT_EXISTS")
                   [] found = Rejected("NOT_FOUND") -> Completed({fresh})
                   [] OTHER -> found)
  BY DEF CreateDraft
<1>3. known[c] = {}
  BY <1>0, <1>1, KnowsReach
<1>4. fresh \in Docs
  <2>1. 1 <= MaxRevision /\ MaxRevision \in Nat
    BY <1>0, DocFields, DraftAssumption
  <2>2. \A n \in Nat : 1 <= n /\ n <= MaxRevision => [Asked(c) EXCEPT !.revision = n] \in Docs
    BY <1>0, Renumbered
  <2> QED
    BY <2>1, <2>2
<1>5. CASE found.disposition = "COMPLETED"
  <2>1. found # Rejected("NOT_FOUND") /\ Quietly(c, Rejected("DRAFT_EXISTS"))
    BY <1>2, <1>5 DEF Rejected
  <2> QED
    BY <2>1, RejectionKeeps
<1>6. CASE found = Rejected("NOT_FOUND")
  <2>1. Quietly(c, Completed({fresh}))
    BY <1>2, <1>6 DEF Rejected
  <2> QED
    BY <1>3, <1>4, <2>1, OutcomesAre, QuietlyKeeps
<1>7. CASE found = Rejected("INVALID_COMMAND")
  <2>1. Quietly(c, Rejected("INVALID_COMMAND"))
    BY <1>2, <1>7 DEF Rejected
  <2> QED
    BY <2>1, RejectionKeeps
<1>8. \/ found \in {Rejected("NOT_FOUND"), Rejected("INVALID_COMMAND")}
      \/ \E d \in Docs : found = Completed({d})
  BY <1>1, FromBrowserIs
<1>9. \A d \in Docs : Completed({d}).disposition = "COMPLETED"
  BY DEF Completed
<1> QED
  BY <1>5, <1>6, <1>7, <1>8, <1>9

\* The documents of a store that can be read.
LEMMA SummariesAre ==
    ASSUME NEW store \in SUBSET File, Readable(store)
    PROVE  Summaries(store) \in SUBSET Docs
BY FileFields DEF Summaries, Readable

LEMMA ListBrowserInv ==
    ASSUME DraftInv, NEW c \in Callers, ListBrowser(c)
    PROVE  DraftInv'
<1>0. /\ IInv /\ Global /\ Where(c) /\ Knows(c) /\ Fresh(c)
      /\ At(c, "invoking") /\ browser \subseteq File
  BY DEF DraftInv, CallerInv, ListBrowser, Performing, Global, BrowserFiles
<1>1. CASE Quietly(c, Rejected("INVALID_COMMAND"))
  BY <1>1, RejectionKeeps
<1>2. CASE /\ Readable(browser) /\ Reaches(c) = <<"services", "ListDrafts">>
           /\ Quietly(c, Completed(Summaries(browser)))
  <2>1. known[c] = {}
    BY <1>0, <1>2, KnowsReach
  <2>2. Completed(Summaries(browser)) \in Outcomes
    BY <1>0, <1>2, SummariesAre, OutcomesAre
  <2> QED
    BY <1>2, <2>1, <2>2, QuietlyKeeps
<1>3. CASE /\ Readable(browser) /\ Reaches(c) = <<"pfd", "pfd.list">>
           /\ Continue(c, [at |-> "listed", seen |-> Summaries(browser)])
           /\ UNCHANGED <<browser, native>>
  <2> DEFINE s == [at |-> "listed", seen |-> Summaries(browser)]
  <2>1. s.at = "listed" /\ s.seen \in SUBSET Docs
    BY <1>0, <1>3, SummariesAre
  <2>2. UNCHANGED <<vars, known, acknowledged>>
    BY <1>3 DEF Continue
  <2>3. ASSUME step'[c] = s PROVE CallerInv(c)'
    <3>1. Where(c)'
      BY <1>0, <1>3, <2>1, <2>2, <2>3 DEF Where, Busy, At, Reaches, Verdict, vars, regVars
    <3>2. BrowserSave(c)' /\ NativeSave(c)'
      BY <2>1, <2>3 DEF BrowserSave, NativeSave
    <3>3. Knows(c)' /\ Fresh(c)'
      BY <1>0, <2>1, <2>2, <2>3 DEF Knows, Fresh, Busy, At, vars
    <3> QED
      BY <3>1, <3>2, <3>3 DEF CallerInv
  <2>4. Continue(c, s) /\ s.at = "listed"
    BY <1>3
  <2> HIDE DEF s
  <2> QED
    BY <1>3, <2>3, <2>4, ContinueKeeps
<1>4. Reaches(c) \in {<<"services", "ListDrafts">>, <<"pfd", "pfd.list">>}
  BY DEF ListBrowser, Performing
<1>5. /\ <<"services", "ListDrafts">>[1] = "services"
      /\ <<"pfd", "pfd.list">>[1] = "pfd"
  OBVIOUS
<1> QED
  BY <1>1, <1>2, <1>3, <1>4, <1>5 DEF ListBrowser

\* Who saves what is new finds the latest revision of its name, and saves the one that follows,
\* which has no file yet.
LEMMA SuccessorIs ==
    ASSUME BrowserFiles, NEW d \in Docs, NEW name \in DraftIds, SafeName[d.id] = name,
           IsNew(name, d)
    PROVE  LET next == Successor(name, d) IN
           /\ next \in Docs /\ next.id = d.id
           /\ Sequel(browser, contested, name, next.revision, next)
           /\ \A g \in browser : ~(g.name = name /\ g.revision = next.revision)
<1> DEFINE none == Named(browser, name) = {}
           last == Latest(browser, name)
           n == IF none THEN 1 ELSE last.doc.revision + 1
           next == Successor(name, d)
<1>1. ~none => /\ last \in browser /\ last.name = name
               /\ \A g \in Named(browser, name) : g.revision <= last.revision
  BY LatestIs DEF BrowserFiles
<1>2. ~none => last.doc # Torn /\ last.doc # [d EXCEPT !.revision = last.doc.revision]
  BY DEF IsNew, Unchanged
<1>3. ~none => /\ last.doc \in Docs /\ last.doc.revision = last.revision
               /\ last.revision \in Nat /\ 1 <= last.revision
  BY <1>1, <1>2, FileFields DEF BrowserFiles
<1>4. n \in Nat /\ 1 <= n /\ next = [d EXCEPT !.revision = n]
  BY <1>3 DEF Successor
<1>5. next.revision = n
  BY <1>4 DEF Docs
<1>6. n <= MaxRevision
  BY <1>5 DEF IsNew
<1> HIDE DEF next, n
<1>7. next \in Docs /\ next.id = d.id
  BY <1>4, <1>6, Renumbered
<1>8. Sequel(browser, contested, name, n, next)
  <2>1. CASE none
    BY <2>1 DEF Sequel, n
  <2>2. CASE ~none
    <3>1. [last.doc EXCEPT !.revision = n] # next
      BY <1>2, <1>3, <1>4, <1>6, <2>2, ChangesAnyway
    <3>2. last.revision = n - 1
      BY <1>3, <2>2 DEF n
    <3> QED
      BY <1>1, <1>2, <2>2, <3>1, <3>2 DEF Sequel
  <2> QED
    BY <2>1, <2>2
<1>9. ASSUME NEW g \in browser, g.name = name, g.revision = n
      PROVE  FALSE
  <2>1. ~none /\ g.revision <= last.revision
    BY <1>1, <1>9 DEF Named
  <2> QED
    BY <1>3, <1>9, <2>1 DEF n
<1> QED
  BY <1>5, <1>7, <1>8, <1>9 DEF next

\* A save finds the latest revision: it is what is saved already, or the one that follows.
LEMMA SaveBrowserInv ==
    ASSUME DraftInv, NEW c \in Callers, SaveBrowser(c)
    PROVE  DraftInv'
<1>0. /\ IInv /\ Global /\ Where(c) /\ Knows(c) /\ Fresh(c)
      /\ At(c, "invoking") /\ Asked(c) \in Docs /\ BrowserFiles
      /\ Reaches(c) = <<"services", "draft.save">> /\ BrowserLockFree
  BY CallFacts DEF DraftInv, CallerInv, SaveBrowser, Performing, Global
<1> DEFINE name == SafeName[Asked(c).id]
           none == Named(browser, name) = {}
           last == Latest(browser, name)
           doc == Successor(name, Asked(c))
<1>1. known[c] = {}
  BY <1>0, KnowsReach
<1>2. name \in DraftIds /\ Asked(c).id \in DraftIds
  BY <1>0, DocFields, DraftAssumption
<1>3. ~none => /\ last \in browser /\ last.name = name
               /\ \A g \in Named(browser, name) : g.revision <= last.revision
  BY <1>0, <1>2, LatestIs DEF BrowserFiles
<1>4. ~none /\ last.doc # Torn => last.doc \in Docs /\ last.doc.revision = last.revision
  BY <1>0, <1>3, FileFields DEF BrowserFiles
<1>5. CASE Quietly(c, Rejected("INVALID_COMMAND"))
  BY <1>5, RejectionKeeps
<1>6. CASE /\ Unchanged(browser, name, Asked(c)) /\ Acknowledge(c, "browser", name, last.doc)
           /\ UNCHANGED native
  <2>1. ~none /\ last.doc # Torn
    BY <1>6 DEF Unchanged
  <2>2. FileOf(last.doc, name) = last
    BY <1>3, <1>4, <1>0, <2>1, FileFields DEF FileOf, BrowserFiles
  <2>3. Completed({last.doc}) \in Outcomes
    BY <1>4, <2>1, OutcomesAre
  <2>4. /\ Finish(c, Completed({last.doc})) /\ UNCHANGED <<browser, native, otherVars, known>>
        /\ acknowledged' = acknowledged \cup {<<"browser", last>>}
    BY <1>6, <2>2 DEF Acknowledge
  <2>5. last \in browser
    BY <1>3, <2>1
  <2> HIDE DEF last, name
  <2> QED
    BY <1>1, <2>1, <2>3, <2>4, <2>5, FinishKeeps
<1>7. CASE /\ IsNew(name, Asked(c))
           /\ Continue(c, [at |-> "browser", doc |-> doc]) /\ UNCHANGED <<browser, native>>
  <2> DEFINE s == [at |-> "browser", doc |-> doc]
  <2>1. /\ doc \in Docs /\ doc.id = Asked(c).id
        /\ Sequel(browser, contested, name, doc.revision, doc)
        /\ \A g \in browser : ~(g.name = name /\ g.revision = doc.revision)
    BY <1>0, <1>2, <1>7, SuccessorIs
  <2>2. s.at = "browser" /\ s.doc = doc /\ s = [at |-> s.at, doc |-> s.doc] /\ Continue(c, s)
    BY <1>7
  <2>3. /\ UNCHANGED <<vars, known, acknowledged, browser, native>>
        /\ contested' = contested /\ Asked(c)' = Asked(c)
    BY <1>7 DEF Continue, otherVars, vars, Asked
  <2> HIDE DEF s, doc
  <2>4. ASSUME step'[c] = s PROVE CallerInv(c)'
    <3>1. Where(c)'
      BY <1>0, <2>2, <2>3, <2>4 DEF Where, Busy, At, Reaches, Verdict, vars, regVars
    <3>2. BrowserSave(c)'
      BY <2>1, <2>2, <2>3, <2>4 DEF BrowserSave, Sequel
    <3>3. NativeSave(c)'
      BY <2>2, <2>4 DEF NativeSave
    <3>4. Knows(c)' /\ Fresh(c)'
      BY <1>0, <2>2, <2>3, <2>4 DEF Knows, Fresh, Busy, At, vars
    <3> QED
      BY <3>1, <3>2, <3>3, <3>4 DEF CallerInv
  <2> QED
    BY <1>0, <2>2, <2>3, <2>4, ContinueKeeps
<1> QED
  BY <1>5, <1>6, <1>7 DEF SaveBrowser

\* A test that finds no file lets the save go on.
LEMMA TestFileInv ==
    ASSUME DraftInv, NEW c \in Callers, TestFile(c)
    PROVE  DraftInv'
<1> DEFINE s == [step[c] EXCEPT !.at = "opening"]
<1>0. /\ IInv /\ Global /\ Where(c) /\ BrowserSave(c) /\ Knows(c) /\ Fresh(c)
      /\ Holds(c, {"browser"})
  BY DEF DraftInv, CallerInv, TestFile
<1>1. CASE Quietly(c, Rejected("BOUNDARY_FAILURE"))
  BY <1>1, RejectionKeeps
<1>2. CASE Continue(c, s) /\ UNCHANGED <<browser, native>>
  <2>1. s.at = "opening" /\ s.doc = step[c].doc /\ s = [at |-> s.at, doc |-> s.doc] /\ Continue(c, s)
    <3>1. step[c] = [at |-> step[c].at, doc |-> step[c].doc]
      BY <1>0 DEF Holds, Where
    <3> QED
      BY <1>2, <3>1
  <2>2. /\ UNCHANGED <<vars, known, acknowledged, browser, native>>
        /\ contested' = contested /\ Asked(c)' = Asked(c)
    BY <1>2 DEF Continue, otherVars, vars, Asked
  <2> HIDE DEF s
  <2>3. ASSUME step'[c] = s PROVE CallerInv(c)'
    <3>1. Where(c)'
      BY <1>0, <2>1, <2>2, <2>3 DEF Where, Holds, Busy, At, Reaches, Verdict, vars, regVars
    <3>2. BrowserSave(c)'
      <4> DEFINE doc == step[c].doc
                 name == SafeName[Asked(c).id]
      <4>1. /\ doc \in Docs /\ doc.id = Asked(c).id
            /\ Sequel(browser, contested, name, doc.revision, doc)
            /\ \A g \in browser : g.name = name /\ g.revision = doc.revision
                                     => Place(g) \in contested
        BY <1>0 DEF BrowserSave, Holds
      <4>2. /\ step'[c].at = "opening" /\ step'[c].doc = doc /\ SafeName[Asked(c)'.id] = name
            /\ browser' = browser /\ contested' = contested
        BY <2>1, <2>2, <2>3
      <4> HIDE DEF doc, name
      <4>3. Sequel(browser', contested', name, doc.revision, doc)
        BY <4>1, <4>2
      <4> QED
        BY <2>2, <4>1, <4>2, <4>3 DEF BrowserSave, Sequel
    <3>3. NativeSave(c)'
      BY <2>1, <2>3 DEF NativeSave
    <3>4. Knows(c)' /\ Fresh(c)'
      BY <1>0, <2>1, <2>2, <2>3 DEF Knows, Fresh, Busy, At, vars
    <3> QED
      BY <3>1, <3>2, <3>3, <3>4 DEF CallerInv
  <2> QED
    BY <1>0, <1>2, <2>1, <2>3, ContinueKeeps DEF Holds
<1> QED
  BY <1>1, <1>2 DEF TestFile

\* What holds of the browser's store when a file is put where none was, or a torn one, or one
\* that counts as contested: its files, what follows what, and what was acknowledged.
LEMMA BrowserPut ==
    ASSUME Global, NEW p \in File, browser' = Put(browser, p), contested \subseteq contested',
           SafeName[p.name] = p.name,
           p.doc # Torn => p.doc.revision = p.revision /\ SafeName[p.doc.id] = p.name,
           Sequel(browser, contested, p.name, p.revision, p.doc),
           \A g \in browser : Place(g) = Place(p) => Place(p) \in contested' \/ g.doc = Torn
    PROVE  /\ BrowserFiles' /\ Sequels(browser, contested)'
           /\ \A name, revision, doc : Sequel(browser, contested, name, revision, doc)
                                           => Sequel(browser', contested', name, revision, doc)
           /\ \A a \in acknowledged : a[1] = "browser" =>
                 Taken(browser, a[2])' /\ (Place(a[2]) \notin contested' => a[2] \in browser')
<1>0. browser \in SUBSET File /\ Distinct(browser) /\ HasLatest(browser)
  BY DEF Global, BrowserFiles
<1>1. /\ Put(browser, p) \subseteq File /\ Distinct(Put(browser, p))
      /\ HasLatest(Put(browser, p)) /\ p \in Put(browser, p)
      /\ \A g \in Put(browser, p) \ {p} : g \in browser
      /\ \A g \in browser : Place(g) # Place(p) => g \in Put(browser, p)
  BY <1>0, PutFile
<1>2. BrowserFiles'
  <2>1. browser' \subseteq File /\ Distinct(browser') /\ HasLatest(browser')
    BY <1>1
  <2>2. \A g \in browser' :
           /\ SafeName[g.name] = g.name
           /\ g.doc # Torn => g.doc.revision = g.revision /\ SafeName[g.doc.id] = g.name
    BY <1>1 DEF Global, BrowserFiles
  <2> QED
    BY <2>1, <2>2 DEF BrowserFiles, Distinct, HasLatest, Named
<1>3. ASSUME NEW name, NEW revision, NEW doc, Sequel(browser, contested, name, revision, doc)
      PROVE  Sequel(browser', contested', name, revision, doc)
  BY <1>0, <1>3, SequelStays
<1>4. ASSUME NEW g \in browser'
      PROVE  Sequel(browser', contested', g.name, g.revision, g.doc)
  <2>1. CASE g = p
    BY <1>3, <2>1
  <2>2. CASE g # p
    <3>1. Sequel(browser, contested, g.name, g.revision, g.doc)
      BY <1>1, <1>4, <2>2 DEF Global, Changes, Sequels
    <3> QED
      BY <1>3, <3>1
  <2> QED
    BY <2>1, <2>2
<1>5. ASSUME NEW a \in acknowledged, a[1] = "browser"
      PROVE  Taken(browser', a[2]) /\ (Place(a[2]) \notin contested' => a[2] \in browser')
  <2>1. PICK g \in browser : Place(g) = Place(a[2])
    BY <1>5 DEF Global, AcknowledgedStay, Taken
  <2>2. Taken(browser', a[2])
    BY <1>1, <2>1 DEF Taken
  <2>3. ASSUME Place(a[2]) \notin contested'
        PROVE  a[2] \in browser'
    <3>1. a[2] \in browser /\ a[2].doc # Torn
      BY <1>5, <2>3 DEF Global, AcknowledgedStay
    <3> QED
      BY <1>1, <2>3, <3>1
  <2> QED
    BY <2>2, <2>3
<1>6. Sequels(browser, contested)'
  BY <1>4 DEF Sequels, Sequel
<1>7. \A name, revision, doc : Sequel(browser, contested, name, revision, doc)
                                   => Sequel(browser', contested', name, revision, doc)
  BY <1>3
<1>8. \A a \in acknowledged : a[1] = "browser" =>
         Taken(browser, a[2])' /\ (Place(a[2]) \notin contested' => a[2] \in browser')
  BY <1>5 DEF Taken
<1> QED
  BY <1>2, <1>6, <1>7, <1>8

\* What is left of the invariant then, when only such a file was acknowledged.
LEMMA BrowserWritten ==
    ASSUME Global, UNCHANGED <<native, foreign>>, BrowserFiles', Sequels(browser, contested)',
           \A a \in acknowledged : a[1] = "browser" =>
              Taken(browser, a[2])' /\ (Place(a[2]) \notin contested' => a[2] \in browser'),
           \A a \in acknowledged' \ acknowledged :
              /\ a[1] = "browser" /\ a[2] \in File /\ a[2].doc # Torn
              /\ Taken(browser, a[2])' /\ (Place(a[2]) \notin contested' => a[2] \in browser'),
           ElsewhereSave', OneSaver', DOMAIN step' = Callers, DOMAIN known' = Callers
    PROVE  Global'
<1>1. NativeFiles'
  BY DEF Global, NativeFiles, Distinct, HasLatest, Named
<1>2. Changes'
  <2>1. \A g \in native : g.revision \notin Imported => IsChange(native, {}, g)
    BY DEF Global, Changes
  <2> QED
    BY <2>1 DEF Changes, IsChange, Imported
<1>3. \A a \in acknowledged' :
         /\ a[1] \in {"browser", "native"} /\ a[2].name \in DraftIds
         /\ a[2].revision \in Nat /\ a[2].doc # Torn
         /\ IF a[1] = "native" THEN a[2] \in native
            ELSE Taken(browser, a[2])' /\ (Place(a[2]) \notin contested' => a[2] \in browser')
  <2> TAKE a \in acknowledged'
  <2>1. CASE a \in acknowledged
    <3>1. /\ a[1] \in {"browser", "native"} /\ a[2].name \in DraftIds
          /\ a[2].revision \in Nat /\ a[2].doc # Torn
          /\ a[1] = "native" => a[2] \in native
      BY <2>1 DEF Global, AcknowledgedStay
    <3> QED
      BY <2>1, <3>1
  <2>2. CASE a \notin acknowledged
    <3>1. /\ a[1] = "browser" /\ a[2] \in File /\ a[2].doc # Torn
          /\ Taken(browser, a[2])' /\ (Place(a[2]) \notin contested' => a[2] \in browser')
      BY <2>2
    <3>2. a[2].name \in DraftIds /\ a[2].revision \in Nat
      BY <3>1, FileFields
    <3> QED
      BY <3>1, <3>2
  <2> QED
    BY <2>1, <2>2
<1>4. AcknowledgedStay'
  BY <1>3 DEF AcknowledgedStay, Taken
<1> QED
  BY <1>1, <1>2, <1>3, <1>4 DEF Global

\* What the other process saves follows what it followed.
LEMMA ElsewhereStays ==
    ASSUME ElsewhereSave, elsewhere' = elsewhere, contested \subseteq contested',
           \A name, revision, doc : Sequel(browser, contested, name, revision, doc)
                                        => Sequel(browser', contested', name, revision, doc)
    PROVE  ElsewhereSave'
<1> DEFINE f == elsewhere.file
<1> SUFFICES ASSUME elsewhere # NoStep
             PROVE  /\ elsewhere = [at |-> elsewhere.at, file |-> f]
                    /\ f \in File /\ f.doc \in Docs /\ f.doc.revision = f.revision
                    /\ SafeName[f.name] = f.name /\ SafeName[f.doc.id] = f.name
                    /\ Sequel(browser', contested', f.name, f.revision, f.doc)
                    /\ elsewhere.at = "torn" => Place(f) \in contested'
  BY DEF ElsewhereSave, Sequel
<1>1. /\ elsewhere = [at |-> elsewhere.at, file |-> f]
      /\ f \in File /\ f.doc \in Docs /\ f.doc.revision = f.revision
      /\ SafeName[f.name] = f.name /\ SafeName[f.doc.id] = f.name
      /\ Sequel(browser, contested, f.name, f.revision, f.doc)
      /\ elsewhere.at = "torn" => Place(f) \in contested
  BY DEF ElsewhereSave
<1> HIDE DEF f
<1>2. Sequel(browser', contested', f.name, f.revision, f.doc)
  BY <1>1
<1> QED
  BY <1>1, <1>2

\* The file of a save and the same file while it is empty.
LEMMA DestinationIs ==
    ASSUME IInv, NEW c \in Callers, BrowserSave(c), Holds(c, {"browser", "opening", "torn"})
    PROVE  LET f == Destination(c)
               torn == [f EXCEPT !.doc = Torn]
               name == SafeName[Asked(c).id]
               doc == step[c].doc IN
           /\ name \in DraftIds /\ SafeName[name] = name /\ SafeName[doc.id] = name
           /\ doc \in Docs /\ doc # Torn /\ doc.id = Asked(c).id
           /\ f \in File /\ f.name = name /\ f.revision = doc.revision /\ f.doc = doc
           /\ torn \in File /\ torn.name = name /\ torn.revision = doc.revision /\ torn.doc = Torn
           /\ Place(f) = <<name, doc.revision>> /\ Place(torn) = <<name, doc.revision>>
           /\ Sequel(browser, contested, name, doc.revision, doc)
           /\ Sequel(browser, contested, name, doc.revision, Torn)
           /\ \A g \in browser : Place(g) = <<name, doc.revision>> =>
                 Place(g) \in contested \/ (Holds(c, {"torn"}) /\ g.doc = Torn)
<1> DEFINE name == SafeName[Asked(c).id]
           doc == step[c].doc
           f == Destination(c)
           torn == [f EXCEPT !.doc = Torn]
<1>1. /\ doc \in Docs /\ doc.id = Asked(c).id
      /\ Sequel(browser, contested, name, doc.revision, doc)
      /\ \A g \in browser :
            g.name = name /\ g.revision = doc.revision =>
                Place(g) \in contested \/ (step[c].at = "torn" /\ g.doc = Torn)
  BY DEF BrowserSave, Holds
<1>2. name \in DraftIds /\ SafeName[name] = name /\ doc # Torn
  BY <1>1, CallFacts, DocFields, DraftAssumption
<1>3. f = FileOf(doc, name)
  BY DEF Destination
<1>4. /\ f \in File /\ f.name = name /\ f.revision = doc.revision /\ f.doc = doc
      /\ torn \in File /\ torn.name = name /\ torn.revision = doc.revision /\ torn.doc = Torn
  BY <1>1, <1>2, <1>3, FileOfDoc
<1> HIDE DEF torn, f, doc, name
<1>5. Place(f) = <<name, doc.revision>> /\ Place(torn) = <<name, doc.revision>>
  BY <1>4 DEF Place
<1>6. Sequel(browser, contested, name, doc.revision, Torn)
  BY <1>1, <1>2, SequelTorn
<1>7. \A g \in browser : Place(g) = <<name, doc.revision>> =>
         Place(g) \in contested \/ (Holds(c, {"torn"}) /\ g.doc = Torn)
  BY <1>1 DEF Place, Holds
<1>8. SafeName[doc.id] = name
  BY <1>1 DEF name
<1> QED
  BY <1>1, <1>2, <1>4, <1>5, <1>6, <1>7, <1>8 DEF torn, f, doc, name

\* The file is opened: its revision was free, or the other process has opened it.
LEMMA OpenFileInv ==
    ASSUME DraftInv, NEW c \in Callers, OpenFile(c)
    PROVE  DraftInv'
<1> DEFINE name == SafeName[Asked(c).id]
           doc == step[c].doc
           f == Destination(c)
           torn == [f EXCEPT !.doc = Torn]
           s == [step[c] EXCEPT !.at = "torn"]
<1>0. /\ IInv /\ Global /\ Where(c) /\ BrowserSave(c) /\ Knows(c) /\ Fresh(c)
      /\ Holds(c, {"opening"}) /\ \A d \in Callers : CallerInv(d)
  BY DEF DraftInv, CallerInv, OpenFile
<1>1. CASE Quietly(c, Rejected("BOUNDARY_FAILURE"))
  BY <1>1, RejectionKeeps
<1>2. CASE browser' = Put(browser, torn) /\ Continue(c, s) /\ UNCHANGED native
  <2>1. /\ SafeName[name] = name /\ doc \in Docs /\ doc.id = Asked(c).id
        /\ torn \in File /\ torn.name = name /\ torn.revision = doc.revision /\ torn.doc = Torn
        /\ Place(torn) = <<name, doc.revision>>
        /\ Sequel(browser, contested, name, doc.revision, doc)
        /\ Sequel(browser, contested, name, doc.revision, Torn)
        /\ \A g \in browser : Place(g) = <<name, doc.revision>> => Place(g) \in contested
    <3>1. Holds(c, {"browser", "opening", "torn"}) /\ ~Holds(c, {"torn"})
      BY <1>0 DEF Holds
    <3> QED
      BY <1>0, <3>1, DestinationIs
  <2>2. /\ step' = [step EXCEPT ![c] = s]
        /\ UNCHANGED <<vars, acknowledged, known>>
        /\ foreign' = foreign /\ elsewhere' = elsewhere /\ contested' = contested
    BY <1>2 DEF Continue, otherVars
  <2>3. s.at = "torn" /\ s.doc = doc /\ s = [at |-> s.at, doc |-> s.doc]
    <3>1. step[c] = [at |-> step[c].at, doc |-> doc]
      BY <1>0 DEF Holds, Where
    <3> QED
      BY <3>1
  <2> HIDE DEF s, torn, f
  <2>4. /\ BrowserFiles' /\ Sequels(browser, contested)'
        /\ \A n, revision, d : Sequel(browser, contested, n, revision, d)
                                   => Sequel(browser', contested', n, revision, d)
        /\ \A a \in acknowledged : a[1] = "browser" =>
              Taken(browser, a[2])' /\ (Place(a[2]) \notin contested' => a[2] \in browser')
    BY <1>0, <1>2, <2>1, <2>2, BrowserPut
  <2>5. OneSaver' /\ DOMAIN step' = Callers
    BY <1>0, <2>2, <2>3, LocksKept DEF Global, Holds
  <2>6. ElsewhereSave'
    BY <1>0, <2>2, <2>4, ElsewhereStays DEF Global
  <2>7. Global'
    <3>1. DOMAIN known' = Callers /\ acknowledged' \ acknowledged = {}
      BY <1>0, <2>2 DEF Global
    <3> QED
      BY <1>0, <1>2, <2>2, <2>4, <2>5, <2>6, <3>1, BrowserWritten
  <2>8. IInv'
    BY <1>0, <2>2, StepInv
  <2>9. step'[c] = s /\ \A d \in Callers \ {c} : step'[d] = step[d]
    BY <1>0, <2>2 DEF Global
  <2>10. CallerInv(c)'
    <3>1. Where(c)'
      BY <1>0, <2>2, <2>3, <2>9 DEF Where, Holds, Busy, At, Reaches, Verdict, vars, regVars
    <3>2. BrowserSave(c)'
      <4>1. /\ step'[c].at = "torn" /\ step'[c].doc = doc /\ Asked(c)' = Asked(c)
        BY <2>2, <2>3, <2>9 DEF vars, Asked
      <4>3. ASSUME NEW g \in browser', g.name = name, g.revision = doc.revision
            PROVE  g.doc = Torn
        BY <1>2, <2>1, <4>3 DEF Put, Place
      <4> HIDE DEF name, doc
      <4>4. Sequel(browser', contested', name, doc.revision, doc)
        BY <2>1, <2>4
      <4> QED
        BY <2>1, <4>1, <4>3, <4>4 DEF BrowserSave, name, doc, Sequel
    <3>3. NativeSave(c)'
      BY <2>3, <2>9 DEF NativeSave
    <3>4. Knows(c)' /\ Fresh(c)'
      BY <1>0, <2>2, <2>3, <2>9 DEF Knows, Fresh, Busy, At, vars
    <3> QED
      BY <3>1, <3>2, <3>3, <3>4 DEF CallerInv
  <2>11. ASSUME NEW d \in Callers, d # c
         PROVE  CallerInv(d)'
    <3>1. ~Holds(d, {"browser", "opening", "torn"})
      BY <1>0, <2>11 DEF Global, OneSaver, Holds
    <3>2. call'[d] = call[d] /\ step'[d] = step[d] /\ known'[d] = known[d] /\ registry' = registry
      BY <2>2, <2>9, <2>11 DEF vars, regVars
    <3> QED
      BY <1>2, <2>2, <3>1, <3>2, Untouched
  <2> QED
    BY <2>7, <2>8, <2>10, <2>11 DEF DraftInv
<1> QED
  BY <1>1, <1>2 DEF OpenFile, Open

\* The file is written where the torn one was, or the other process has opened it too; then
\* it may be left torn.
LEMMA WriteFileInv ==
    ASSUME DraftInv, NEW c \in Callers, WriteFile(c)
    PROVE  DraftInv'
<1> DEFINE name == SafeName[Asked(c).id]
           doc == step[c].doc
           f == Destination(c)
           torn == [f EXCEPT !.doc = Torn]
<1>0. /\ IInv /\ Global /\ Where(c) /\ BrowserSave(c) /\ Knows(c) /\ Holds(c, {"torn"})
  BY DEF DraftInv, CallerInv, WriteFile
<1>1. CASE Quietly(c, Rejected("BOUNDARY_FAILURE"))
  BY <1>1, RejectionKeeps
<1>2. CASE /\ Write(f) /\ acknowledged' = acknowledged \cup {<<"browser", f>>}
           /\ Finish(c, Completed({doc})) /\ UNCHANGED <<native, otherVars, known>>
  <2>1. /\ SafeName[name] = name /\ SafeName[doc.id] = name /\ doc \in Docs /\ doc # Torn
        /\ f \in File /\ f.name = name /\ f.revision = doc.revision /\ f.doc = doc
        /\ torn \in File /\ torn.name = name /\ torn.revision = doc.revision /\ torn.doc = Torn
        /\ Place(f) = <<name, doc.revision>> /\ Place(torn) = <<name, doc.revision>>
        /\ Sequel(browser, contested, name, doc.revision, doc)
        /\ Sequel(browser, contested, name, doc.revision, Torn)
        /\ \A g \in browser : Place(g) = <<name, doc.revision>> =>
              Place(g) \in contested \/ g.doc = Torn
    <3>1. Holds(c, {"browser", "opening", "torn"})
      BY <1>0 DEF Holds
    <3> QED
      BY <1>0, <3>1, DestinationIs
  <2>2. foreign' = foreign /\ elsewhere' = elsewhere /\ contested' = contested
    BY <1>2 DEF otherVars
  <2>3. known[c] = {}
    <3>1. Reaches(c) = <<"services", "draft.save">>
      BY <1>0 DEF Where, Holds
    <3> QED
      BY <1>0, <3>1, KnowsReach
  <2>4. /\ IInv' /\ OneSaver' /\ DOMAIN step' = Callers /\ DOMAIN known' = Callers
        /\ \A d \in Callers : CallerInv(d)'
    <3>1. Completed({doc}) \in Outcomes
      BY <2>1, OutcomesAre
    <3>2. Holds(c, {"browser", "opening", "torn"})
      BY <1>0 DEF Holds
    <3> QED
      BY <1>2, <2>3, <3>1, <3>2, FinishCallers
  <2> HIDE DEF f, torn, name, doc
  <2>5. ASSUME NEW p \in {f, torn}, browser' = Put(browser, p),
               p = torn => Place(f) \in contested'
        PROVE  Global'
    <3>1. /\ p \in File /\ SafeName[p.name] = p.name
          /\ p.doc # Torn => p.doc.revision = p.revision /\ SafeName[p.doc.id] = p.name
          /\ Sequel(browser, contested, p.name, p.revision, p.doc)
          /\ Place(p) = Place(f)
          /\ \A g \in browser : Place(g) = Place(p) => Place(p) \in contested' \/ g.doc = Torn
      BY <2>1, <2>2
    <3>2. /\ BrowserFiles' /\ Sequels(browser, contested)'
          /\ \A n, revision, d : Sequel(browser, contested, n, revision, d)
                                     => Sequel(browser', contested', n, revision, d)
          /\ \A a \in acknowledged : a[1] = "browser" =>
                Taken(browser, a[2])' /\ (Place(a[2]) \notin contested' => a[2] \in browser')
      BY <1>0, <2>2, <2>5, <3>1, BrowserPut
    <3>3. ElsewhereSave'
      BY <1>0, <2>2, <3>2, ElsewhereStays DEF Global
    <3>4. p \in browser'
      BY <2>5 DEF Put
    <3>5. \A a \in acknowledged' \ acknowledged :
             /\ a[1] = "browser" /\ a[2] \in File /\ a[2].doc # Torn
             /\ Taken(browser, a[2])' /\ (Place(a[2]) \notin contested' => a[2] \in browser')
      BY <1>2, <2>1, <2>5, <3>1, <3>4 DEF Taken
    <3> QED
      BY <1>0, <1>2, <2>2, <2>4, <3>2, <3>3, <3>5, BrowserWritten
  <2>6. Global'
    <3>1. CASE browser' = Put(browser, f)
      <4>1. f = torn => FALSE
        BY <2>1
      <4> QED
        BY <2>5, <3>1, <4>1
    <3>2. ASSUME NEW g \in browser, Place(g) = Place(f), g.doc # Torn, browser' = Put(browser, torn)
          PROVE  Global'
      <4>1. Place(f) \in contested'
        BY <2>1, <2>2, <3>2
      <4> QED
        BY <2>5, <3>2, <4>1
    <3> QED
      BY <1>2, <3>1, <3>2 DEF Write, torn
  <2> QED
    BY <2>4, <2>6 DEF DraftInv
<1> QED
  BY <1>1, <1>2 DEF WriteFile

-------------------------------------------------------------------------------
(* The other process in the browser's store *)

\* What the other process writes leaves a thread where it is, with its save and its reads.
LEMMA Beside ==
    ASSUME DraftInv, NEW d \in Callers,
           UNCHANGED <<vars, step, known, native, foreign>>, acknowledged \subseteq acknowledged',
           contested \subseteq contested',
           \A g \in browser' : g \in browser \/ Place(g) \in contested',
           \A name, revision, doc : Sequel(browser, contested, name, revision, doc)
                                        => Sequel(browser', contested', name, revision, doc)
    PROVE  CallerInv(d)'
<1>0. call' = call /\ registry' = registry /\ Asked(d)' = Asked(d)
  BY DEF vars, regVars, Asked
<1>1. Where(d) /\ BrowserSave(d) /\ NativeSave(d) /\ Knows(d) /\ Fresh(d)
  BY DEF DraftInv, CallerInv
<1>2. Where(d)'
  BY <1>0, <1>1 DEF Where, At, Busy, Reaches, Verdict
<1>3. BrowserSave(d)'
  <2> DEFINE doc == step[d].doc
             name == SafeName[Asked(d).id]
  <2>1. CASE step[d].at \notin {"browser", "opening", "torn"}
    BY <2>1 DEF BrowserSave
  <2>2. CASE step[d].at \in {"browser", "opening", "torn"}
    <3>1. /\ doc \in Docs /\ doc.id = Asked(d).id
          /\ Sequel(browser, contested, name, doc.revision, doc)
          /\ \A g \in browser :
                g.name = name /\ g.revision = doc.revision =>
                    Place(g) \in contested \/ (step[d].at = "torn" /\ g.doc = Torn)
      BY <1>1, <2>2 DEF BrowserSave
    <3> HIDE DEF name, doc
    <3>2. Sequel(browser', contested', name, doc.revision, doc)
      BY <3>1
    <3>3. \A g \in browser' :
             g.name = name /\ g.revision = doc.revision =>
                 Place(g) \in contested' \/ (step[d].at = "torn" /\ g.doc = Torn)
      BY <3>1
    <3> QED
      BY <1>0, <3>1, <3>2, <3>3 DEF BrowserSave, Sequel, name, doc
  <2> QED
    BY <2>1, <2>2
<1>4. NativeSave(d)'
  BY <1>1 DEF NativeSave, Taken, Above, Named, Imported
<1>5. Knows(d)'
  BY <1>0, <1>1 DEF Knows, Busy
<1>6. Fresh(d)'
  BY <1>0, <1>1 DEF Fresh, At
<1> QED
  BY <1>2, <1>3, <1>4, <1>5, <1>6 DEF CallerInv

\* It finds the latest revision, and saves the one that follows.
LEMMA BeginElsewhereInv ==
    ASSUME DraftInv, NEW id \in DraftIds, NEW body \in Bodies, BeginElsewhere(id, body)
    PROVE  DraftInv'
<1> DEFINE doc == [id |-> id, revision |-> 1, body |-> body]
           name == SafeName[id]
           next == Successor(name, doc)
           f == FileOf(next, name)
<1>0. /\ IInv /\ Global /\ BrowserFiles /\ \A c \in Callers : CallerInv(c)
  BY DEF DraftInv, Global
<1>1. /\ IsNew(name, doc) /\ elsewhere' = [at |-> "opening", file |-> f]
      /\ UNCHANGED <<vars, browser, native, foreign, contested, step, acknowledged, known>>
  BY DEF BeginElsewhere
<1>2. name \in DraftIds /\ SafeName[name] = name
  BY DraftAssumption
<1>3. 1 \in Revisions
  <2>1. Successor(name, doc).revision <= MaxRevision
    BY <1>1 DEF IsNew
  <2>2. Successor(name, doc).revision
          = IF Named(browser, name) = {} THEN 1 ELSE Latest(browser, name).doc.revision + 1
    BY DEF Successor
  <2>3. Named(browser, name) # {} => Latest(browser, name) \in File
    BY <1>0, <1>2, LatestIs DEF BrowserFiles
  <2>4. Named(browser, name) # {} => 1 <= MaxRevision
    BY <2>3, FileFields, DraftAssumption
  <2> QED
    BY <2>1, <2>2, <2>4, DraftAssumption DEF Revisions
<1>4. doc \in Docs /\ doc.id = id
  BY <1>3 DEF Docs
<1> HIDE DEF doc
<1>5. next \in Docs /\ next.id = id /\ Sequel(browser, contested, name, next.revision, next)
  BY <1>0, <1>1, <1>2, <1>4, SuccessorIs
<1> HIDE DEF next
<1>6. f \in File /\ f.name = name /\ f.revision = next.revision /\ f.doc = next
  BY <1>2, <1>5, FileOfDoc
<1> HIDE DEF f
<1>7. SafeName[f.doc.id] = f.name
  BY <1>5, <1>6
<1>8. ElsewhereSave'
  BY <1>1, <1>2, <1>5, <1>6, <1>7 DEF ElsewhereSave, Sequel
<1>9. OneSaver' /\ DOMAIN step' = Callers /\ DOMAIN known' = Callers
  BY <1>0, <1>1 DEF Global, OneSaver, Holds
<1>10. Global'
  <2>1. Sequels(browser, contested)'
    BY <1>0, <1>1 DEF Global, Changes, Sequels, Sequel
  <2>2. BrowserFiles'
    BY <1>0, <1>1 DEF BrowserFiles, HasLatest, Named, Distinct
  <2>3. \A a \in acknowledged : a[1] = "browser" =>
           Taken(browser, a[2])' /\ (Place(a[2]) \notin contested' => a[2] \in browser')
    BY <1>0, <1>1 DEF Global, AcknowledgedStay, Taken
  <2>4. acknowledged' \ acknowledged = {}
    BY <1>1
  <2> QED
    BY <1>0, <1>1, <1>8, <1>9, <2>1, <2>2, <2>3, <2>4, BrowserWritten
<1>11. IInv'
  BY <1>0, <1>1, StepInv
<1>12. ASSUME NEW c \in Callers
       PROVE  CallerInv(c)'
  <2>1. call'[c] = call[c] /\ registry' = registry
    BY <1>1 DEF vars, regVars
  <2> QED
    BY <1>1, <2>1, Untouched
<1> QED
  BY <1>10, <1>11, <1>12 DEF DraftInv

\* Its file is opened, and counts as contested from then on.
LEMMA OpenElsewhereInv ==
    ASSUME DraftInv, OpenElsewhere
    PROVE  DraftInv'
<1> DEFINE f == elsewhere.file
           torn == [f EXCEPT !.doc = Torn]
<1>0. /\ IInv /\ Global /\ ElsewhereSave /\ \A c \in Callers : CallerInv(c)
  BY DEF DraftInv, Global
<1>1. /\ elsewhere.at = "opening" /\ browser' = Put(browser, torn)
      /\ elsewhere' = [elsewhere EXCEPT !.at = "torn"] /\ contested' = contested \cup {Place(f)}
      /\ UNCHANGED <<vars, native, foreign, step, acknowledged, known>>
  BY DEF OpenElsewhere, Open
<1>2. elsewhere # NoStep
  BY <1>1 DEF NoStep
<1>3. /\ elsewhere = [at |-> elsewhere.at, file |-> f]
      /\ f \in File /\ f.doc \in Docs /\ f.doc.revision = f.revision
      /\ SafeName[f.name] = f.name /\ SafeName[f.doc.id] = f.name
      /\ Sequel(browser, contested, f.name, f.revision, f.doc)
  BY <1>0, <1>2 DEF ElsewhereSave
<1>4. elsewhere' = [at |-> "torn", file |-> f]
  BY <1>1, <1>3
<1>5. /\ torn \in File /\ torn.name = f.name /\ torn.revision = f.revision /\ torn.doc = Torn
      /\ Place(torn) = Place(f)
  BY <1>3, FileFields DEF File, Place
<1>6. Sequel(browser, contested, f.name, f.revision, Torn)
  BY <1>3, DocFields, SequelTorn
<1> HIDE DEF torn, f
<1>7. /\ BrowserFiles' /\ Sequels(browser, contested)'
      /\ \A n, revision, d : Sequel(browser, contested, n, revision, d)
                                 => Sequel(browser', contested', n, revision, d)
      /\ \A a \in acknowledged : a[1] = "browser" =>
            Taken(browser, a[2])' /\ (Place(a[2]) \notin contested' => a[2] \in browser')
  BY <1>0, <1>1, <1>3, <1>5, <1>6, BrowserPut
<1>8. ElsewhereSave'
  <2>1. Sequel(browser', contested', f.name, f.revision, f.doc)
    BY <1>3, <1>7
  <2>2. elsewhere'.file = f /\ elsewhere'.at = "torn"
    BY <1>4
  <2> QED
    BY <1>1, <1>3, <1>4, <2>1, <2>2 DEF ElsewhereSave, Sequel
<1>9. OneSaver' /\ DOMAIN step' = Callers /\ DOMAIN known' = Callers
  BY <1>0, <1>1 DEF Global, OneSaver, Holds
<1>10. Global'
  <2>1. acknowledged' \ acknowledged = {}
    BY <1>1
  <2> QED
    BY <1>0, <1>1, <1>7, <1>8, <1>9, <2>1, BrowserWritten
<1>11. IInv'
  BY <1>0, <1>1, StepInv
<1>12. ASSUME NEW c \in Callers
       PROVE  CallerInv(c)'
  <2>1. \A g \in browser' : g \in browser \/ Place(g) \in contested'
    BY <1>1, <1>5 DEF Put
  <2> QED
    BY <1>1, <1>7, <2>1, Beside
<1> QED
  BY <1>10, <1>11, <1>12 DEF DraftInv

\* Its file is written, and may be left torn.
LEMMA WriteElsewhereInv ==
    ASSUME DraftInv, WriteElsewhere
    PROVE  DraftInv'
<1> DEFINE f == elsewhere.file
           torn == [f EXCEPT !.doc = Torn]
<1>0. /\ IInv /\ Global /\ ElsewhereSave /\ \A c \in Callers : CallerInv(c)
  BY DEF DraftInv, Global
<1>1. /\ elsewhere.at = "torn" /\ Write(f) /\ elsewhere' = NoStep
      /\ acknowledged' = acknowledged \cup {<<"browser", f>>}
      /\ UNCHANGED <<vars, native, foreign, contested, step, known>>
  BY DEF WriteElsewhere
<1>2. elsewhere # NoStep
  BY <1>1 DEF NoStep
<1>3. /\ f \in File /\ f.doc \in Docs /\ f.doc.revision = f.revision
      /\ SafeName[f.name] = f.name /\ SafeName[f.doc.id] = f.name
      /\ Sequel(browser, contested, f.name, f.revision, f.doc) /\ Place(f) \in contested
  BY <1>0, <1>1, <1>2 DEF ElsewhereSave
<1>4. /\ torn \in File /\ torn.name = f.name /\ torn.revision = f.revision /\ torn.doc = Torn
      /\ Place(torn) = Place(f)
  BY <1>3, FileFields DEF File, Place
<1>5. f.doc # Torn /\ Sequel(browser, contested, f.name, f.revision, Torn)
  BY <1>3, DocFields, SequelTorn
<1>6. PICK p \in {f, torn} : browser' = Put(browser, p)
  BY <1>1 DEF Write
<1> HIDE DEF torn, f
<1>7. /\ p \in File /\ SafeName[p.name] = p.name
      /\ p.doc # Torn => p.doc.revision = p.revision /\ SafeName[p.doc.id] = p.name
      /\ Sequel(browser, contested, p.name, p.revision, p.doc)
      /\ Place(p) = Place(f) /\ Place(p) \in contested'
  BY <1>1, <1>3, <1>4, <1>5, <1>6
<1>8. /\ BrowserFiles' /\ Sequels(browser, contested)'
      /\ \A n, revision, d : Sequel(browser, contested, n, revision, d)
                                 => Sequel(browser', contested', n, revision, d)
      /\ \A a \in acknowledged : a[1] = "browser" =>
            Taken(browser, a[2])' /\ (Place(a[2]) \notin contested' => a[2] \in browser')
  BY <1>0, <1>1, <1>6, <1>7, BrowserPut
<1>9. ElsewhereSave'
  BY <1>1 DEF ElsewhereSave
<1>10. OneSaver' /\ DOMAIN step' = Callers /\ DOMAIN known' = Callers
  BY <1>0, <1>1 DEF Global, OneSaver, Holds
<1>11. Global'
  <2>1. p \in browser'
    BY <1>6 DEF Put
  <2>2. \A a \in acknowledged' \ acknowledged :
           /\ a[1] = "browser" /\ a[2] \in File /\ a[2].doc # Torn
           /\ Taken(browser, a[2])' /\ (Place(a[2]) \notin contested' => a[2] \in browser')
    BY <1>1, <1>3, <1>5, <1>7, <2>1 DEF Taken
  <2> QED
    BY <1>0, <1>1, <1>8, <1>9, <1>10, <2>2, BrowserWritten
<1>12. IInv'
  BY <1>0, <1>1, StepInv
<1>13. ASSUME NEW c \in Callers
       PROVE  CallerInv(c)'
  <2>1. \A g \in browser' : g \in browser \/ Place(g) \in contested'
    BY <1>6, <1>7 DEF Put
  <2> QED
    BY <1>1, <1>8, <2>1, Beside
<1> QED
  BY <1>11, <1>12, <1>13 DEF DraftInv

LEMMA FailElsewhereInv ==
    ASSUME DraftInv, FailElsewhere
    PROVE  DraftInv'
<1>0. /\ IInv /\ Global /\ BrowserFiles /\ \A c \in Callers : CallerInv(c)
  BY DEF DraftInv, Global
<1>1. /\ elsewhere' = NoStep
      /\ UNCHANGED <<vars, browser, native, foreign, contested, step, acknowledged, known>>
  BY DEF FailElsewhere
<1>2. ElsewhereSave'
  BY <1>1 DEF ElsewhereSave
<1>3. OneSaver' /\ DOMAIN step' = Callers /\ DOMAIN known' = Callers
  BY <1>0, <1>1 DEF Global, OneSaver, Holds
<1>4. Global'
  <2>1. Sequels(browser, contested)'
    BY <1>0, <1>1 DEF Global, Changes, Sequels, Sequel
  <2>2. BrowserFiles'
    BY <1>0, <1>1 DEF BrowserFiles, HasLatest, Named, Distinct
  <2>3. \A a \in acknowledged : a[1] = "browser" =>
           Taken(browser, a[2])' /\ (Place(a[2]) \notin contested' => a[2] \in browser')
    BY <1>0, <1>1 DEF Global, AcknowledgedStay, Taken
  <2>4. acknowledged' \ acknowledged = {}
    BY <1>1
  <2> QED
    BY <1>0, <1>1, <1>2, <1>3, <2>1, <2>2, <2>3, <2>4, BrowserWritten
<1>5. IInv'
  BY <1>0, <1>1, StepInv
<1>6. ASSUME NEW c \in Callers
      PROVE  CallerInv(c)'
  <2>1. call'[c] = call[c] /\ registry' = registry
    BY <1>1 DEF vars, regVars
  <2> QED
    BY <1>1, <2>1, Untouched
<1> QED
  BY <1>4, <1>5, <1>6 DEF DraftInv

-------------------------------------------------------------------------------
(* The native repository *)

\* The latest native file of a name is its document, saved under its id.
LEMMA LatestNative ==
    ASSUME NativeFiles, NEW id \in DraftIds, HasNative(id)
    PROVE  LET f == Latest(native, id) IN
           /\ f \in native /\ f.name = id /\ f.doc \in Docs /\ f.doc # Torn
           /\ f.doc.revision = f.revision /\ f.doc.id = id /\ f = FileOf(f.doc, id)
           /\ f.revision \in Nat /\ 1 <= f.revision
           /\ \A g \in Named(native, id) : g.revision <= f.revision
<1> DEFINE f == Latest(native, id)
<1>1. f \in native /\ f.name = id /\ \A g \in Named(native, id) : g.revision <= f.revision
  BY LatestIs DEF NativeFiles, HasNative
<1>2. f \in File /\ f.doc # Torn /\ f.doc.revision = f.revision /\ f.doc.id = f.name
  BY <1>1 DEF NativeFiles
<1> HIDE DEF f
<1>3. f.doc \in Docs /\ f = [name |-> f.name, revision |-> f.revision, doc |-> f.doc]
      /\ f.revision \in Nat /\ 1 <= f.revision
  BY <1>2, FileFields
<1>4. f = FileOf(f.doc, id)
  BY <1>1, <1>2, <1>3 DEF FileOf
<1> QED
  BY <1>1, <1>2, <1>3, <1>4 DEF f

\* What is left of the invariant when a document is published above all of its name.
LEMMA NativePut ==
    ASSUME Global, NEW d \in Docs, native' = native \cup {FileOf(d, d.id)},
           UNCHANGED <<browser, elsewhere, contested>>, foreign' \in {foreign, foreign + 1},
           Above(native, d.id, d.revision),
           \/ d.revision \in Imported \/ Named(native, d.id) = {}
           \/ \E g \in Named(native, d.id) : Follows(g, d),
           \A a \in acknowledged' \ acknowledged : a = <<"native", FileOf(d, d.id)>>,
           OneSaver', DOMAIN step' = Callers, DOMAIN known' = Callers
    PROVE  Global'
<1> DEFINE f == FileOf(d, d.id)
<1>0. native \in SUBSET File /\ Distinct(native) /\ HasLatest(native) /\ foreign \in Nat
  BY DEF Global, NativeFiles
<1>1. d.id \in DraftIds /\ d # Torn /\ d.revision \in Nat
  BY DocFields
<1>2. f \in File /\ f.name = d.id /\ f.revision = d.revision /\ f.doc = d
  BY <1>1, FileOfDoc, ZenonT(40)
<1> HIDE DEF f
<1>3. \A g \in Named(native, f.name) : g.revision < f.revision /\ g.revision \in Nat
  BY <1>0, <1>2, FileFields DEF Above, Named
<1>4. native' = Put(native, f)
  <2>1. \A g \in native : g.name # f.name \/ g.revision # f.revision
    BY <1>1, <1>2, <1>3 DEF Named
  <2>2. native' = native \cup {f}
    BY DEF f
  <2> QED
    BY <2>1, <2>2 DEF Put, Place
<1>5. /\ Put(native, f) \subseteq File /\ Distinct(Put(native, f))
      /\ HasLatest(Put(native, f)) /\ f \in Put(native, f)
      /\ Before(Put(native, f), f.name, f.revision) = Before(native, f.name, f.revision)
      /\ \A g \in Put(native, f) \ {f} :
            g \in native /\ (IsChange(native, {}, g) => IsChange(Put(native, f), {}, g))
  <2>1. \A g \in Named(native, f.name) : g.revision <= f.revision
    BY <1>1, <1>2, <1>3
  <2> QED
    BY <1>0, <1>2, <2>1, PutTop, PutFile
<1>6. NativeFiles'
  <2>1. \A g \in native' : g.doc # Torn /\ g.doc.revision = g.revision /\ g.doc.id = g.name
    BY <1>1, <1>2, <1>4, <1>5 DEF Global, NativeFiles
  <2> QED
    BY <1>4, <1>5, <2>1 DEF NativeFiles, Distinct, HasLatest, Named
<1>7. BrowserFiles'
  BY DEF Global, BrowserFiles, Distinct, HasLatest, Named
<1>8. Imported \subseteq Imported'
  BY <1>0 DEF Imported
<1>9. Changes'
  <2>1. ASSUME NEW g \in native', g.revision \notin Imported'
        PROVE  IsChange(native', {}, g)
    <3>1. CASE g # f
      BY <1>4, <1>5, <1>8, <2>1, <3>1 DEF Global, Changes
    <3>2. CASE g = f /\ Named(native, d.id) = {}
      <4>1. Before(native', g.name, g.revision) = {}
        BY <1>2, <1>4, <1>5, <3>2 DEF Before, Named
      <4> QED
        BY <4>1 DEF IsChange, Before
    <3>3. ASSUME NEW h \in Named(native, d.id), Follows(h, d), g = f
          PROVE  IsChange(native', {}, g)
      <4>1. h \in Before(native, f.name, f.revision)
        BY <1>2, <1>3, <3>3 DEF Before, Named
      <4>2. h \in Before(native', g.name, g.revision)
        BY <1>4, <1>5, <3>3, <4>1
      <4> QED
        BY <1>2, <3>3, <4>2 DEF IsChange, Follows, Before
    <3> QED
      BY <1>2, <1>8, <2>1, <3>1, <3>2, <3>3
  <2>2. Sequels(browser, contested)'
    BY DEF Global, Changes, Sequels, Sequel
  <2> QED
    BY <2>1, <2>2 DEF Changes, IsChange
<1>10. \A a \in acknowledged' :
         /\ a[1] \in {"browser", "native"} /\ a[2].name \in DraftIds
         /\ a[2].revision \in Nat /\ a[2].doc # Torn
         /\ IF a[1] = "native" THEN a[2] \in native'
            ELSE Taken(browser, a[2]) /\ (Place(a[2]) \notin contested => a[2] \in browser)
  <2> TAKE a \in acknowledged'
  <2>1. CASE a \in acknowledged
    <3>1. /\ a[1] \in {"browser", "native"} /\ a[2].name \in DraftIds
          /\ a[2].revision \in Nat /\ a[2].doc # Torn
          /\ IF a[1] = "native" THEN a[2] \in native
             ELSE Taken(browser, a[2]) /\ (Place(a[2]) \notin contested => a[2] \in browser)
      BY <2>1 DEF Global, AcknowledgedStay
    <3> QED
      BY <3>1
  <2>2. CASE a = <<"native", f>>
    BY <1>1, <1>2, <1>4, <1>5, <2>2
  <2> QED
    BY <2>1, <2>2 DEF f
<1>11. ElsewhereSave'
  BY DEF Global, ElsewhereSave, Sequel
<1>12. AcknowledgedStay'
  BY <1>10 DEF AcknowledgedStay, Taken
<1> QED
  BY <1>0, <1>6, <1>7, <1>9, <1>10, <1>11, <1>12 DEF Global

\* A first revision is the one the document brings along.
LEMMA FirstRevision ==
    ASSUME NEW n \in Nat, 1 <= n
    PROVE  Max({1, n}) = n
<1>1. n \in {1, n} /\ \A y \in {1, n} : n >= y
  OBVIOUS
<1>2. \A x \in {1, n} : (\A y \in {1, n} : x >= y) => x = n
  OBVIOUS
<1> QED
  BY <1>1, <1>2 DEF Max

LEMMA SaveNativeInv ==
    ASSUME DraftInv, NEW c \in Callers, SaveNative(c)
    PROVE  DraftInv'
<1> DEFINE doc == Asked(c)
           last == Latest(native, doc.id).doc
           next == IF Named(native, doc.id) = {} THEN Max({1, doc.revision}) ELSE last.revision + 1
           saved == [doc EXCEPT !.revision = next]
           s == [at |-> "native", doc |-> saved]
<1>0. /\ IInv /\ Global /\ Where(c) /\ Knows(c) /\ Fresh(c)
      /\ At(c, "invoking") /\ doc \in Docs /\ call[c].request \in Requests /\ NativeFiles
      /\ Reaches(c) = <<"pfd", "pfd.save">> /\ NativeLockFree
  BY CallFacts DEF DraftInv, CallerInv, SaveNative, Performing, Global
<1>1. known[c] = {} /\ doc.id \in DraftIds /\ doc.revision \in Nat /\ 1 <= doc.revision
  BY <1>0, KnowsReach, DocFields
<1>2. HasNative(doc.id) =>
        /\ last \in Docs /\ last.id = doc.id /\ last # Torn /\ last.revision \in Nat
        /\ FileOf(last, doc.id) = Latest(native, doc.id)
        /\ Latest(native, doc.id) \in Named(native, doc.id)
        /\ last.revision = Latest(native, doc.id).revision
        /\ \A g \in Named(native, doc.id) : g.revision <= last.revision
  BY <1>0, <1>1, LatestNative DEF Named
<1>3. CASE /\ Unchanged(native, doc.id, doc) /\ Acknowledge(c, "native", doc.id, last)
           /\ UNCHANGED native
  <2>1. HasNative(doc.id)
    BY <1>3 DEF Unchanged, HasNative
  <2>2. Completed({last}) \in Outcomes
    BY <1>2, <2>1, OutcomesAre
  <2>3. /\ Finish(c, Completed({last})) /\ UNCHANGED <<browser, native, otherVars, known>>
        /\ acknowledged' = acknowledged \cup {<<"native", FileOf(last, doc.id)>>}
    BY <1>3 DEF Acknowledge
  <2>4. FileOf(last, doc.id) \in native
    BY <1>2, <2>1 DEF Named
  <2> HIDE DEF last, doc
  <2> QED
    BY <1>1, <2>2, <2>3, <2>4, FinishKeeps
<1>4. CASE /\ ~Unchanged(native, doc.id, doc) /\ saved.revision <= MaxRevision
           /\ Continue(c, s) /\ UNCHANGED <<browser, native>>
  <2>1. next \in Nat /\ 1 <= next
    <3>1. CASE Named(native, doc.id) = {}
      BY <1>1, <3>1, FirstRevision
    <3>2. CASE Named(native, doc.id) # {}
      BY <1>2, <3>2, DocFields DEF HasNative
    <3> QED
      BY <3>1, <3>2
  <2>2. saved.revision = next
    BY <1>0 DEF Docs
  <2>3. saved \in Docs /\ saved.id = doc.id /\ next <= MaxRevision
    BY <1>0, <1>4, <2>1, <2>2, Renumbered
  <2>4. \A g \in Named(native, doc.id) : g.revision < next
    <3> SUFFICES ASSUME NEW g \in Named(native, doc.id) PROVE g.revision < next
      OBVIOUS
    <3>1. HasNative(doc.id) /\ next = last.revision + 1
      BY DEF HasNative
    <3>2. g.revision \in Nat
      BY <1>0, FileFields DEF Named, NativeFiles
    <3> QED
      BY <1>2, <3>1, <3>2
  <2>5. \/ /\ Named(native, doc.id) = {}
           /\ next \in {r.body.revision : r \in Requests}
        \/ \E g \in Named(native, doc.id) : Follows(g, saved)
    <3>1. CASE Named(native, doc.id) = {}
      <4>1. next = doc.revision
        BY <1>1, <3>1, FirstRevision
      <4> QED
        BY <1>0, <3>1, <4>1 DEF Asked
    <3>2. CASE Named(native, doc.id) # {}
      <4>1. last # [doc EXCEPT !.revision = last.revision] /\ next = last.revision + 1
        BY <1>2, <1>4, <3>2 DEF Unchanged, HasNative
      <4>2. [last EXCEPT !.revision = next] # saved
        BY <1>0, <1>2, <2>1, <2>3, <3>2, <4>1, ChangesAnyway DEF HasNative
      <4>3. Latest(native, doc.id).revision = next - 1
        BY <1>2, <3>2, <4>1 DEF HasNative
      <4>4. Follows(Latest(native, doc.id), saved)
        BY <1>2, <2>2, <3>2, <4>2, <4>3 DEF Follows, HasNative
      <4> QED
        BY <1>2, <3>2, <4>4 DEF HasNative
    <3> QED
      BY <3>1, <3>2
  <2>6. s.at = "native" /\ s.doc = saved /\ s = [at |-> s.at, doc |-> s.doc] /\ Continue(c, s)
    BY <1>4
  <2>7. UNCHANGED <<vars, known, acknowledged, browser, native, foreign>>
    BY <1>4 DEF Continue, otherVars
  <2> HIDE DEF s, saved, next, last
  <2>8. ASSUME step'[c] = s PROVE CallerInv(c)'
    <3>1. Where(c)'
      BY <1>0, <2>6, <2>7, <2>8 DEF Where, Busy, At, Reaches, Verdict, vars, regVars
    <3>2. BrowserSave(c)'
      BY <2>6, <2>8 DEF BrowserSave
    <3>3. NativeSave(c)'
      BY <2>2, <2>3, <2>4, <2>5, <2>6, <2>7, <2>8 DEF NativeSave, Above, Named
    <3>4. Knows(c)' /\ Fresh(c)'
      BY <1>0, <2>6, <2>7, <2>8 DEF Knows, Fresh, Busy, At, vars
    <3> QED
      BY <3>1, <3>2, <3>3, <3>4 DEF CallerInv
  <2> QED
    BY <1>0, <1>4, <2>6, <2>8, ContinueKeeps
<1> QED
  BY <1>3, <1>4 DEF SaveNative

\* The exclusive link publishes the revision after the latest, or fails.
LEMMA PublishNativeInv ==
    ASSUME DraftInv, NEW c \in Callers, PublishNative(c)
    PROVE  DraftInv'
<1> DEFINE doc == step[c].doc
           f == FileOf(doc, doc.id)
           s == [step[c] EXCEPT !.at = "linked"]
<1>0. /\ IInv /\ Global /\ Where(c) /\ NativeSave(c) /\ Knows(c) /\ Fresh(c)
      /\ Holds(c, {"native"}) /\ \A d \in Callers : CallerInv(d)
  BY DEF DraftInv, CallerInv, PublishNative
<1>1. CASE Quietly(c, Rejected("BOUNDARY_FAILURE"))
  BY <1>1, RejectionKeeps
<1>2. CASE Link(f) /\ Continue(c, s) /\ UNCHANGED browser
  <2>1. /\ ~Taken(native, f) /\ native' = native \cup {f} /\ step' = [step EXCEPT ![c] = s]
        /\ UNCHANGED <<vars, foreign, elsewhere, contested, acknowledged, known>>
    BY <1>2 DEF Link, Continue, otherVars
  <2>2. /\ doc \in Docs /\ Above(native, doc.id, doc.revision)
        /\ \/ doc.revision \in Imported \/ Named(native, doc.id) = {}
           \/ \E g \in Named(native, doc.id) : Follows(g, doc)
    BY <1>0, <2>1 DEF NativeSave, Holds
  <2>3. s.at = "linked" /\ s.doc = doc /\ s = [at |-> s.at, doc |-> s.doc]
    <3>1. step[c] = [at |-> step[c].at, doc |-> doc]
      BY <1>0 DEF Holds, Where
    <3> QED
      BY <3>1
  <2> HIDE DEF s
  <2>4. OneSaver' /\ DOMAIN step' = Callers
    BY <1>0, <2>1, <2>3, LocksKept DEF Global, Holds
  <2>5. Global'
    <3>1. /\ DOMAIN known' = Callers
          /\ \A a \in acknowledged' \ acknowledged : a = <<"native", FileOf(doc, doc.id)>>
      BY <1>0, <2>1 DEF Global
    <3> HIDE DEF doc
    <3> QED
      BY <1>0, <1>2, <2>1, <2>2, <2>4, <3>1, NativePut
  <2>6. IInv'
    BY <1>0, <2>1, StepInv
  <2>7. step'[c] = s /\ \A d \in Callers \ {c} : step'[d] = step[d]
    BY <1>0, <2>1 DEF Global
  <2>8. CallerInv(c)'
    <3>1. Where(c)'
      BY <1>0, <2>1, <2>3, <2>7 DEF Where, Holds, Busy, At, Reaches, Verdict, vars, regVars
    <3>2. BrowserSave(c)'
      BY <2>3, <2>7 DEF BrowserSave
    <3>3. NativeSave(c)'
      BY <2>1, <2>2, <2>3, <2>7 DEF NativeSave
    <3>4. Knows(c)' /\ Fresh(c)'
      BY <1>0, <2>1, <2>3, <2>7 DEF Knows, Fresh, Busy, At, vars
    <3> QED
      BY <3>1, <3>2, <3>3, <3>4 DEF CallerInv
  <2>9. ASSUME NEW d \in Callers, d # c
        PROVE  CallerInv(d)'
    <3>1. ~Holds(d, {"native"})
      BY <1>0, <2>9 DEF Global, OneSaver, Holds
    <3>2. call'[d] = call[d] /\ step'[d] = step[d] /\ known'[d] = known[d] /\ registry' = registry
      BY <2>1, <2>7, <2>9 DEF vars, regVars
    <3>3. native \subseteq native' /\ browser' = browser
      BY <1>2, <2>1
    <3> QED
      BY <2>1, <3>1, <3>2, <3>3, Untouched
  <2> QED
    BY <2>5, <2>6, <2>8, <2>9 DEF DraftInv
<1> QED
  BY <1>1, <1>2 DEF PublishNative

LEMMA SyncNativeInv ==
    ASSUME DraftInv, NEW c \in Callers, SyncNative(c)
    PROVE  DraftInv'
<1> DEFINE doc == step[c].doc
           f == FileOf(doc, doc.id)
<1>0. IInv /\ Where(c) /\ NativeSave(c) /\ Knows(c) /\ Holds(c, {"linked"})
  BY DEF DraftInv, CallerInv, SyncNative
<1>1. CASE Quietly(c, Rejected("BOUNDARY_FAILURE"))
  BY <1>1, RejectionKeeps
<1>2. CASE Acknowledge(c, "native", doc.id, doc) /\ UNCHANGED native
  <2>1. known[c] = {}
    <3>1. Reaches(c) = <<"pfd", "pfd.save">>
      BY <1>0 DEF Where, Holds
    <3> QED
      BY <1>0, <3>1, KnowsReach
  <2>2. doc \in Docs /\ f \in native
    BY <1>0 DEF NativeSave, Holds
  <2>3. Completed({doc}) \in Outcomes
    BY <2>2, OutcomesAre
  <2>4. /\ Finish(c, Completed({doc})) /\ UNCHANGED <<browser, native, otherVars, known>>
        /\ acknowledged' = acknowledged \cup {<<"native", f>>}
    BY <1>2 DEF Acknowledge
  <2> HIDE DEF doc, f
  <2> QED
    BY <2>1, <2>2, <2>3, <2>4, FinishKeeps
<1> QED
  BY <1>1, <1>2 DEF SyncNative

\* A draft that is opened is the latest native one, or there was none when the native store
\* was asked, so that nothing was acknowledged there.
LEMMA OpenNativeInv ==
    ASSUME DraftInv, NEW c \in Callers, OpenNative(c)
    PROVE  DraftInv'
<1> DEFINE id == Asked(c).id
           last == Latest(native, id)
           s == [at |-> "missed"]
<1>0. /\ IInv /\ Global /\ Where(c) /\ Knows(c) /\ Fresh(c) /\ At(c, "invoking")
      /\ Asked(c) \in Docs /\ Reaches(c) = <<"pfd", "OpenDraft">> /\ NativeFiles
  BY CallFacts DEF DraftInv, CallerInv, OpenNative, Performing, Global
<1>1. id \in DraftIds
  BY <1>0, DocFields
<1>2. ASSUME NEW a \in known[c]
      PROVE  a[2] \in Named(native, id) /\ a[2].name = id
  BY <1>0, <1>2, KnowsReach DEF Global, AcknowledgedStay, Named
<1>3. CASE HasNative(id) /\ Quietly(c, Completed({last.doc}))
  <2>1. /\ last.doc \in Docs /\ last.doc.id = id /\ last.doc.revision = last.revision
        /\ last.revision \in Nat
        /\ \A g \in Named(native, id) : g.revision <= last.revision
    BY <1>0, <1>1, <1>3, LatestNative
  <2>2. Completed({last.doc}) \in Outcomes /\ Completed({last.doc}).data = {last.doc}
    BY <2>1, OutcomesAre DEF Completed
  <2>3. ASSUME NEW a \in known[c]
        PROVE  last.doc.revision >= a[2].revision /\ SafeName[last.doc.id] = SafeName[a[2].name]
    <3>1. a[2].revision \in Nat /\ a[2].revision <= last.revision
      BY <1>0, <1>2, <2>1, FileFields DEF Named, NativeFiles
    <3> QED
      BY <1>2, <2>1, <3>1
  <2> HIDE DEF last
  <2> QED
    BY <1>3, <2>1, <2>2, <2>3, QuietlyKeeps
<1>4. CASE ~HasNative(id) /\ Continue(c, s) /\ UNCHANGED <<browser, native>>
  <2>1. known[c] = {}
    BY <1>2, <1>4 DEF HasNative
  <2>2. UNCHANGED <<vars, known, acknowledged>> /\ s.at = "missed" /\ Continue(c, s)
    BY <1>4 DEF Continue
  <2> HIDE DEF s
  <2>3. ASSUME step'[c] = s PROVE CallerInv(c)'
    <3>1. Where(c)'
      BY <1>0, <2>2, <2>3 DEF Where, Busy, At, Reaches, Verdict, vars, regVars
    <3>2. BrowserSave(c)' /\ NativeSave(c)'
      BY <2>2, <2>3 DEF BrowserSave, NativeSave
    <3>3. Knows(c)' /\ Fresh(c)'
      BY <1>0, <2>1, <2>2, <2>3 DEF Knows, Fresh, Busy, At, vars
    <3> QED
      BY <3>1, <3>2, <3>3 DEF CallerInv
  <2> QED
    BY <1>4, <2>2, <2>3, ContinueKeeps
<1> QED
  BY <1>3, <1>4 DEF OpenNative

LEMMA ImportLegacyInv ==
    ASSUME DraftInv, NEW c \in Callers, ImportLegacy(c)
    PROVE  DraftInv'
<1> DEFINE id == Asked(c).id
<1>0. /\ IInv /\ Global /\ Knows(c) /\ Asked(c) \in Docs /\ BrowserFiles /\ known[c] = {}
      /\ Quietly(c, FromBrowser(id))
  BY CallFacts DEF DraftInv, CallerInv, ImportLegacy, Global, Knows, Holds
<1>1. id \in DraftIds
  BY <1>0, DocFields
<1>2. CASE FromBrowser(id) \in {Rejected("NOT_FOUND"), Rejected("INVALID_COMMAND")}
  BY <1>0, <1>2, RejectionKeeps
<1>3. ASSUME NEW d \in Docs, FromBrowser(id) = Completed({d})
      PROVE  DraftInv'
  <2>1. Completed({d}) \in Outcomes
    BY OutcomesAre
  <2> QED
    BY <1>0, <1>3, <2>1, QuietlyKeeps
<1> QED
  BY <1>0, <1>1, <1>2, <1>3, FromBrowserIs

\* The native store is read last, and its latest of every id is shown.
LEMMA ListNativeInv ==
    ASSUME DraftInv, NEW c \in Callers, ListNative(c)
    PROVE  DraftInv'
<1> DEFINE ours == Summaries(native)
           theirs == {x \in step[c].seen : \A o \in ours : o.id # x.id}
<1>0. /\ IInv /\ Global /\ Where(c) /\ Knows(c) /\ Holds(c, {"listed"}) /\ NativeFiles
      /\ Quietly(c, Completed(ours \cup theirs))
  BY DEF DraftInv, CallerInv, ListNative, Global
<1>1. Reaches(c) = <<"pfd", "pfd.list">> /\ step[c].seen \subseteq Docs
  BY <1>0 DEF Where, Holds
<1>2. ours \subseteq Docs
  BY <1>0, SummariesAre DEF NativeFiles, Readable
<1>3. Completed(ours \cup theirs) \in Outcomes
  <2>1. ours \cup theirs \in SUBSET Docs
    BY <1>1, <1>2
  <2> HIDE DEF ours, theirs
  <2> QED
    BY <2>1, OutcomesAre
<1>4. ASSUME NEW a \in known[c]
      PROVE  \E d \in ours : d.revision >= a[2].revision /\ SafeName[d.id] = SafeName[a[2].name]
  <2>1. a \in acknowledged /\ a[1] = "native"
    BY <1>0, <1>1, KnowsReach
  <2>2. a[2] \in native /\ a[2].name \in DraftIds
    BY <1>0, <2>1 DEF Global, AcknowledgedStay
  <2>3. HasNative(a[2].name)
    BY <2>2 DEF HasNative, Named
  <2>4. PICK f \in native :
           /\ f.name = a[2].name /\ f.doc.id = f.name /\ f.doc.revision = f.revision
           /\ \A g \in Named(native, f.name) : g.revision <= f.revision
    BY <1>0, <2>2, <2>3, LatestNative
  <2>5. \A h \in native : h.doc.id = f.doc.id => h.revision <= f.revision
    BY <1>0, <2>4 DEF NativeFiles, Named
  <2>6. f.doc \in ours
    BY <2>4, <2>5 DEF Summaries
  <2>7. a[2].revision <= f.revision /\ a[2].revision \in Nat /\ f.revision \in Nat
    BY <1>0, <2>2, <2>4, FileFields DEF Named, NativeFiles
  <2> QED
    BY <2>4, <2>6, <2>7
<1>5. Completed(ours \cup theirs).data = ours \cup theirs
  BY DEF Completed
<1> HIDE DEF ours, theirs
<1>6. \A a \in known[c] : \E d \in Completed(ours \cup theirs).data :
         d.revision >= a[2].revision /\ SafeName[d.id] = SafeName[a[2].name]
  BY <1>4, <1>5
<1> QED
  BY <1>0, <1>3, <1>6, QuietlyKeeps

\* Another process publishes a revision while a save of ours is under way: it takes the
\* number of that save, or stays below it.
LEMMA SaveMeanwhile ==
    ASSUME DraftInv, NEW c \in Callers, Holds(c, {"native"}), NEW d \in Docs,
           d.revision = IF HasNative(d.id) THEN Latest(native, d.id).revision + 1 ELSE 1,
           native' = native \cup {FileOf(d, d.id)}, foreign' = foreign + 1, step'[c] = step[c]
    PROVE  NativeSave(c)'
<1> DEFINE ours == step[c].doc
           f == FileOf(ours, ours.id)
           g == FileOf(d, d.id)
<1>0. NativeSave(c) /\ NativeFiles /\ foreign \in Nat /\ ours \in Docs
  BY DEF DraftInv, CallerInv, Global, NativeSave, Holds
<1>1. /\ d.id \in DraftIds /\ g.name = d.id /\ g.revision = d.revision /\ d.revision \in Nat
      /\ f.name = ours.id /\ f.revision = ours.revision /\ ours.revision \in Nat
      /\ 1 <= ours.revision
  BY <1>0, DocFields, FileOfDoc
<1>2. Imported \subseteq Imported' /\ {r.body.revision : r \in Requests} \ {1} \subseteq Imported'
  BY <1>0 DEF Imported
<1>3. step'[c].at = "native" /\ step'[c].doc = ours /\ f' = f
  BY DEF Holds, FileOf
<1> HIDE DEF f, g
<1>4. native' = native \cup {g}
  BY DEF g
<1>5. CASE Taken(native, f)
  <2>1. Taken(native', f)
    BY <1>5 DEF Taken
  <2> QED
    BY <1>0, <1>3, <2>1 DEF NativeSave, Taken, f
<1>6. CASE ~Taken(native, f) /\ Named(native, ours.id) # {} /\ ours.id = d.id
  <2>1. /\ Latest(native, d.id) \in Named(native, d.id) /\ Latest(native, d.id).revision \in Nat
        /\ d.revision = Latest(native, d.id).revision + 1
        /\ \A h \in Named(native, d.id) : h.revision <= Latest(native, d.id).revision
    BY <1>0, <1>1, <1>6, LatestNative DEF HasNative, Named
  <2>2. /\ Above(native, d.id, ours.revision)
        /\ \/ ours.revision \in Imported
           \/ \E h \in Named(native, d.id) : Follows(h, ours)
    BY <1>0, <1>6 DEF NativeSave, Holds, f
  <2>3. d.revision <= ours.revision
    BY <1>1, <2>1, <2>2 DEF Above
  <2>4. CASE d.revision = ours.revision
    <3>1. Taken(native', f)
      BY <1>1, <1>4, <1>6, <2>4 DEF Taken, Place
    <3> QED
      BY <1>0, <1>3, <3>1 DEF NativeSave, Taken, f
  <2>5. CASE d.revision < ours.revision
    <3>1. Above(native', ours.id, ours.revision)
      BY <1>1, <1>4, <1>6, <2>2, <2>5 DEF Above, Named
    <3>2. \/ ours.revision \in Imported'
          \/ \E h \in Named(native', ours.id) : Follows(h, ours)
      BY <1>2, <1>4, <1>6, <2>2 DEF Named
    <3> QED
      BY <1>0, <1>3, <3>1, <3>2 DEF NativeSave, Above, Named
  <2> QED
    BY <1>1, <2>3, <2>4, <2>5
<1>7. CASE ~Taken(native, f) /\ Named(native, ours.id) = {} /\ ours.id = d.id
  <2>1. d.revision = 1
    BY <1>7 DEF HasNative
  <2>2. CASE ours.revision = 1
    <3>1. Taken(native', f)
      BY <1>1, <1>4, <1>7, <2>1, <2>2 DEF Taken, Place
    <3> QED
      BY <1>0, <1>3, <3>1 DEF NativeSave, Taken, f
  <2>3. CASE ours.revision # 1
    <3>1. ours.revision \in Imported'
      BY <1>0, <1>2, <1>7, <2>3 DEF NativeSave, Holds, f
    <3>2. Above(native', ours.id, ours.revision)
      BY <1>1, <1>4, <1>7, <2>1, <2>3 DEF Above, Named
    <3> QED
      BY <1>0, <1>3, <3>1, <3>2 DEF NativeSave, Above, Named
  <2> QED
    BY <2>2, <2>3
<1>8. CASE ~Taken(native, f) /\ ours.id # d.id
  <2>1. Named(native', ours.id) = Named(native, ours.id)
    BY <1>1, <1>4, <1>8 DEF Named
  <2>2. /\ Above(native, ours.id, ours.revision)
        /\ \/ /\ Named(native, ours.id) = {}
              /\ ours.revision = 1 \/ ours.revision \in {r.body.revision : r \in Requests}
           \/ ours.revision \in Imported
           \/ \E h \in Named(native, ours.id) : Follows(h, ours)
    BY <1>0, <1>8 DEF NativeSave, Holds, f
  <2>3. Above(native', ours.id, ours.revision)
    BY <2>1, <2>2 DEF Above
  <2> QED
    BY <1>0, <1>2, <1>3, <2>1, <2>2, <2>3 DEF NativeSave, Above
<1> QED
  BY <1>5, <1>6, <1>7, <1>8

LEMMA SaveElsewhereInv ==
    ASSUME DraftInv, NEW id \in DraftIds, NEW body \in Bodies, SaveElsewhere(id, body)
    PROVE  DraftInv'
<1> DEFINE next == IF HasNative(id) THEN Latest(native, id).revision + 1 ELSE 1
           d == [id |-> id, body |-> body, revision |-> next]
<1>0. /\ IInv /\ Global /\ NativeFiles /\ \A c \in Callers : CallerInv(c)
  BY DEF DraftInv, Global
<1>1. /\ next <= MaxRevision /\ ~Unchanged(native, id, d)
      /\ native' = native \cup {FileOf(d, id)} /\ foreign' = foreign + 1
      /\ acknowledged' = acknowledged \cup {<<"native", FileOf(d, id)>>}
      /\ UNCHANGED <<vars, browser, elsewhere, contested, step, known>>
  BY DEF SaveElsewhere
<1>2. HasNative(id) =>
        LET last == Latest(native, id) IN
        /\ last \in Named(native, id) /\ last.doc \in Docs /\ last.doc # Torn
        /\ last.doc.revision = last.revision /\ last.revision \in Nat /\ 1 <= last.revision
        /\ \A g \in Named(native, id) : g.revision <= last.revision
  BY <1>0, LatestNative DEF Named
<1>3. next \in Nat /\ 1 <= next
  BY <1>2
<1> HIDE DEF next
<1>4. d \in Docs /\ d.id = id /\ d.revision = next
  BY <1>1, <1>3, DraftAssumption DEF Docs, Revisions
<1>5. Above(native, id, next)
  <2>1. \A g \in Named(native, id) : g.revision \in Nat
    BY <1>0, FileFields DEF Named, NativeFiles
  <2> QED
    BY <1>2, <2>1 DEF Above, next, HasNative
<1>6. \/ d.revision \in Imported \/ Named(native, id) = {}
      \/ \E g \in Named(native, id) : Follows(g, d)
  <2> SUFFICES ASSUME HasNative(id) PROVE \E g \in Named(native, id) : Follows(g, d)
    BY DEF HasNative
  <2> DEFINE last == Latest(native, id)
  <2>1. last.doc # [d EXCEPT !.revision = last.doc.revision]
    BY <1>1, <1>2 DEF Unchanged, HasNative
  <2>2. [last.doc EXCEPT !.revision = next] # [d EXCEPT !.revision = next]
    BY <1>1, <1>2, <1>3, <1>4, <2>1, ChangesAnyway
  <2>3. [d EXCEPT !.revision = next] = d
    OBVIOUS
  <2>4. last.revision = next - 1
    BY <1>2 DEF next
  <2>5. Follows(last, d)
    BY <1>2, <1>4, <2>2, <2>3, <2>4 DEF Follows
  <2> QED
    BY <1>2, <2>5
<1> HIDE DEF d
<1>7. OneSaver' /\ DOMAIN step' = Callers /\ DOMAIN known' = Callers
  BY <1>0, <1>1 DEF Global, OneSaver, Holds
<1>8. Global'
  <2>1. \A a \in acknowledged' \ acknowledged : a = <<"native", FileOf(d, d.id)>>
    BY <1>1, <1>4
  <2> QED
    BY <1>0, <1>1, <1>4, <1>5, <1>6, <1>7, <2>1, NativePut
<1>9. IInv'
  BY <1>0, <1>1, StepInv
<1>10. ASSUME NEW c \in Callers
       PROVE  CallerInv(c)'
  <2>1. /\ call'[c] = call[c] /\ step'[c] = step[c] /\ known'[c] = known[c]
        /\ registry' = registry /\ browser' = browser /\ contested' = contested
        /\ native \subseteq native' /\ acknowledged \subseteq acknowledged'
    BY <1>1 DEF vars, regVars
  <2>2. CASE ~Holds(c, {"native"})
    BY <2>1, <2>2, Untouched
  <2>3. CASE Holds(c, {"native"})
    <3>1. d.revision = IF HasNative(d.id) THEN Latest(native, d.id).revision + 1 ELSE 1
      BY <1>4 DEF next
    <3>2. NativeSave(c)'
      BY <1>1, <1>4, <2>1, <2>3, <3>1, SaveMeanwhile
    <3>3. Where(c) /\ Knows(c) /\ Fresh(c)
      BY <1>0 DEF CallerInv
    <3>4. Where(c)'
      BY <2>1, <3>3 DEF Where, At, Busy, Reaches, Verdict
    <3>5. BrowserSave(c)'
      BY <2>1, <2>3 DEF BrowserSave, Holds
    <3>6. Knows(c)' /\ Fresh(c)'
      BY <2>1, <3>3 DEF Knows, Fresh, Busy, At
    <3> QED
      BY <3>2, <3>4, <3>5, <3>6 DEF CallerInv
  <2> QED
    BY <2>2, <2>3
<1> QED
  BY <1>8, <1>9, <1>10 DEF DraftInv

-------------------------------------------------------------------------------
(* The dispatcher and the process *)

\* The thread that moves is outside of its use case after the step, and the stores stay.
LEMMA OutsideKeeps ==
    ASSUME DraftInv, NEW c \in Callers, IInv', registry' = registry,
           \A d \in Callers \ {c} : call'[d] = call[d] /\ step'[d] = step[d] /\ known'[d] = known[d],
           DOMAIN step' = Callers, DOMAIN known' = Callers, step'[c] = NoStep,
           Where(c)', Knows(c)', Fresh(c)',
           UNCHANGED <<browser, native, otherVars, acknowledged>>
    PROVE  DraftInv'
<1>0. IInv /\ Global /\ \A d \in Callers : CallerInv(d)
  BY DEF DraftInv
<1>1. OneSaver'
  BY <1>0 DEF Global, OneSaver, Holds, NoStep
<1>2. Global'
  BY <1>0, <1>1, StoresKept
<1>3. CallerInv(c)'
  BY DEF CallerInv, BrowserSave, NativeSave, NoStep
<1>4. ASSUME NEW d \in Callers, d # c
      PROVE  CallerInv(d)'
  <2>1. call'[d] = call[d] /\ step'[d] = step[d] /\ known'[d] = known[d]
    BY <1>4
  <2>2. foreign' = foreign /\ contested' = contested
    BY DEF otherVars
  <2> QED
    BY <2>1, <2>2, Untouched
<1> QED
  BY <1>2, <1>3, <1>4 DEF DraftInv

\* A request that is admitted knows what was acknowledged until then.
LEMMA AdmitInv ==
    ASSUME DraftInv, NEW c \in Callers, NEW r \in Requests, Admit(c, r)
    PROVE  DraftInv'
<1>0. IInv /\ Global /\ Where(c) /\ Knows(c)
  BY DEF DraftInv, CallerInv
<1>1. /\ Dispatch(c, r) /\ At(c, "idle") /\ UNCHANGED regVars
      /\ known' = [known EXCEPT ![c] = {a \in acknowledged : At(c, "invoking")' /\ Concerns(r, a)}]
      /\ UNCHANGED <<browser, native, step, otherVars, acknowledged>>
  BY DEF Admit, Dispatch
<1>2. IInv'
  BY <1>0, <1>1, DispatchInv
<1>3. step[c] = NoStep
  BY <1>0, <1>1 DEF Where, At
<1>4. \E q \in Requests, o \in Outcomes \cup {NoOutcome} : \E pc \in {"invoking", "answered"} :
         /\ call' = [call EXCEPT ![c] = [pc |-> pc, request |-> q, outcome |-> o]]
         /\ pc = "invoking" => q = r /\ Verdict(r) = "OK"
  <2>1. ASSUME NEW k \in OwnCodes, Refuse(c, k)
        PROVE  \E q \in Requests, o \in Outcomes :
                  call' = [call EXCEPT ![c] = [pc |-> "answered", request |-> q, outcome |-> o]]
    BY <2>1, IdleType, RefusalsAreOutcomes DEF Refuse, Answer, GoTo
  <2>2. CASE Verdict(r) # "OK" /\ Refuse(c, Verdict(r))
    BY <2>1, <2>2, VerdictCodes
  <2>3. CASE \E k \in {"REQUEST_ID_CONFLICT", "REQUEST_IN_FLIGHT"} : Refuse(c, k)
    BY <2>1, <2>3 DEF OwnCodes
  <2>4. CASE /\ Verdict(r) = "OK" /\ completed[r.id] # NoEntry
             /\ Answer(c, r, completed[r.id].outcome)
    <3>1. completed[r.id].outcome \in Outcomes
      BY <1>0, <2>4, VerdictCodes DEF IInv, TypeOK, Entries
    <3> QED
      BY <2>4, <3>1 DEF Answer, GoTo
  <2>5. CASE Verdict(r) = "OK" /\ GoTo(c, "invoking", r, NoOutcome)
    BY <2>5 DEF GoTo
  <2> QED
    BY <1>1, <2>2, <2>3, <2>4, <2>5 DEF Dispatch
<1>5. PICK q \in Requests, o \in Outcomes \cup {NoOutcome}, pc \in {"invoking", "answered"} :
         /\ call' = [call EXCEPT ![c] = [pc |-> pc, request |-> q, outcome |-> o]]
         /\ pc = "invoking" => q = r /\ Verdict(r) = "OK"
  BY <1>4
<1>6. call'[c] = [pc |-> pc, request |-> q, outcome |-> o]
  BY <1>0, <1>5 DEF IInv, TypeOK
<1>7. known'[c] = {a \in acknowledged : pc = "invoking" /\ Concerns(r, a)}
  BY <1>0, <1>1, <1>6 DEF Global, At
<1>8. step'[c] = NoStep /\ NoStep.at = "none" /\ registry' = registry
  BY <1>1, <1>3 DEF NoStep, regVars
<1>9. Where(c)'
  BY <1>5, <1>6, <1>8 DEF Where, Busy, Verdict
<1>10. Knows(c)'
  BY <1>1, <1>5, <1>6, <1>7, <1>8 DEF Knows, Busy
<1>11. Fresh(c)'
  BY <1>6 DEF Fresh, At
<1>12. /\ \A d \in Callers \ {c} :
             call'[d] = call[d] /\ step'[d] = step[d] /\ known'[d] = known[d]
       /\ DOMAIN step' = Callers /\ DOMAIN known' = Callers
  BY <1>0, <1>1, <1>5 DEF IInv, TypeOK, Global
<1> QED
  BY <1>1, <1>2, <1>8, <1>9, <1>10, <1>11, <1>12, OutsideKeeps

LEMMA StopInv ==
    ASSUME DraftInv, NEW c \in Callers, Stop(c)
    PROVE  DraftInv'
<1>0. IInv /\ Global
  BY DEF DraftInv
<1>1. /\ Interrupt(c) /\ call' = [call EXCEPT ![c] = Idle] /\ registry' = registry
      /\ step' = [step EXCEPT ![c] = NoStep] /\ known' = [known EXCEPT ![c] = {}]
      /\ UNCHANGED <<browser, native, otherVars, acknowledged>>
  BY DEF Stop, Interrupt, regVars
<1>2. IInv'
  BY <1>0, <1>1, InterruptInv
<1>3. /\ call'[c] = Idle /\ step'[c] = NoStep /\ known'[c] = {}
      /\ \A d \in Callers \ {c} :
            call'[d] = call[d] /\ step'[d] = step[d] /\ known'[d] = known[d]
      /\ DOMAIN step' = Callers /\ DOMAIN known' = Callers
  BY <1>0, <1>1 DEF IInv, TypeOK, Global
<1>4. Idle.pc = "idle" /\ NoStep.at = "none"
  BY DEF Idle, NoStep
<1>5. Where(c)' /\ Knows(c)' /\ Fresh(c)'
  BY <1>3, <1>4 DEF Where, Knows, Fresh, Busy, At
<1> QED
  BY <1>1, <1>2, <1>3, <1>5, OutsideKeeps

LEMMA LeaveInv ==
    ASSUME DraftInv, NEW c \in Callers, Leave(c)
    PROVE  DraftInv'
<1>0. IInv /\ Global /\ Where(c)
  BY DEF DraftInv, CallerInv
<1>1. /\ Record(c) \/ Return(c)
      /\ known' = [known EXCEPT ![c] = {}]
      /\ UNCHANGED <<browser, native, step, otherVars, acknowledged>>
  BY DEF Leave
<1>2. IInv'
  BY <1>0, <1>1, RecordInv, ReturnInv
<1>3. /\ ~At(c, "invoking") /\ registry' = registry /\ call'[c].pc \in {"answered", "idle"}
      /\ \A d \in Callers \ {c} : call'[d] = call[d]
  <2>1. CASE Record(c)
    BY <1>0, <2>1 DEF IInv, TypeOK, Record, Answer, GoTo, At, regVars
  <2>2. CASE Return(c)
    BY <1>0, <2>2 DEF IInv, TypeOK, Return, At, Idle, regVars
  <2> QED
    BY <1>1, <2>1, <2>2
<1>4. step[c] = NoStep /\ NoStep.at = "none"
  BY <1>0, <1>3 DEF Where, NoStep
<1>5. /\ call'[c].pc \in {"answered", "idle"} /\ step'[c] = NoStep /\ known'[c] = {}
      /\ \A d \in Callers \ {c} :
            call'[d] = call[d] /\ step'[d] = step[d] /\ known'[d] = known[d]
      /\ DOMAIN step' = Callers /\ DOMAIN known' = Callers
  BY <1>0, <1>1, <1>3, <1>4 DEF IInv, TypeOK, Global
<1>6. Where(c)' /\ Knows(c)' /\ Fresh(c)'
  BY <1>4, <1>5 DEF Where, Knows, Fresh, Busy, At
<1> QED
  BY <1>1, <1>2, <1>3, <1>5, <1>6, OutsideKeeps

\* A process that starts finds the stores and nothing else.
LEMMA RestartDraftsInv ==
    ASSUME DraftInv, RestartDrafts
    PROVE  DraftInv'
<1>0. IInv /\ Global
  BY DEF DraftInv
<1>1. /\ Restart /\ call' = [c \in Callers |-> Idle]
      /\ step' = [c \in Callers |-> NoStep] /\ known' = [c \in Callers |-> {}]
      /\ UNCHANGED <<browser, native, otherVars, acknowledged>>
  BY DEF RestartDrafts, Restart
<1>2. IInv'
  BY <1>0, <1>1, RestartInv
<1>3. Idle.pc = "idle" /\ NoStep.at = "none"
  BY DEF Idle, NoStep
<1>4. OneSaver' /\ DOMAIN step' = Callers /\ DOMAIN known' = Callers
  BY <1>1, <1>3 DEF OneSaver, Holds
<1>5. Global'
  BY <1>0, <1>1, <1>4, StoresKept
<1>6. \A c \in Callers : CallerInv(c)'
  BY <1>1, <1>3 DEF CallerInv, Where, BrowserSave, NativeSave, Knows, Fresh, Busy, At
<1> QED
  BY <1>2, <1>5, <1>6 DEF DraftInv

-------------------------------------------------------------------------------
(* Theorems *)

LEMMA DraftInitInv == DraftInit => DraftInv
<1> SUFFICES ASSUME DraftInit PROVE DraftInv
  OBVIOUS
<1>1. /\ Init /\ browser = {} /\ native = {} /\ foreign = 0 /\ acknowledged = {}
      /\ elsewhere = NoStep /\ contested = {}
      /\ step = [c \in Callers |-> NoStep] /\ known = [c \in Callers |-> {}]
      /\ call = [c \in Callers |-> Idle]
  BY DEF DraftInit, Init
<1>2. Idle.pc = "idle" /\ NoStep.at = "none"
  BY DEF Idle, NoStep
<1>3. BrowserFiles /\ NativeFiles
  BY <1>1 DEF BrowserFiles, NativeFiles, Distinct, HasLatest, Named
<1>4. Global
  BY <1>1, <1>2, <1>3 DEF Global, Changes, Sequels, OneSaver, Holds, AcknowledgedStay, ElsewhereSave
<1>5. \A c \in Callers : CallerInv(c)
  BY <1>1, <1>2 DEF CallerInv, Where, BrowserSave, NativeSave, Knows, Fresh, Busy, At
<1> QED
  BY <1>1, <1>4, <1>5, InitInv DEF DraftInv

LEMMA DraftStepInv == DraftInv /\ [DraftNext]_allVars => DraftInv'
<1> SUFFICES ASSUME DraftInv, [DraftNext]_allVars PROVE DraftInv'
  OBVIOUS
<1>1. ASSUME NEW c \in Callers, UseCaseStep(c)
      PROVE  DraftInv'
  BY <1>1, SaveBrowserInv, TestFileInv, OpenFileInv, WriteFileInv, OpenBrowserInv, CreateDraftInv,
     ListBrowserInv, SaveNativeInv, PublishNativeInv, SyncNativeInv, OpenNativeInv,
     ImportLegacyInv, ListNativeInv DEF UseCaseStep
<1>2. ASSUME NEW f \in Foreign, SaveElsewhere(f[1], f[2]) \/ BeginElsewhere(f[1], f[2])
      PROVE  DraftInv'
  <2>1. f[1] \in DraftIds /\ f[2] \in Bodies
    BY DraftAssumption
  <2> QED
    BY <1>2, <2>1, SaveElsewhereInv, BeginElsewhereInv
<1>3. CASE UNCHANGED allVars
  <2>0. IInv /\ Global /\ \A c \in Callers : CallerInv(c)
    BY DEF DraftInv
  <2>1. /\ UNCHANGED <<vars, browser, native, step, otherVars, acknowledged, known>>
        /\ call' = call /\ registry' = registry /\ foreign' = foreign /\ contested' = contested
    BY <1>3 DEF allVars, draftVars, otherVars, vars, regVars
  <2>2. IInv'
    BY <2>0, <2>1, StepInv
  <2>3. OneSaver' /\ DOMAIN step' = Callers /\ DOMAIN known' = Callers
    BY <2>0, <2>1 DEF Global, OneSaver, Holds
  <2>4. Global'
    BY <2>0, <2>1, <2>3, StoresKept
  <2>5. \A c \in Callers : CallerInv(c)'
    BY <2>1, Untouched
  <2> QED
    BY <2>2, <2>4, <2>5 DEF DraftInv
<1> QED
  BY <1>1, <1>2, <1>3, AdmitInv, StopInv, LeaveInv, RestartDraftsInv, OpenElsewhereInv,
     WriteElsewhereInv, FailElsewhereInv DEF DraftNext

\* The files of both stores, the saves and reads under way and the books of the dispatcher
\* agree, whatever the callers ask for, wherever a write fails or the process ends, and
\* whatever another process saves.
THEOREM DraftInvariant == DraftSpec => []DraftInv
BY DraftInitInv, DraftStepInv, PTL DEF DraftSpec

\* Whatever save was answered with success has its revision for ever, in the native store and
\* in the browser's, and as it was acknowledged, but for a browser revision that another
\* process opened as well.
THEOREM AcknowledgedStays == DraftSpec => []AcknowledgedStay
<1>1. DraftInv => AcknowledgedStay
  BY DEF DraftInv, Global
<1> QED
  BY <1>1, DraftInvariant, PTL

\* The revisions of a draft follow each other, each with other content than the one before,
\* but for those that an imported draft brings along while another process saves.
THEOREM RevisionsChange == DraftSpec => []RevisionsAreChanges
<1>1. ASSUME DraftInv
      PROVE  RevisionsAreChanges
  <2>1. browser \subseteq File /\ Sequels(browser, contested)
        /\ \A g \in native : g.revision \notin Imported => IsChange(native, {}, g)
    BY <1>1 DEF DraftInv, Global, Changes, BrowserFiles
  <2>2. ASSUME NEW g \in browser PROVE IsChange(browser, contested, g)
    <3>1. Sequel(browser, contested, g.name, g.revision, g.doc)
      BY <2>1, <2>2 DEF Sequels
    <3>2. g.revision \in Nat /\ \A f \in browser : f.revision \in Nat /\ 1 <= f.revision
      BY <2>1, <2>2, FileFields
    <3>3. CASE g.revision = 1
      BY <3>2, <3>3 DEF IsChange
    <3>4. CASE g.revision # 1
      <4>1. PICK f \in browser :
               /\ f.name = g.name /\ f.revision = g.revision - 1
               /\ \/ Place(f) \in contested
                  \/ f.doc # Torn /\ (g.doc # Torn => [f.doc EXCEPT !.revision = g.revision] # g.doc)
        BY <3>1, <3>4 DEF Sequel
      <4>2. f.revision < g.revision
        BY <3>2, <4>1
      <4> QED
        BY <4>1, <4>2 DEF IsChange
    <3> QED
      BY <3>3, <3>4
  <2> QED
    BY <2>1, <2>2 DEF RevisionsAreChanges
<1> QED
  BY <1>1, DraftInvariant, PTL

\* A read that takes no lock and asks two stores in turn shows nothing older than what was
\* acknowledged when it began.
THEOREM ReadsFresh == DraftSpec => []ReadsAreFresh
<1>1. DraftInv => ReadsAreFresh
  BY DEF DraftInv, CallerInv, Fresh, ReadsAreFresh
<1> QED
  BY <1>1, DraftInvariant, PTL

\* Each step of a use case is none of the registry's, or its last one.
LEMMA UseCaseSteps ==
    ASSUME NEW c \in Callers, UseCaseStep(c)
    PROVE  UNCHANGED vars \/ \E o : Invoke(c, o)
<1>1. \A s : Continue(c, s) => UNCHANGED vars
  BY DEF Continue
<1>2. \A o : Quietly(c, o) => Invoke(c, o)
  BY DEF Quietly, Finish
<1>3. \A store, name, doc : Acknowledge(c, store, name, doc) => Invoke(c, Completed({doc}))
  BY DEF Acknowledge, Finish
<1>4. \A o : Finish(c, o) => Invoke(c, o)
  BY DEF Finish
<1>5. SaveBrowser(c) => UNCHANGED vars \/ \E o : Invoke(c, o)
  BY <1>1, <1>2, <1>3 DEF SaveBrowser
<1>6. TestFile(c) \/ OpenFile(c) \/ WriteFile(c) => UNCHANGED vars \/ \E o : Invoke(c, o)
  BY <1>1, <1>2, <1>4 DEF TestFile, OpenFile, WriteFile
<1>7. OpenBrowser(c) \/ CreateDraft(c) \/ ListBrowser(c) => UNCHANGED vars \/ \E o : Invoke(c, o)
  BY <1>1, <1>2 DEF OpenBrowser, CreateDraft, ListBrowser
<1>8. SaveNative(c) => UNCHANGED vars \/ \E o : Invoke(c, o)
  BY <1>1, <1>3 DEF SaveNative
<1>9. PublishNative(c) \/ SyncNative(c) => UNCHANGED vars \/ \E o : Invoke(c, o)
  BY <1>1, <1>2, <1>3 DEF PublishNative, SyncNative
<1>10. OpenNative(c) \/ ImportLegacy(c) \/ ListNative(c) => UNCHANGED vars \/ \E o : Invoke(c, o)
  BY <1>1, <1>2 DEF OpenNative, ImportLegacy, ListNative
<1> QED
  BY <1>5, <1>6, <1>7, <1>8, <1>9, <1>10 DEF UseCaseStep

\* So with its use cases performed step by step the registry does what it did with use cases
\* in one step.
LEMMA RegistryStep ==
    ASSUME DraftInv, [DraftNext]_allVars
    PROVE  [Next]_vars
<1>0. IInv /\ IInv'
  BY DraftStepInv DEF DraftInv
<1>1. ASSUME NEW c \in Callers, NEW o, Invoke(c, o)
      PROVE  Next
  <2>1. call'[c] = [pc |-> "recording", request |-> call[c].request, outcome |-> o]
    BY <1>0, <1>1 DEF IInv, TypeOK, Invoke, GoTo
  <2>2. o \in Outcomes
    BY <1>0, <2>1 DEF IInv, Progress
  <2> QED
    BY <1>1, <2>2 DEF Next
<1>2. ASSUME NEW c \in Callers, UseCaseStep(c)
      PROVE  [Next]_vars
  BY <1>1, <1>2, UseCaseSteps
<1>3. ASSUME NEW c \in Callers, NEW r \in Requests, Admit(c, r)
      PROVE  Next
  BY <1>3 DEF Admit, Next
<1>4. ASSUME NEW c \in Callers, Stop(c) \/ Leave(c)
      PROVE  Next
  BY <1>4 DEF Stop, Leave, Next
<1>5. /\ \A id, body : SaveElsewhere(id, body) \/ BeginElsewhere(id, body) => UNCHANGED vars
      /\ OpenElsewhere \/ WriteElsewhere \/ FailElsewhere => UNCHANGED vars
  BY DEF SaveElsewhere, BeginElsewhere, OpenElsewhere, WriteElsewhere, FailElsewhere
<1>6. RestartDrafts => Next
  BY DEF RestartDrafts, Next
<1>7. UNCHANGED allVars => UNCHANGED vars
  BY DEF allVars
<1> QED
  BY <1>2, <1>3, <1>4, <1>5, <1>6, <1>7 DEF DraftNext

\* Also with the draft stores behind it, and whatever their use cases do and fail at, the
\* registry performs the use case of an id once per session and records one outcome.
THEOREM DraftsImplementOnce == DraftSpec => ImplementsOnce
<1>1. DraftInit => Ledger!Init
  BY DEF DraftInit, Init, Ledger!Init
<1>2. DraftInv /\ [DraftNext]_allVars => [Ledger!Next]_(Ledger!vars)
  BY RegistryStep, StepImplements DEF DraftInv
<1> QED
  BY <1>1, <1>2, DraftInvariant, PTL DEF DraftSpec, ImplementsOnce, Ledger!Spec
===============================================================================
