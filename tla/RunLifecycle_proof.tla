-------------------------- MODULE RunLifecycle_proof --------------------------
(***************************************************************************)
(* Proofs about RunLifecycle, for any number of callers, runs, workers,    *)
(* contents and contexts: one run at a time, durable traces of every       *)
(* effect, cancellation that wins, and results that are neither lost nor   *)
(* published of anything but what was validated.                           *)
(***************************************************************************)
EXTENDS RunLifecycle, TLAPS

Holding(c) == call[c].pc \in {"admitted", "dispatch", "executing", "ended", "promoted",
                              "handler", "finally"}
Working(c) == Holding(c) \/ call[c].pc = "admitFailed"
Run(c) == call[c].attempt

\* The slot is that of the run, and a run has an attempt that is shown.
Slot(c) ==
    /\ Holding(c) => active = Run(c)
    /\ Working(c) => Run(c) # NoAttempt
    /\ Run(c) # NoAttempt => Shown(Run(c)) # NoRecord

\* What has happened to a run up to its execution is yet to be told.
Phase(c) ==
    /\ call[c].pc \in {"validating", "checked", "admitFailed", "admitted", "dispatch", "executing"} =>
           call[c].terminal = "none" /\ call[c].response = "none"
    /\ call[c].pc \in {"validating", "checked", "admitFailed", "admitted", "dispatch", "executing",
                       "ended"} => ~ call[c].publishing
    /\ call[c].pc \in {"validating", "checked"} => Run(c) = NoAttempt
    /\ call[c].pc = "validating" => call[c].receipt \in Receipt

\* While a run is under way its durable record is open or cancelled, and nothing but a
\* cancellation is shown in its place.
Trace(c) ==
    /\ call[c].pc = "admitFailed" => IsIn(Shown(Run(c)), "ADMITTED")
    /\ call[c].pc \in {"admitted", "dispatch", "executing", "ended", "promoted"} =>
           /\ durable[Run(c)] # NoRecord
           /\ durable[Run(c)].state \in {"ADMITTED", "RUNNING", "CANCELLED"}
           /\ pending[Run(c)] = NoRecord \/ IsIn(pending[Run(c)], "CANCELLED")
    /\ call[c].pc \in {"dispatch", "executing", "ended", "promoted"} =>
           durable[Run(c)].state # "ADMITTED"
    /\ call[c].pc = "promoted" =>
           /\ IsIn(durable[Run(c)], "RUNNING") /\ pending[Run(c)] = NoRecord
           /\ Run(c) \in results
           /\ ~ Supervised => Run(c) \in unpersisted

\* A run whose view was returned is COMPLETED and listed.
Told(c) ==
    call[c].response = "returned" =>
        Run(c) \in results /\ IsIn(durable[Run(c)], "COMPLETED")

\* A local result whose publication was begun is in memory until it is returned.
Kept(c) ==
    /\ ~ Supervised /\ call[c].publishing
    /\ call[c].pc = "handler" \/ call[c].response \notin {"none", "returned"}
    => Run(c) \in unpersisted

\* A run that is over is shown so, unless its attempt could not be read.
Over(c) ==
    /\ call[c].pc \in {"finally", "idle"} /\ Run(c) # NoAttempt
    /\ call[c].response # "unreadable"
    => Closed(Shown(Run(c)))

\* A run has a receipt, for its content and the context it is computed in.
Validated(c) ==
    c \notin LegacyCallers =>
        /\ call[c].pc \in {"checked", "admitFailed", "admitted", "dispatch", "executing", "ended",
                           "promoted"} =>
               /\ call[c].receipt \in receipts /\ call[c].receipt.valid
               /\ call[c].receipt.content = call[c].ran.content
        /\ \/ call[c].pc = "executing" /\ ~ Supervised
           \/ call[c].pc = "ended" /\ call[c].terminal = "completed"
           => call[c].ran.context = call[c].receipt.context

CallerInv(c) ==
    Slot(c) /\ Phase(c) /\ Trace(c) /\ Told(c) /\ Kept(c) /\ Over(c) /\ Validated(c)

\* One caller works on a run, and no two have the same.
Apart ==
    \A c, d \in Callers :
        /\ Working(c) /\ Working(d) => c = d
        /\ Run(c) = Run(d) /\ Run(c) # NoAttempt => c = d

IInv == TypeOK /\ Apart /\ \A c \in Callers : CallerInv(c)

-------------------------------------------------------------------------------
(* Records *)

\* The record written for an attempt is a record.
LEMMA RecordType ==
    ASSUME NEW a \in Attempts, NEW s \in States
    PROVE  /\ AttemptRecord(a, s) \in Record /\ AttemptRecord(a, s) # NoRecord
           /\ AttemptRecord(a, s).state = s
<1>1. (s = "COMPLETED") \in BOOLEAN
  OBVIOUS
<1>2. AttemptRecord(a, s) \in Record
  BY <1>1, LifecycleAssumption, Zenon DEF AttemptRecord, Record
<1>3. AttemptRecord(a, s).state = s
  BY DEF AttemptRecord
<1> QED
  BY <1>2, <1>3, NoRecordIsNone

\* No attempt is none, and a thread without a run has its type.
LEMMA NoAttemptIsNone == NoAttempt \notin Attempts
BY LifecycleAssumption DEF Attempts, NoAttempt

LEMMA IdleType ==
    ASSUME NEW a \in Attempts \cup {NoAttempt},
           NEW response \in {"none", "rejected", "persistence_failed"}
    PROVE  /\ IdleCall(response, a) \in Call
           /\ IdleCall(response, a).pc = "idle" /\ IdleCall(response, a).attempt = a
           /\ IdleCall(response, a).terminal = "none" /\ IdleCall(response, a).response = response
           /\ IdleCall(response, a).receipt = NoReceipt /\ IdleCall(response, a).ran = NoRun
           /\ ~ IdleCall(response, a).publishing
BY LifecycleAssumption DEF IdleCall, Call, NoRun

\* What record_attempt does to the durable record and to what is shown, whatever its outcome.
LEMMA Recorded ==
    ASSUME TypeOK, NEW a \in Attempts, NEW s \in States, NEW o \in Outcomes,
           Record_attempt(a, s, o)
    PROVE  /\ durable' \in [Attempts -> MaybeRecord] /\ pending' \in [Attempts -> MaybeRecord]
           /\ \A b \in Attempts : b # a => durable'[b] = durable[b] /\ pending'[b] = pending[b]
           /\ Shown(a)' # NoRecord
           /\ Closed(durable[a]) => durable'[a] = durable[a]
           /\ durable'[a] = durable[a] \/ IsIn(durable'[a], s)
           /\ o = "ok" => pending'[a] = NoRecord /\ durable'[a] # NoRecord
           /\ o # "ok" => IsIn(pending'[a], s)
           /\ o # "lost" /\ Open(durable[a]) /\ s # "ADMITTED" => IsIn(durable'[a], s)
           /\ o # "lost" /\ durable[a] = NoRecord => IsIn(durable'[a], s)
           /\ s \in Terminal => Closed(Shown(a))'
<1> DEFINE r == AttemptRecord(a, s)
<1>1. r \in Record /\ r # NoRecord /\ r.state = s
  BY RecordType
<1>2. durable[a] \in MaybeRecord /\ pending[a] \in MaybeRecord
  BY DEF TypeOK
<1>3. pending' = [pending EXCEPT ![a] = IF o = "ok" THEN NoRecord ELSE r]
  BY DEF Record_attempt
<1>4. CASE o = "lost"
  <2>1. durable' = durable
    BY <1>4 DEF Record_attempt
  <2> QED
    BY <1>1, <1>2, <1>3, <1>4, <2>1 DEF TypeOK, MaybeRecord, Shown, IsIn, Closed, Outcomes
<1>5. CASE o # "lost"
  <2>1. durable' = [durable EXCEPT ![a] = AttemptWinner(@, r)]
    BY <1>5 DEF Record_attempt
  <2>2. AttemptWinner(durable[a], r) \in Record
    BY <1>1, <1>2 DEF AttemptWinner, Stands, MaybeRecord
  <2>3. durable' \in [Attempts -> MaybeRecord] /\ pending' \in [Attempts -> MaybeRecord]
    BY <1>1, <1>3, <2>1, <2>2 DEF TypeOK, MaybeRecord
  <2>4. durable'[a] = AttemptWinner(durable[a], r) /\ durable'[a] # NoRecord
    BY <2>1, <2>2, NoRecordIsNone DEF TypeOK
  <2>5. pending'[a] = IF o = "ok" THEN NoRecord ELSE r
    BY <1>3 DEF TypeOK
  <2>6. /\ Closed(durable[a]) => durable'[a] = durable[a]
        /\ durable'[a] = durable[a] \/ IsIn(durable'[a], s)
        /\ Open(durable[a]) /\ s # "ADMITTED" => IsIn(durable'[a], s)
        /\ durable[a] = NoRecord => IsIn(durable'[a], s)
        /\ s \in Terminal => Closed(durable'[a])
    BY <1>1, <2>4 DEF AttemptWinner, Stands, Closed, Open, IsIn, Terminal
  <2> QED
    BY <1>1, <1>3, <1>5, <2>1, <2>3, <2>4, <2>5, <2>6 DEF TypeOK, Shown, IsIn, Closed, Outcomes
<1> QED
  BY <1>4, <1>5

-------------------------------------------------------------------------------
(* Steps of a thread *)

\* Nothing of an attempt is changed that another thread relies on.
Untouched(a) ==
    /\ durable'[a] = durable[a] /\ pending'[a] = pending[a]
    /\ a \in results <=> a \in results'
    /\ a \in unpersisted => a \in unpersisted'

\* Cancellation that has won goes on winning.
StaysCancelled(a) == Cancelled(a)' /\ (a \in results' => a \in results)
CancellationsStay == \A a \in Attempts : Cancelled(a) => StaysCancelled(a)

\* A step of c touches its own attempt alone, takes the slot only when it is free, and
\* an attempt only when it is fresh.
Frame(c) ==
    /\ \A d \in Callers : d # c => call'[d] = call[d]
    /\ \A a \in Attempts : a # Run(c)' => Untouched(a)
    /\ \A a \in Attempts : a = Run(c)' /\ Cancelled(a) => StaysCancelled(a)
    /\ receipts \subseteq receipts'
    /\ active' = active \/ \A d \in Callers : d # c => ~ Holding(d)
    /\ Working(c)' => Working(c) \/ \A d \in Callers : ~ Working(d)
    /\ Run(c)' \in {Run(c), NoAttempt} \/ Shown(Run(c)') = NoRecord

\* Then the other threads and the distance between them keep, and only its own part is left
\* to show.
LEMMA ThreadStep ==
    ASSUME IInv, NEW c \in Callers, Frame(c), TypeOK', CallerInv(c)'
    PROVE  IInv' /\ CancellationsStay
<1>1. \A d \in Callers : d # c => (Run(d) # NoAttempt => Run(d) # Run(c)')
  BY DEF IInv, Apart, Frame, CallerInv, Slot
<1>2. Apart'
  BY <1>1 DEF IInv, Apart, Frame, Working, Holding, Run
<1>3. ASSUME NEW d \in Callers, d # c PROVE CallerInv(d)'
  <2>1. call'[d] = call[d] /\ CallerInv(d)
    BY <1>3 DEF IInv, Frame
  <2>2. Run(d) # NoAttempt => Run(d) \in Attempts /\ Untouched(Run(d))
    <3>1. Run(d) \in Attempts \cup {NoAttempt}
      BY DEF IInv, TypeOK, Call, Run
    <3> QED
      BY <1>1, <1>3, <3>1 DEF Frame
  <2>3. Run(d)' = Run(d) /\ Holding(d)' = Holding(d) /\ Working(d)' = Working(d)
    BY <2>1 DEF Run, Working, Holding
  <2>4. Holding(d) => active' = active
    BY <1>3 DEF Frame
  <2>5. Run(d) # NoAttempt => Shown(Run(d))' = Shown(Run(d))
    BY <2>2, <2>3 DEF Untouched, Shown
  <2>6. Slot(d)' /\ Phase(d)' /\ Over(d)'
    BY <2>1, <2>3, <2>4, <2>5 DEF CallerInv, Slot, Phase, Over
  <2>7. Trace(d)'
    <3>1. CASE ~ Working(d)
      BY <2>1, <2>3, <3>1 DEF Trace, Working, Holding
    <3>2. CASE Working(d)
      BY <2>1, <2>2, <2>3, <2>5, <3>2 DEF CallerInv, Slot, Trace, Untouched
    <3> QED
      BY <3>1, <3>2
  <2>8. Told(d)' /\ Kept(d)'
    <3>1. results \subseteq Attempts /\ unpersisted \subseteq Attempts /\ NoAttempt \notin Attempts
      BY LifecycleAssumption DEF IInv, TypeOK, Attempts, NoAttempt
    <3>2. call[d].pc = "handler" => Run(d) # NoAttempt
      BY <2>1 DEF CallerInv, Slot, Working, Holding
    <3> QED
      BY <2>1, <2>2, <2>3, <2>5, <3>1, <3>2 DEF CallerInv, Told, Kept, Untouched, Cancelled
  <2>9. Validated(d)'
    BY <2>1 DEF CallerInv, Validated, Frame
  <2> QED
    BY <2>6, <2>7, <2>8, <2>9 DEF CallerInv
<1>4. CancellationsStay
  BY DEF Frame, CancellationsStay, StaysCancelled, Untouched, Cancelled, Shown
<1> QED
  BY <1>2, <1>3, <1>4 DEF IInv

\* What a thread does between its calls: it has no run.
LEMMA StartsRunless ==
    ASSUME IInv, NEW c \in Callers, call' \in [Callers -> Call],
           \A d \in Callers : d # c => call'[d] = call[d],
           call'[c].pc \in {"idle", "validating", "checked"}, call'[c].pc = "checked" => Validated(c)',
           call'[c].attempt = NoAttempt,
           call'[c].terminal = "none", call'[c].response \in {"none", "rejected"},
           ~ call'[c].publishing,
           call'[c].pc # "idle" => call'[c].response = "none",
           call'[c].pc = "validating" => call'[c].receipt \in Receipt,
           receipts' \subseteq Receipt, receipts \subseteq receipts',
           UNCHANGED <<storeVars, slotVars, job, envVars>>
    PROVE  IInv' /\ CancellationsStay
<1>1. TypeOK'
  BY DEF IInv, TypeOK, storeVars, slotVars, envVars
<1>2. Frame(c)
  BY NoAttemptIsNone DEF Frame, Untouched, Run, Working, Holding, storeVars, slotVars
<1>3. CallerInv(c)'
  BY DEF CallerInv, Slot, Phase, Trace, Told, Kept, Over, Validated, Run, Working, Holding
<1> QED
  BY <1>1, <1>2, <1>3, ThreadStep

LEMMA ValidateDraftInv ==
    ASSUME IInv, NEW c \in Callers, NEW d \in Contents, NEW v \in BOOLEAN, ValidateDraft(c, d, v)
    PROVE  IInv' /\ CancellationsStay
<1> DEFINE r == [content |-> d, context |-> context, valid |-> v, session |-> 0]
           i == IdleCall("none", NoAttempt)
           e == [i EXCEPT !.pc = "validating", !.receipt = r]
<1>1. call' = [call EXCEPT ![c] = e] /\ UNCHANGED <<storeVars, receipts, slotVars, job, envVars>>
  BY DEF ValidateDraft
<1>2. r \in Receipt
  BY LifecycleAssumption DEF IInv, TypeOK, Receipt
<1> HIDE DEF r
<1>3. /\ i \in Call /\ i.attempt = NoAttempt
      /\ i.terminal = "none" /\ i.response = "none" /\ ~ i.publishing
  BY IdleType
<1> HIDE DEF i
<1>4. e \in Call /\ e.pc = "validating" /\ e.attempt = NoAttempt /\ e.terminal = "none"
      /\ e.response = "none" /\ e.receipt = r /\ ~ e.publishing
  BY <1>2, <1>3 DEF Call
<1> HIDE DEF e
<1>5. call' \in [Callers -> Call] /\ call'[c] = e /\ \A b \in Callers : b # c => call'[b] = call[b]
  BY <1>1, <1>4 DEF IInv, TypeOK
<1>6. receipts' \subseteq Receipt /\ receipts \subseteq receipts'
  BY <1>1 DEF IInv, TypeOK
<1> QED
  BY <1>1, <1>2, <1>4, <1>5, <1>6, StartsRunless

LEMMA IssueReceiptInv ==
    ASSUME IInv, NEW c \in Callers, IssueReceipt(c)
    PROVE  IInv' /\ CancellationsStay
<1> DEFINE e == IdleCall("none", NoAttempt)
<1>1. call' = [call EXCEPT ![c] = e] /\ UNCHANGED <<storeVars, slotVars, job, envVars>>
  BY DEF IssueReceipt
<1>2. e \in Call /\ e.pc = "idle" /\ e.attempt = NoAttempt /\ e.terminal = "none"
      /\ e.response = "none" /\ ~ e.publishing
  BY IdleType
<1> HIDE DEF e
<1>3. call[c].receipt \in Receipt
  BY DEF IssueReceipt, IInv, CallerInv, Phase
<1>4. receipts \subseteq receipts' /\ receipts' \subseteq Receipt
  BY <1>3 DEF IssueReceipt, IInv, TypeOK, Receipt
<1>5. call' \in [Callers -> Call] /\ call'[c] = e /\ \A b \in Callers : b # c => call'[b] = call[b]
  BY <1>1, <1>2 DEF IInv, TypeOK
<1> QED
  BY <1>1, <1>2, <1>4, <1>5, StartsRunless

LEMMA RejectInv ==
    ASSUME IInv, NEW c \in Callers, Reject(c)
    PROVE  IInv' /\ CancellationsStay
<1> DEFINE e == IdleCall("rejected", NoAttempt)
<1>1. call' = [call EXCEPT ![c] = e] /\ UNCHANGED <<storeVars, receipts, slotVars, job, envVars>>
  BY DEF Reject
<1>2. e \in Call /\ e.pc = "idle" /\ e.attempt = NoAttempt /\ e.terminal = "none"
      /\ e.response = "rejected" /\ ~ e.publishing
  BY IdleType
<1> HIDE DEF e
<1>3. call' \in [Callers -> Call] /\ call'[c] = e /\ \A b \in Callers : b # c => call'[b] = call[b]
  BY <1>1, <1>2 DEF IInv, TypeOK
<1>4. receipts' \subseteq Receipt /\ receipts \subseteq receipts'
  BY <1>1 DEF IInv, TypeOK
<1> QED
  BY <1>1, <1>2, <1>3, <1>4, StartsRunless

LEMMA StartRunInv ==
    ASSUME IInv, NEW c \in Callers, NEW d \in Contents, NEW r \in receipts, StartRun(c, d, r)
    PROVE  IInv' /\ CancellationsStay
<1> DEFINE i == IdleCall("none", NoAttempt)
           ran == [NoRun EXCEPT !.content = d]
           e == [i EXCEPT !.pc = "checked", !.receipt = r, !.ran = ran]
<1>1. /\ call' = [call EXCEPT ![c] = e] /\ UNCHANGED <<storeVars, receipts, slotVars, job, envVars>>
      /\ r \in Receipt /\ r.valid /\ r.content = d
  BY DEF StartRun, Matches, IInv, TypeOK
<1>2. ran \in [content : Contents \cup {"none"}, context : Contexts \cup {"none"},
               session : 0 .. MaxSessions] /\ ran.content = d
  BY LifecycleAssumption DEF NoRun
<1> HIDE DEF ran
<1>3. i \in Call /\ i.attempt = NoAttempt /\ i.terminal = "none" /\ i.response = "none"
      /\ ~ i.publishing
  BY IdleType
<1> HIDE DEF i
<1>4. e \in Call /\ e.pc = "checked" /\ e.attempt = NoAttempt /\ e.terminal = "none"
      /\ e.response = "none" /\ e.receipt = r /\ e.ran = ran /\ ~ e.publishing
  BY <1>1, <1>2, <1>3 DEF Call
<1> HIDE DEF e
<1>5. call' \in [Callers -> Call] /\ call'[c] = e /\ \A b \in Callers : b # c => call'[b] = call[b]
  BY <1>1, <1>4 DEF IInv, TypeOK
<1>6. receipts' = receipts /\ receipts \subseteq Receipt
  BY <1>1 DEF IInv, TypeOK
<1>7. Validated(c)'
  BY <1>1, <1>2, <1>4, <1>5, <1>6 DEF Validated
<1> QED
  BY <1>1, <1>4, <1>5, <1>6, <1>7, StartsRunless

LEMMA LegacyRunInv ==
    ASSUME IInv, NEW c \in Callers, NEW d \in Contents, LegacyRun(c, d)
    PROVE  IInv' /\ CancellationsStay
<1> DEFINE i == IdleCall("none", NoAttempt)
           ran == [NoRun EXCEPT !.content = d]
           e == [i EXCEPT !.pc = "checked", !.ran = ran]
<1>1. /\ call' = [call EXCEPT ![c] = e] /\ UNCHANGED <<storeVars, receipts, slotVars, job, envVars>>
      /\ c \in LegacyCallers
  BY DEF LegacyRun
<1>2. ran \in [content : Contents \cup {"none"}, context : Contexts \cup {"none"},
               session : 0 .. MaxSessions]
  BY LifecycleAssumption DEF NoRun
<1> HIDE DEF ran
<1>3. i \in Call /\ i.attempt = NoAttempt /\ i.terminal = "none" /\ i.response = "none"
      /\ ~ i.publishing
  BY IdleType
<1> HIDE DEF i
<1>4. e \in Call /\ e.pc = "checked" /\ e.attempt = NoAttempt /\ e.terminal = "none"
      /\ e.response = "none" /\ ~ e.publishing
  BY <1>2, <1>3 DEF Call
<1> HIDE DEF e
<1>5. call' \in [Callers -> Call] /\ call'[c] = e /\ \A b \in Callers : b # c => call'[b] = call[b]
  BY <1>1, <1>4 DEF IInv, TypeOK
<1>6. receipts' = receipts /\ receipts \subseteq Receipt
  BY <1>1 DEF IInv, TypeOK
<1>7. Validated(c)'
  BY <1>1 DEF Validated
<1> QED
  BY <1>1, <1>4, <1>5, <1>6, <1>7, StartsRunless

-------------------------------------------------------------------------------
(* Steps of a run *)

\* The slot and the lock are free: no thread works on a run, and the new attempt is fresh.
LEMMA AdmitInv ==
    ASSUME IInv, NEW c \in Callers, NEW a \in Attempts, NEW o \in Outcomes, Admit(c, a, o)
    PROVE  IInv' /\ CancellationsStay
<1> DEFINE pc == IF o = "ok" THEN "admitted" ELSE "admitFailed"
           e == [call[c] EXCEPT !.attempt = a, !.pc = pc]
<1>1. /\ call' = [call EXCEPT ![c] = e] /\ call[c].pc = "checked" /\ call[c] \in Call
      /\ UNCHANGED <<results, unpersisted, receipts, job, envVars>>
      /\ CallerInv(c)
  BY DEF Admit, IInv, TypeOK
<1>2. \A d \in Callers : ~ Working(d)
  BY DEF Admit, SlotFree, LockFree, IInv, CallerInv, Slot, Working, Holding
<1>3. durable[a] = NoRecord /\ pending[a] = NoRecord
  <2>1. ~ (a < a)
    BY LifecycleAssumption DEF Attempts
  <2> QED
    BY <2>1 DEF Admit, Fresh, Used, Shown
<1>4. Record_attempt(a, "ADMITTED", o) /\ "ADMITTED" \in States
  BY DEF Admit, States
<1>5. /\ durable' \in [Attempts -> MaybeRecord] /\ pending' \in [Attempts -> MaybeRecord]
      /\ \A b \in Attempts : b # a => durable'[b] = durable[b] /\ pending'[b] = pending[b]
      /\ Shown(a)' # NoRecord
      /\ o = "ok" => pending'[a] = NoRecord /\ IsIn(durable'[a], "ADMITTED")
      /\ o # "ok" => IsIn(pending'[a], "ADMITTED")
  BY <1>3, <1>4, Recorded DEF IInv
<1>6. e \in Call /\ e.attempt = a /\ e.pc = pc /\ e.terminal = call[c].terminal
      /\ e.response = call[c].response /\ e.receipt = call[c].receipt /\ e.ran = call[c].ran
      /\ e.publishing = call[c].publishing
  BY <1>1 DEF Call
<1> HIDE DEF e
<1>7. call' \in [Callers -> Call] /\ call'[c] = e /\ \A d \in Callers : d # c => call'[d] = call[d]
  BY <1>1, <1>6 DEF IInv, TypeOK
<1>8. TypeOK'
  BY <1>1, <1>5, <1>7 DEF IInv, TypeOK, Admit, envVars
<1>9. Frame(c)
  <2>1. Run(c)' = a
    BY <1>6, <1>7 DEF Run
  <2>2. \A b \in Attempts : b # a => Untouched(b)
    BY <1>1, <1>5 DEF Untouched
  <2>3. ~ Cancelled(a) /\ Shown(a) = NoRecord
    BY <1>3 DEF Cancelled, Shown, IsIn
  <2> QED
    BY <1>1, <1>2, <1>7, <2>1, <2>2, <2>3 DEF Frame, Working
<1>10. CallerInv(c)'
  <2>1. a # NoAttempt /\ active' = IF o = "ok" THEN a ELSE active
    BY NoAttemptIsNone DEF Admit
  <2>2. call[c].terminal = "none" /\ call[c].response = "none" /\ ~ call[c].publishing
    BY <1>1 DEF CallerInv, Phase
  <2>3. Slot(c)' /\ Phase(c)' /\ Told(c)' /\ Kept(c)' /\ Over(c)'
    BY <1>5, <1>6, <1>7, <2>1, <2>2
    DEF Slot, Phase, Told, Kept, Over, Run, Working, Holding
  <2>4. Trace(c)'
    BY <1>5, <1>6, <1>7 DEF Trace, Run, Shown, IsIn
  <2>5. Validated(c)'
    BY <1>1, <1>6, <1>7 DEF CallerInv, Validated
  <2> QED
    BY <2>3, <2>4, <2>5 DEF CallerInv
<1> QED
  BY <1>8, <1>9, <1>10, ThreadStep

\* A step of a thread that works on a run leaves the others theirs.
LEMMA RunStepInv ==
    ASSUME IInv, NEW c \in Callers, Working(c), NEW e \in Call,
           call' = [call EXCEPT ![c] = e], e.attempt = Run(c),
           durable' \in [Attempts -> MaybeRecord], pending' \in [Attempts -> MaybeRecord],
           results' \subseteq Attempts, unpersisted' \subseteq Attempts,
           \A b \in Attempts : b # Run(c) => Untouched(b),
           active' \in Attempts \cup {NoAttempt}, cancelEvent' \in BOOLEAN,
           job' \in {"none", "running", "stopping"},
           UNCHANGED <<receipts, envVars>>,
           ~ Cancelled(Run(c)) \/ StaysCancelled(Run(c)),
           call'[c] = e => CallerInv(c)'
    PROVE  IInv' /\ CancellationsStay
<1>1. call' \in [Callers -> Call] /\ call'[c] = e /\ \A d \in Callers : d # c => call'[d] = call[d]
  BY DEF IInv, TypeOK
<1>2. TypeOK'
  BY <1>1 DEF IInv, TypeOK, envVars
<1>3. Run(c)' = Run(c)
  BY <1>1 DEF Run
<1>4. \A d \in Callers : d # c => ~ Holding(d)
  BY DEF IInv, Apart, Working
<1>5. Frame(c)
  BY <1>1, <1>3, <1>4 DEF Frame
<1> QED
  BY <1>1, <1>2, <1>5, ThreadStep

\* The thread's run has an attempt, which no other thread has.
LEMMA OwnRun ==
    ASSUME IInv, NEW c \in Callers, Working(c)
    PROVE  /\ Run(c) \in Attempts /\ CallerInv(c) /\ call[c] \in Call
           /\ TypeOK
BY DEF IInv, TypeOK, CallerInv, Slot, Call, Run

LEMMA AdmissionFailsInv ==
    ASSUME IInv, NEW c \in Callers, NEW o \in Outcomes, AdmissionFails(c, o)
    PROVE  IInv' /\ CancellationsStay
<1>1. Working(c) /\ call[c].pc = "admitFailed"
  BY DEF AdmissionFails, Working
<1>2. PICK a \in Attempts : a = Run(c)
  BY <1>1, OwnRun
<1>3. CallerInv(c) /\ call[c] \in Call /\ TypeOK
  BY <1>1, OwnRun
<1> DEFINE e == IdleCall("persistence_failed", a)
<1>4. /\ call' = [call EXCEPT ![c] = e] /\ Record_attempt(a, "FAILED", o)
      /\ UNCHANGED <<results, unpersisted, receipts, slotVars, job, envVars>>
  BY <1>2 DEF AdmissionFails, Run
<1>5. e \in Call /\ e.pc = "idle" /\ e.attempt = a /\ e.terminal = "none"
      /\ e.response = "persistence_failed" /\ ~ e.publishing
  BY IdleType
<1> HIDE DEF e
<1>6. "FAILED" \in States /\ "FAILED" \in Terminal
  BY DEF States, Terminal
<1>7. /\ durable' \in [Attempts -> MaybeRecord] /\ pending' \in [Attempts -> MaybeRecord]
      /\ \A b \in Attempts : b # a => durable'[b] = durable[b] /\ pending'[b] = pending[b]
      /\ Shown(a)' # NoRecord /\ Closed(Shown(a))'
  BY <1>3, <1>4, <1>6, Recorded
<1>8. \A b \in Attempts : b # Run(c) => Untouched(b)
  BY <1>2, <1>4, <1>7 DEF Untouched
<1>9. ~ Cancelled(Run(c))
  BY <1>1, <1>3 DEF CallerInv, Trace, Cancelled, IsIn
<1>10. ASSUME call'[c] = e PROVE CallerInv(c)'
  BY <1>5, <1>7, <1>10
  DEF Slot, Phase, Trace, Told, Kept, Over, Validated, CallerInv, Run, Working, Holding
<1> QED
  BY <1>1, <1>2, <1>3, <1>4, <1>5, <1>7, <1>8, <1>9, <1>10, RunStepInv DEF TypeOK, slotVars, storeVars

\* A thread goes on without a change of records.
LEMMA QuietStepInv ==
    ASSUME IInv, NEW c \in Callers, Working(c), NEW e \in Call,
           call' = [call EXCEPT ![c] = e], e.attempt = Run(c),
           UNCHANGED <<storeVars, receipts, envVars>>,
           active' \in Attempts \cup {NoAttempt}, cancelEvent' \in BOOLEAN,
           job' \in {"none", "running", "stopping"},
           call'[c] = e => CallerInv(c)'
    PROVE  IInv' /\ CancellationsStay
<1>1. \A b \in Attempts : Untouched(b)
  BY DEF storeVars, Untouched
<1>2. Run(c) \in Attempts
  BY OwnRun
<1>3. ~ Cancelled(Run(c)) \/ StaysCancelled(Run(c))
  <2>1. call'[c] = e
    BY DEF IInv, TypeOK
  <2>2. Run(c)' = Run(c)
    BY <2>1 DEF Run
  <2> QED
    BY <1>1, <1>2, <2>2 DEF StaysCancelled, Untouched, Cancelled, Shown
<1> QED
  BY <1>1, <1>3, RunStepInv DEF IInv, TypeOK, storeVars

\* Into the exception handler, before the job has come to an end that counts.
LEMMA ToHandlerInv ==
    ASSUME IInv, NEW c \in Callers, Holding(c),
           call' = [call EXCEPT ![c].pc = "handler"],
           ~ Supervised /\ call[c].publishing => Run(c) \in unpersisted,
           UNCHANGED <<storeVars, receipts, slotVars, envVars>>,
           job' \in {"none", "running", "stopping"}
    PROVE  IInv' /\ CancellationsStay
<1> DEFINE e == [call[c] EXCEPT !.pc = "handler"]
<1>1. Working(c) /\ CallerInv(c) /\ call[c] \in Call /\ TypeOK
  BY OwnRun DEF Working
<1>2. call' = [call EXCEPT ![c] = e]
  OBVIOUS
<1>3. e \in Call /\ e.pc = "handler" /\ e.attempt = Run(c) /\ e.terminal = call[c].terminal
      /\ e.response = call[c].response /\ e.publishing = call[c].publishing
  BY <1>1 DEF Call, Run
<1> HIDE DEF e
<1>4. ASSUME call'[c] = e PROVE CallerInv(c)'
  <2>1. Run(c)' = Run(c) /\ Shown(Run(c))' = Shown(Run(c))
    BY <1>3, <1>4 DEF Run, Shown, storeVars
  <2> QED
    BY <1>1, <1>3, <1>4, <2>1
    DEF CallerInv, Slot, Phase, Trace, Told, Kept, Over, Validated, Working, Holding, Cancelled,
        storeVars, slotVars
<1> QED
  BY <1>1, <1>2, <1>3, <1>4, QuietStepInv DEF TypeOK, slotVars

LEMMA BeginRunningInv ==
    ASSUME IInv, NEW c \in Callers, NEW o \in Outcomes, BeginRunning(c, o)
    PROVE  IInv' /\ CancellationsStay
<1>1. Working(c) /\ Holding(c) /\ call[c].pc = "admitted"
  BY DEF BeginRunning, Working, Holding
<1>2. PICK a \in Attempts : a = Run(c)
  BY <1>1, OwnRun
<1>3. CallerInv(c) /\ call[c] \in Call /\ TypeOK
  BY <1>1, OwnRun
<1>4. call[c].terminal = "none" /\ call[c].response = "none" /\ ~ call[c].publishing
  BY <1>1, <1>3 DEF CallerInv, Phase
<1>5. UNCHANGED <<results, unpersisted, receipts, slotVars, job, envVars>>
  BY DEF BeginRunning
<1>6. CASE UNCHANGED <<durable, pending>> /\ Step(c, "handler")
  BY <1>1, <1>3, <1>4, <1>5, <1>6, ToHandlerInv DEF TypeOK, storeVars, Step
<1>7. CASE ~ Cancelled(a) /\ Record_attempt(a, "RUNNING", o) /\ Step(c, AfterRunning(o))
  <2> DEFINE e == [call[c] EXCEPT !.pc = AfterRunning(o)]
  <2>1. call' = [call EXCEPT ![c] = e]
    BY <1>7 DEF Step
  <2>2. e \in Call /\ e.pc = AfterRunning(o) /\ e.attempt = a /\ e.terminal = "none"
        /\ e.response = "none" /\ e.receipt = call[c].receipt /\ e.ran = call[c].ran
        /\ ~ e.publishing
    BY <1>2, <1>3, <1>4 DEF Call, Run, AfterRunning
  <2> HIDE DEF e
  <2>3. "RUNNING" \in States
    BY DEF States
  <2>4. /\ durable' \in [Attempts -> MaybeRecord] /\ pending' \in [Attempts -> MaybeRecord]
        /\ \A b \in Attempts : b # a => durable'[b] = durable[b] /\ pending'[b] = pending[b]
        /\ Shown(a)' # NoRecord
        /\ o = "ok" => pending'[a] = NoRecord
        /\ Closed(durable[a]) => durable'[a] = durable[a]
        /\ o # "lost" /\ Open(durable[a]) => IsIn(durable'[a], "RUNNING")
    BY <1>3, <1>7, <2>3, Recorded
  <2>5. \A b \in Attempts : b # Run(c) => Untouched(b)
    BY <1>2, <1>5, <2>4 DEF Untouched
  <2>6. durable[a] # NoRecord /\ durable[a].state \in {"ADMITTED", "RUNNING", "CANCELLED"}
    BY <1>1, <1>2, <1>3 DEF CallerInv, Trace
  <2>7. o = "ok" => /\ durable'[a] # NoRecord
                    /\ durable'[a].state \in {"RUNNING", "CANCELLED"}
    BY <2>4, <2>6 DEF Open, Closed, IsIn, Terminal
  <2>8. ASSUME call'[c] = e PROVE CallerInv(c)'
    <3>1. Run(c)' = a /\ active' = a /\ active = a
      BY <1>1, <1>2, <1>3, <1>5, <2>2, <2>8 DEF Run, CallerInv, Slot, slotVars
    <3>2. Slot(c)' /\ Phase(c)' /\ Told(c)' /\ Kept(c)' /\ Over(c)'
      BY <1>2, <1>3, <1>1, <2>2, <2>4, <2>8, <3>1
      DEF CallerInv, Slot, Phase, Told, Kept, Over, AfterRunning, Working, Holding
    <3>3. Trace(c)'
      BY <2>2, <2>4, <2>7, <2>8, <3>1 DEF Trace, AfterRunning
    <3>4. Validated(c)'
      BY <1>1, <1>3, <1>5, <2>2, <2>8 DEF CallerInv, Validated, AfterRunning
    <3> QED
      BY <3>2, <3>3, <3>4 DEF CallerInv
  <2> QED
    BY <1>1, <1>2, <1>3, <1>5, <1>7, <2>1, <2>2, <2>4, <2>5, <2>8, RunStepInv
    DEF TypeOK, slotVars
<1> QED
  BY <1>2, <1>6, <1>7 DEF BeginRunning, Run

\* What the engine is seen to be has its type.
LEMMA EngineType ==
    ASSUME IInv, NEW c \in Callers
    PROVE  /\ Engine(c) \in [content : Contents \cup {"none"}, context : Contexts \cup {"none"},
                             session : 0 .. MaxSessions]
           /\ Engine(c).content = call[c].ran.content /\ Engine(c).context = context
BY DEF IInv, TypeOK, Call, Engine

\* From the lock into the engine, or past it.
LEMMA ComputesInv ==
    ASSUME IInv, NEW c \in Callers, Dispatch(c) \/ RunLocally(c)
    PROVE  IInv' /\ CancellationsStay
<1>1. Working(c) /\ Holding(c) /\ call[c].pc = "dispatch"
  BY DEF Dispatch, RunLocally, Working, Holding
<1>2. CallerInv(c) /\ call[c] \in Call /\ TypeOK
  BY <1>1, OwnRun
<1>3. call[c].terminal = "none" /\ call[c].response = "none" /\ ~ call[c].publishing
  BY <1>1, <1>2 DEF CallerInv, Phase
<1>4. UNCHANGED <<storeVars, receipts, slotVars, envVars>> /\ job' \in {"none", "running", "stopping"}
  BY <1>2 DEF Dispatch, RunLocally, TypeOK
<1>5. CASE call' = [call EXCEPT ![c].pc = "handler"]
  BY <1>1, <1>3, <1>4, <1>5, ToHandlerInv
<1>6. CASE call' = [call EXCEPT ![c].pc = "ended", ![c].terminal = "cancelled"]
  <2> DEFINE e == [call[c] EXCEPT !.pc = "ended", !.terminal = "cancelled"]
  <2>1. call' = [call EXCEPT ![c] = e]
    BY <1>6 DEF TypeOK
  <2>2. e \in Call /\ e.pc = "ended" /\ e.attempt = Run(c) /\ e.terminal = "cancelled"
        /\ e.response = "none" /\ e.receipt = call[c].receipt /\ e.ran = call[c].ran
        /\ ~ e.publishing
    BY <1>2, <1>3 DEF Call, Run
  <2> HIDE DEF e
  <2>3. ASSUME call'[c] = e PROVE CallerInv(c)'
    <3>1. Run(c)' = Run(c) /\ Shown(Run(c))' = Shown(Run(c))
      BY <1>4, <2>2, <2>3 DEF Run, Shown, storeVars
    <3> QED
      BY <1>1, <1>2, <1>4, <2>2, <2>3, <3>1
      DEF CallerInv, Slot, Phase, Trace, Told, Kept, Over, Validated, Working, Holding,
          storeVars, slotVars
  <2> QED
    BY <1>1, <1>2, <1>4, <2>1, <2>2, <2>3, QuietStepInv DEF TypeOK, slotVars
<1>7. CASE /\ call' = [call EXCEPT ![c].pc = "executing", ![c].ran = Engine(c)]
           /\ Supervised \/ call[c].receipt = NoReceipt \/ call[c].receipt.context = context
  <2> DEFINE n == Engine(c)
             e == [call[c] EXCEPT !.pc = "executing", !.ran = n]
  <2>1. call' = [call EXCEPT ![c] = e]
    BY <1>7 DEF TypeOK
  <2>2. n \in [content : Contents \cup {"none"}, context : Contexts \cup {"none"},
               session : 0 .. MaxSessions] /\ n.content = call[c].ran.content /\ n.context = context
    BY EngineType
  <2> HIDE DEF n
  <2>3. e \in Call /\ e.pc = "executing" /\ e.attempt = Run(c) /\ e.terminal = "none"
        /\ e.response = "none" /\ e.receipt = call[c].receipt /\ e.ran = n
        /\ ~ e.publishing
    BY <1>2, <1>3, <2>2 DEF Call, Run
  <2> HIDE DEF e
  <2>4. ASSUME call'[c] = e PROVE CallerInv(c)'
    <3>1. Run(c)' = Run(c) /\ Shown(Run(c))' = Shown(Run(c))
      BY <1>4, <2>3, <2>4 DEF Run, Shown, storeVars
    <3>2. Slot(c)' /\ Phase(c)' /\ Trace(c)' /\ Told(c)' /\ Kept(c)' /\ Over(c)'
      BY <1>1, <1>2, <1>4, <2>3, <2>4, <3>1
      DEF CallerInv, Slot, Phase, Trace, Told, Kept, Over, Working, Holding, storeVars, slotVars
    <3>3. c \notin LegacyCallers => call[c].receipt # NoReceipt
      BY <1>1, <1>2, NoReceiptIsNone DEF CallerInv, Validated, TypeOK
    <3>4. Validated(c)'
      <4>1. c \notin LegacyCallers /\ ~ Supervised => call[c].receipt.context = n.context
        BY <1>7, <2>2, <3>3
      <4>2. c \notin LegacyCallers =>
              /\ call[c].receipt \in receipts' /\ call[c].receipt.valid
              /\ call[c].receipt.content = n.content
        BY <1>1, <1>2, <1>4, <2>2 DEF CallerInv, Validated
      <4> QED
        BY <2>3, <2>4, <4>1, <4>2 DEF Validated
    <3> QED
      BY <3>2, <3>4 DEF CallerInv
  <2> QED
    BY <1>1, <1>2, <1>4, <2>1, <2>3, <2>4, QuietStepInv DEF TypeOK, slotVars
<1> QED
  BY <1>5, <1>6, <1>7 DEF Dispatch, RunLocally, Step

LEMMA JobEndsInv ==
    ASSUME IInv, NEW c \in Callers, NEW t \in {"completed", "failed", "cancelled"}, JobEnds(c, t)
    PROVE  IInv' /\ CancellationsStay
<1>1. Working(c) /\ Holding(c) /\ call[c].pc = "executing"
  BY DEF JobEnds, Working, Holding
<1>2. CallerInv(c) /\ call[c] \in Call /\ TypeOK
  BY <1>1, OwnRun
<1> DEFINE e == [call[c] EXCEPT !.pc = "ended", !.terminal = t]
<1>3. /\ call' = [call EXCEPT ![c] = e]
      /\ UNCHANGED <<storeVars, receipts, slotVars, envVars>> /\ job' = "none"
      /\ t = "completed" /\ Supervised => call[c].ran.context = call[c].receipt.context
  BY <1>2 DEF JobEnds, TypeOK
<1>4. e \in Call /\ e.pc = "ended" /\ e.attempt = Run(c) /\ e.terminal = t
      /\ e.response = "none" /\ e.receipt = call[c].receipt /\ e.ran = call[c].ran
      /\ ~ e.publishing
  BY <1>1, <1>2 DEF Call, Run, CallerInv, Phase
<1> HIDE DEF e
<1>5. ASSUME call'[c] = e PROVE CallerInv(c)'
  <2>1. Run(c)' = Run(c) /\ Shown(Run(c))' = Shown(Run(c))
    BY <1>3, <1>4, <1>5 DEF Run, Shown, storeVars
  <2>2. Slot(c)' /\ Phase(c)' /\ Trace(c)' /\ Told(c)' /\ Kept(c)' /\ Over(c)'
    BY <1>1, <1>2, <1>3, <1>4, <1>5, <2>1
    DEF CallerInv, Slot, Phase, Trace, Told, Kept, Over, Working, Holding, storeVars, slotVars
  <2>3. c \notin LegacyCallers /\ t = "completed" => call[c].ran.context = call[c].receipt.context
    BY <1>1, <1>2, <1>3 DEF CallerInv, Validated
  <2>4. Validated(c)'
    BY <1>1, <1>2, <1>3, <1>4, <1>5, <2>3 DEF CallerInv, Validated
  <2> QED
    BY <2>2, <2>4 DEF CallerInv
<1> QED
  BY <1>1, <1>2, <1>3, <1>4, <1>5, QuietStepInv DEF TypeOK, slotVars

LEMMA JobRaisesInv ==
    ASSUME IInv, NEW c \in Callers, JobRaises(c)
    PROVE  IInv' /\ CancellationsStay
<1>1. Holding(c) /\ call[c].pc = "executing"
  BY DEF JobRaises, Holding
<1>2. ~ call[c].publishing
  BY <1>1 DEF IInv, CallerInv, Phase
<1> QED
  BY <1>1, <1>2, ToHandlerInv DEF JobRaises, Step

\* The result is published: its durable record is RUNNING, as no cancellation is shown.
LEMMA PromoteInv ==
    ASSUME IInv, NEW c \in Callers, NEW saved \in BOOLEAN, call[c].pc = "ended",
           call[c].terminal = "completed", ~ Cancelled(Run(c)), Promote(c, saved),
           UNCHANGED <<receipts, slotVars, job, envVars>>
    PROVE  IInv' /\ CancellationsStay
<1>1. Working(c) /\ Holding(c)
  BY DEF Working, Holding
<1>2. PICK a \in Attempts : a = Run(c)
  BY <1>1, OwnRun
<1>3. CallerInv(c) /\ call[c] \in Call /\ TypeOK
  BY <1>1, OwnRun
<1> DEFINE pc == IF saved THEN "promoted" ELSE "handler"
           e == [call[c] EXCEPT !.pc = pc, !.publishing = TRUE]
<1>4. /\ call' = [call EXCEPT ![c] = e]
      /\ results' = IF saved THEN results \cup {a} ELSE results
      /\ unpersisted' = IF Supervised THEN unpersisted ELSE unpersisted \cup {a}
      /\ UNCHANGED <<durable, pending>>
  BY <1>2, <1>3 DEF Promote, PublicationBegins, Run, TypeOK
<1>5. e \in Call /\ e.pc = pc /\ e.attempt = a /\ e.terminal = "completed"
      /\ e.response = call[c].response /\ e.receipt = call[c].receipt /\ e.ran = call[c].ran
      /\ e.publishing
  BY <1>2, <1>3 DEF Call, Run
<1> HIDE DEF e
<1>6. IsIn(durable[a], "RUNNING") /\ pending[a] = NoRecord
  BY <1>2, <1>3 DEF CallerInv, Trace, Cancelled, Shown, IsIn
<1>7. \A b \in Attempts : b # Run(c) => Untouched(b)
  BY <1>2, <1>4 DEF Untouched
<1>8. ASSUME call'[c] = e PROVE CallerInv(c)'
  <2>1. Run(c)' = a /\ Shown(a)' = Shown(a)
    BY <1>4, <1>5, <1>8 DEF Run, Shown
  <2>2. Slot(c)' /\ Phase(c)' /\ Told(c)' /\ Over(c)'
    BY <1>1, <1>2, <1>3, <1>4, <1>5, <1>8, <2>1
    DEF CallerInv, Slot, Phase, Told, Over, Working, Holding, slotVars
  <2>3. Trace(c)'
    BY <1>4, <1>5, <1>6, <1>8, <2>1 DEF Trace, IsIn
  <2>4. Kept(c)'
    BY <1>2, <1>3, <1>4, <1>5, <1>8, <2>1 DEF CallerInv, Kept
  <2>5. Validated(c)'
    BY <1>3, <1>5, <1>8 DEF CallerInv, Validated
  <2> QED
    BY <2>2, <2>3, <2>4, <2>5 DEF CallerInv
<1> QED
  BY <1>1, <1>2, <1>3, <1>4, <1>5, <1>7, <1>8, RunStepInv DEF TypeOK, slotVars

\* A cancelled job: its record is written, if it can be.
LEMMA RecordCancelledInv ==
    ASSUME IInv, NEW c \in Callers, NEW o \in Outcomes, Holding(c),
           ~ call[c].publishing, ~ Cancelled(Run(c)),
           Record_attempt(call[c].attempt, "CANCELLED", o), call' = [call EXCEPT ![c].pc = "handler"],
           UNCHANGED <<results, unpersisted, receipts, slotVars, job, envVars>>
    PROVE  IInv' /\ CancellationsStay
<1>1. Working(c)
  BY DEF Working
<1>2. PICK a \in Attempts : a = Run(c)
  BY <1>1, OwnRun
<1>3. CallerInv(c) /\ call[c] \in Call /\ TypeOK
  BY <1>1, OwnRun
<1> DEFINE e == [call[c] EXCEPT !.pc = "handler"]
<1>4. call' = [call EXCEPT ![c] = e] /\ Record_attempt(a, "CANCELLED", o)
  BY <1>2 DEF Run
<1>5. e \in Call /\ e.pc = "handler" /\ e.attempt = a /\ ~ e.publishing
      /\ e.response = call[c].response
  BY <1>2, <1>3 DEF Call, Run
<1> HIDE DEF e
<1>6. "CANCELLED" \in States
  BY DEF States, Terminal
<1>7. /\ durable' \in [Attempts -> MaybeRecord] /\ pending' \in [Attempts -> MaybeRecord]
      /\ \A b \in Attempts : b # a => durable'[b] = durable[b] /\ pending'[b] = pending[b]
      /\ Shown(a)' # NoRecord
      /\ Closed(durable[a]) => durable'[a] = durable[a]
  BY <1>3, <1>4, <1>6, Recorded
<1>8. \A b \in Attempts : b # Run(c) => Untouched(b)
  BY <1>2, <1>7 DEF Untouched
<1>9. ASSUME call'[c] = e PROVE CallerInv(c)'
  <2>1. Run(c)' = a
    BY <1>5, <1>9 DEF Run
  <2> QED
    BY <1>2, <1>3, <1>5, <1>7, <1>9, <2>1
    DEF CallerInv, Slot, Phase, Trace, Told, Kept, Over, Validated, Working, Holding, slotVars,
        Closed, IsIn, Terminal
<1> QED
  BY <1>1, <1>2, <1>3, <1>4, <1>5, <1>7, <1>8, <1>9, RunStepInv DEF TypeOK, slotVars

LEMMA PublishInv ==
    ASSUME IInv, NEW c \in Callers, NEW o \in Outcomes, NEW saved \in BOOLEAN, Publish(c, o, saved)
    PROVE  IInv' /\ CancellationsStay
<1>1. /\ call[c].pc = "ended" /\ Holding(c) /\ call[c].attempt = Run(c)
      /\ ~ call[c].publishing /\ UNCHANGED <<receipts, slotVars, job, envVars>>
  BY DEF Publish, Holding, Run, IInv, CallerInv, Phase
<1>2. CASE ~ Cancelled(Run(c)) /\ call[c].terminal = "completed" /\ Promote(c, saved)
  BY <1>1, <1>2, PromoteInv
<1>3. CASE /\ ~ Cancelled(Run(c)) /\ call[c].terminal = "cancelled"
           /\ Record_attempt(call[c].attempt, "CANCELLED", o) /\ Step(c, "handler")
           /\ UNCHANGED <<results, unpersisted>>
  BY <1>1, <1>3, RecordCancelledInv DEF Step
<1>4. CASE Step(c, "handler") /\ UNCHANGED storeVars
  BY <1>1, <1>4, ToHandlerInv DEF Step, IInv, TypeOK
<1> QED
  BY <1>1, <1>2, <1>3, <1>4 DEF Publish

\* The record that was RUNNING is COMPLETED; or the run goes to the handler, its result kept.
LEMMA CompleteInv ==
    ASSUME IInv, NEW c \in Callers, NEW o \in Outcomes, Complete(c, o)
    PROVE  IInv' /\ CancellationsStay
<1>1. Working(c) /\ Holding(c) /\ call[c].pc = "promoted"
  BY DEF Complete, Working, Holding
<1>2. PICK a \in Attempts : a = Run(c)
  BY <1>1, OwnRun
<1>3. CallerInv(c) /\ call[c] \in Call /\ TypeOK
  BY <1>1, OwnRun
<1>4. /\ Record_attempt(a, "COMPLETED", o) /\ "COMPLETED" \in States
      /\ UNCHANGED <<results, receipts, slotVars, job, envVars>>
  BY <1>2 DEF Complete, Run, States, Terminal
<1>5. /\ durable' \in [Attempts -> MaybeRecord] /\ pending' \in [Attempts -> MaybeRecord]
      /\ \A b \in Attempts : b # a => durable'[b] = durable[b] /\ pending'[b] = pending[b]
      /\ Shown(a)' # NoRecord /\ Closed(Shown(a))'
      /\ o # "lost" /\ Open(durable[a]) => IsIn(durable'[a], "COMPLETED")
      /\ Closed(durable[a]) => durable'[a] = durable[a]
  BY <1>3, <1>4, Recorded DEF Terminal
<1>6. IsIn(durable[a], "RUNNING") /\ pending[a] = NoRecord /\ a \in results
      /\ (~ Supervised => a \in unpersisted)
  BY <1>1, <1>2, <1>3 DEF CallerInv, Trace
<1>7. ~ Cancelled(Run(c))
  BY <1>2, <1>6 DEF Cancelled, Shown, IsIn
<1>8. CASE o = "ok"
  <2> DEFINE e == [call[c] EXCEPT !.pc = "finally", !.response = "returned"]
  <2>1. call' = [call EXCEPT ![c] = e] /\ unpersisted' = unpersisted \ {a}
    BY <1>2, <1>3, <1>8 DEF Complete, Run, TypeOK
  <2>2. e \in Call /\ e.pc = "finally" /\ e.attempt = a /\ e.response = "returned"
    BY <1>2, <1>3 DEF Call, Run
  <2> HIDE DEF e
  <2>3. \A b \in Attempts : b # Run(c) => Untouched(b)
    BY <1>2, <1>4, <1>5, <2>1 DEF Untouched
  <2>4. IsIn(durable'[a], "COMPLETED")
    BY <1>5, <1>6, <1>8 DEF Open, IsIn, Terminal
  <2>5. ASSUME call'[c] = e PROVE CallerInv(c)'
    <3>1. Run(c)' = a
      BY <2>2, <2>5 DEF Run
    <3> QED
      BY <1>1, <1>2, <1>3, <1>4, <1>5, <1>6, <2>2, <2>4, <2>5, <3>1
      DEF CallerInv, Slot, Phase, Trace, Told, Kept, Over, Validated, Working, Holding, slotVars
  <2> QED
    BY <1>1, <1>2, <1>3, <1>4, <1>5, <1>7, <2>1, <2>2, <2>3, <2>5, RunStepInv DEF TypeOK, slotVars
<1>9. CASE o # "ok"
  <2> DEFINE e == [call[c] EXCEPT !.pc = "handler"]
  <2>1. call' = [call EXCEPT ![c] = e] /\ unpersisted' = unpersisted
    BY <1>9 DEF Complete, Step
  <2>2. e \in Call /\ e.pc = "handler" /\ e.attempt = a /\ e.response = call[c].response
        /\ e.publishing = call[c].publishing
    BY <1>2, <1>3 DEF Call, Run
  <2> HIDE DEF e
  <2>3. \A b \in Attempts : b # Run(c) => Untouched(b)
    BY <1>2, <1>4, <1>5, <2>1 DEF Untouched
  <2>4. IsIn(durable'[a], "COMPLETED") \/ durable'[a] = durable[a]
    BY <1>3, <1>4, Recorded
  <2>5. call[c].response # "returned"
    BY <1>2, <1>3, <1>6 DEF CallerInv, Told, IsIn
  <2>6. ASSUME call'[c] = e PROVE CallerInv(c)'
    <3>1. Run(c)' = a
      BY <2>2, <2>6 DEF Run
    <3> QED
      BY <1>1, <1>2, <1>3, <1>4, <1>5, <1>6, <2>1, <2>2, <2>5, <2>6, <3>1
      DEF CallerInv, Slot, Phase, Trace, Told, Kept, Over, Validated, Working, Holding, slotVars
  <2> QED
    BY <1>1, <1>2, <1>3, <1>4, <1>5, <1>7, <2>1, <2>2, <2>3, <2>6, RunStepInv DEF TypeOK, slotVars
<1> QED
  BY <1>8, <1>9

LEMMA HandleInv ==
    ASSUME IInv, NEW c \in Callers, NEW o \in Outcomes, Handle(c, o)
    PROVE  IInv' /\ CancellationsStay
<1>1. Working(c) /\ Holding(c) /\ call[c].pc = "handler"
  BY DEF Handle, Working, Holding
<1>2. PICK a \in Attempts : a = Run(c)
  BY <1>1, OwnRun
<1>3. CallerInv(c) /\ call[c] \in Call /\ TypeOK
  BY <1>1, OwnRun
<1>4. UNCHANGED <<results, unpersisted, receipts, slotVars, job, envVars>>
  BY DEF Handle
<1>5. ASSUME NEW reply \in {"cancelled", "unreadable"}, reply = "cancelled" => Cancelled(a),
             call' = [call EXCEPT ![c].pc = "finally", ![c].response = reply],
             UNCHANGED <<durable, pending>>
      PROVE  IInv' /\ CancellationsStay
  <2> DEFINE e == [call[c] EXCEPT !.pc = "finally", !.response = reply]
  <2>1. call' = [call EXCEPT ![c] = e] /\ UNCHANGED <<durable, pending>>
    BY <1>3, <1>5 DEF TypeOK
  <2>2. e \in Call /\ e.pc = "finally" /\ e.attempt = a /\ e.response = reply
        /\ e.publishing = call[c].publishing
    BY <1>2, <1>3 DEF Call, Run
  <2> HIDE DEF e
  <2>3. reply # "unreadable" => Closed(Shown(a))
    BY <1>5 DEF Cancelled, IsIn, Closed, Terminal
  <2>4. ASSUME call'[c] = e PROVE CallerInv(c)'
    <3>1. Run(c)' = a /\ Shown(a)' = Shown(a)
      BY <2>1, <2>2, <2>4 DEF Run, Shown
    <3>2. reply # "unreadable" => Closed(Shown(a))'
      BY <2>3, <3>1 DEF Closed
    <3> QED
      BY <1>1, <1>2, <1>3, <1>4, <2>2, <2>4, <3>1, <3>2
      DEF CallerInv, Slot, Phase, Trace, Told, Kept, Over, Validated, Working, Holding, slotVars
  <2> QED
    BY <1>1, <1>2, <1>3, <1>4, <2>1, <2>2, <2>4, QuietStepInv DEF TypeOK, slotVars, storeVars
<1>6. ASSUME NEW reply \in {"persistence_failed", "failed"}, ~ Cancelled(a),
             Record_attempt(a, "FAILED", o),
             call' = [call EXCEPT ![c].pc = "finally", ![c].response = reply]
      PROVE  IInv' /\ CancellationsStay
  <2> DEFINE e == [call[c] EXCEPT !.pc = "finally", !.response = reply]
  <2>1. call' = [call EXCEPT ![c] = e]
    BY <1>3, <1>6 DEF TypeOK
  <2>2. e \in Call /\ e.pc = "finally" /\ e.attempt = a /\ e.response = reply
        /\ e.publishing = call[c].publishing
    BY <1>2, <1>3 DEF Call, Run
  <2> HIDE DEF e
  <2>3. "FAILED" \in States /\ "FAILED" \in Terminal
    BY DEF States, Terminal
  <2>4. /\ durable' \in [Attempts -> MaybeRecord] /\ pending' \in [Attempts -> MaybeRecord]
        /\ \A b \in Attempts : b # a => durable'[b] = durable[b] /\ pending'[b] = pending[b]
        /\ Shown(a)' # NoRecord /\ Closed(Shown(a))'
    BY <1>3, <1>6, <2>3, Recorded
  <2>5. \A b \in Attempts : b # Run(c) => Untouched(b)
    BY <1>2, <1>4, <2>4 DEF Untouched
  <2>6. ASSUME call'[c] = e PROVE CallerInv(c)'
    <3>1. Run(c)' = a
      BY <2>2, <2>6 DEF Run
    <3>2. ~ Supervised /\ call[c].publishing => a \in unpersisted
      BY <1>1, <1>2, <1>3 DEF CallerInv, Kept
    <3> QED
      BY <1>1, <1>2, <1>3, <1>4, <2>2, <2>4, <2>6, <3>1, <3>2
      DEF CallerInv, Slot, Phase, Trace, Told, Kept, Over, Validated, Working, Holding, slotVars
  <2>7. ~ Cancelled(Run(c))
    BY <1>2, <1>6
  <2> QED
    BY <1>1, <1>2, <1>3, <1>4, <2>1, <2>2, <2>4, <2>5, <2>6, <2>7, RunStepInv
    DEF TypeOK, slotVars
<1>7. CASE /\ ~ Cancelled(a) /\ Record_attempt(a, "FAILED", o)
           /\ call' = [call EXCEPT ![c].pc = "finally",
                 ![c].response = IF call[c].publishing \/ o # "ok"
                                 THEN "persistence_failed" ELSE "failed"]
  BY <1>6, <1>7
<1>8. CASE /\ Cancelled(a) /\ UNCHANGED <<durable, pending>>
           /\ call' = [call EXCEPT ![c].pc = "finally", ![c].response = "cancelled"]
  BY <1>5, <1>8
<1>9. CASE /\ UNCHANGED <<durable, pending>>
           /\ call' = [call EXCEPT ![c].pc = "finally", ![c].response = "unreadable"]
  BY <1>5, <1>9
<1> QED
  BY <1>2, <1>7, <1>8, <1>9 DEF Handle, Run

\* The slot is given up by the thread that has it.
LEMMA FinallyInv ==
    ASSUME IInv, NEW c \in Callers, Finally(c)
    PROVE  IInv' /\ CancellationsStay
<1>1. Working(c) /\ Holding(c) /\ call[c].pc = "finally"
  BY DEF Finally, Working, Holding
<1>2. CallerInv(c) /\ call[c] \in Call /\ TypeOK
  BY <1>1, OwnRun
<1> DEFINE e == [call[c] EXCEPT !.pc = "idle", !.receipt = NoReceipt, !.ran = NoRun,
                               !.terminal = "none"]
<1>3. /\ call' = [call EXCEPT ![c] = e] /\ active' = NoAttempt /\ cancelEvent' = FALSE
      /\ UNCHANGED <<storeVars, receipts, job, envVars>>
  BY <1>2 DEF Finally, TypeOK
<1>4. NoRun \in [content : Contents \cup {"none"}, context : Contexts \cup {"none"},
                 session : 0 .. MaxSessions]
  BY LifecycleAssumption DEF NoRun
<1>5. e \in Call /\ e.pc = "idle" /\ e.attempt = Run(c) /\ e.publishing = call[c].publishing
      /\ e.response = call[c].response
  <2> DEFINE i == [call[c] EXCEPT !.pc = "idle", !.terminal = "none"]
  <2>1. i \in Call /\ i.pc = "idle" /\ i.attempt = Run(c) /\ i.publishing = call[c].publishing
        /\ i.response = call[c].response
    BY <1>2 DEF Call, Run
  <2>2. e = [i EXCEPT !.receipt = NoReceipt, !.ran = NoRun]
    BY <1>2 DEF Call
  <2> HIDE DEF i, e
  <2> QED
    BY <1>4, <2>1, <2>2 DEF Call
<1> HIDE DEF e
<1>6. ASSUME call'[c] = e PROVE CallerInv(c)'
  <2>1. Run(c)' = Run(c) /\ Shown(Run(c))' = Shown(Run(c))
    BY <1>3, <1>5, <1>6 DEF Run, Shown, storeVars
  <2>2. call[c].response # "unreadable" => Closed(Shown(Run(c)))'
    BY <1>1, <1>2, <2>1 DEF CallerInv, Slot, Over, Closed
  <2> QED
    BY <1>1, <1>2, <1>3, <1>5, <1>6, <2>1, <2>2
    DEF CallerInv, Slot, Phase, Trace, Told, Kept, Over, Validated, Working, Holding, storeVars
<1> QED
  BY <1>1, <1>2, <1>3, <1>5, <1>6, QuietStepInv DEF TypeOK

-------------------------------------------------------------------------------
(* Cancellation and the environment *)

\* A cancellation is recorded of a run that is durably open, and never between the promotion of
\* a result and its record.
LEMMA CancelRunInv ==
    ASSUME IInv, NEW id \in Attempts \cup {InFlight}, NEW o \in Outcomes, CancelRun(id, o)
    PROVE  IInv' /\ CancellationsStay
<1>1. TypeOK /\ \A c \in Callers : CallerInv(c)
  BY DEF IInv
<1>2. PICK a \in Attempts :
        /\ LockFree /\ cancelEvent' = (cancelEvent \/ a = active)
        /\ job' = IF alive /\ job = "running" /\ a = active THEN "stopping" ELSE job
        /\ IF Open(durable[a]) THEN Record_attempt(a, "CANCELLED", o)
           ELSE UNCHANGED <<durable, pending>>
        /\ UNCHANGED <<results, unpersisted, receipts, active, envVars, call>>
  <2>1. Targets(id) \subseteq Attempts
    BY <1>1 DEF Targets, OpenAttempts, TypeOK
  <2> QED
    BY <2>1 DEF CancelRun
<1>3. (cancelEvent \/ a = active) \in BOOLEAN /\ job' \in {"none", "running", "stopping"}
  BY <1>1, <1>2 DEF TypeOK
<1>4. CASE ~ Open(durable[a])
  <2>1. UNCHANGED storeVars
    BY <1>2, <1>4 DEF storeVars
  <2>2. TypeOK'
    BY <1>1, <1>2, <1>3, <2>1 DEF TypeOK, storeVars, envVars
  <2>3. Apart'
    BY <1>2 DEF IInv, Apart, Working, Holding, Run
  <2>4. ASSUME NEW c \in Callers PROVE CallerInv(c)'
    <3>1. CallerInv(c)
      BY <1>1
    <3> QED
      BY <1>2, <2>1, <3>1
      DEF CallerInv, Slot, Phase, Trace, Told, Kept, Over, Validated, Working, Holding, Run, Shown,
          Cancelled, IsIn, Closed, storeVars
  <2>5. CancellationsStay
    BY <2>1 DEF CancellationsStay, StaysCancelled, Cancelled, Shown, storeVars
  <2> QED
    BY <2>2, <2>3, <2>4, <2>5 DEF IInv
<1>5. CASE Open(durable[a])
  <2>1. Record_attempt(a, "CANCELLED", o) /\ "CANCELLED" \in States /\ "CANCELLED" \in Terminal
    BY <1>2, <1>5 DEF States, Terminal
  <2>2. /\ durable' \in [Attempts -> MaybeRecord] /\ pending' \in [Attempts -> MaybeRecord]
        /\ \A b \in Attempts : b # a => durable'[b] = durable[b] /\ pending'[b] = pending[b]
        /\ Closed(Shown(a))' /\ Shown(a)' # NoRecord
        /\ o = "ok" => pending'[a] = NoRecord
        /\ o # "ok" => IsIn(pending'[a], "CANCELLED")
        /\ o # "lost" => IsIn(durable'[a], "CANCELLED")
        /\ durable'[a] = durable[a] \/ IsIn(durable'[a], "CANCELLED")
    BY <1>1, <1>5, <2>1, Recorded
  <2>3. IsIn(Shown(a), "CANCELLED")'
    BY <2>2 DEF Shown, IsIn
  <2>4. TypeOK'
    BY <1>1, <1>2, <1>3, <2>2 DEF TypeOK, envVars
  <2>5. Apart'
    BY <1>2 DEF IInv, Apart, Working, Holding, Run
  <2>6. CancellationsStay
    BY <1>2, <2>2, <2>3 DEF CancellationsStay, StaysCancelled, Cancelled, Shown
  <2>7. ASSUME NEW c \in Callers PROVE CallerInv(c)'
    <3>1. Run(c)' = Run(c) /\ Run(c) \in Attempts \cup {NoAttempt}
          /\ Working(c)' = Working(c) /\ Holding(c)' = Holding(c) /\ CallerInv(c)
      BY <1>1, <1>2 DEF Run, Working, Holding, TypeOK, Call
    <3>2. Phase(c)' /\ Validated(c)'
      BY <1>2, <3>1 DEF CallerInv, Phase, Validated
    <3>3. CASE Run(c) # a
      <4>1. Run(c) # NoAttempt => /\ durable'[Run(c)] = durable[Run(c)]
                                  /\ pending'[Run(c)] = pending[Run(c)]
        BY <2>2, <3>1, <3>3
      <4>2. Run(c) # NoAttempt => Shown(Run(c))' = Shown(Run(c))
        BY <3>1, <4>1 DEF Shown
      <4>3. Slot(c)' /\ Over(c)'
        BY <1>2, <3>1, <4>2 DEF CallerInv, Slot, Over, Closed
      <4>4. Trace(c)'
        <5>1. CASE Working(c)
          BY <1>2, <3>1, <4>1, <4>2, <5>1 DEF CallerInv, Slot, Trace, IsIn
        <5>2. CASE ~ Working(c)
          BY <1>2, <3>1, <5>2 DEF Trace, Working, Holding
        <5> QED
          BY <5>1, <5>2
      <4>5. Told(c)' /\ Kept(c)'
        <5>1. results \subseteq Attempts /\ NoAttempt \notin Attempts
          BY <1>1, NoAttemptIsNone DEF TypeOK
        <5>2. call[c].pc = "handler" => Run(c) # NoAttempt
          BY <3>1 DEF CallerInv, Slot, Working, Holding
        <5> QED
          BY <1>2, <3>1, <4>1, <4>2, <5>1, <5>2 DEF CallerInv, Told, Kept, Cancelled, IsIn
      <4> QED
        BY <3>2, <4>3, <4>4, <4>5 DEF CallerInv
    <3>4. CASE Run(c) = a
      <4>1. Slot(c)' /\ Over(c)'
        BY <1>2, <2>2, <3>1, <3>4 DEF CallerInv, Slot, Over
      <4>2. call[c].pc \notin {"admitFailed", "promoted"} /\ call[c].response # "returned"
        BY <1>2, <1>5, <3>1, <3>4 DEF LockFree, CallerInv, Told, IsIn, Open, Terminal
      <4>3. Trace(c)'
        BY <1>2, <2>2, <3>1, <3>4, <4>2 DEF CallerInv, Trace, IsIn
      <4>4. Told(c)' /\ Kept(c)'
        BY <1>2, <2>3, <3>1, <3>4, <4>2 DEF CallerInv, Told, Kept, Cancelled
      <4> QED
        BY <3>2, <4>1, <4>3, <4>4 DEF CallerInv
    <3> QED
      BY <3>3, <3>4
  <2> QED
    BY <2>4, <2>5, <2>6, <2>7 DEF IInv
<1> QED
  BY <1>4, <1>5

\* What only the environment has does not matter to any thread.
LEMMA EnvironmentInv ==
    ASSUME IInv, session' \in 0 .. MaxSessions, alive' \in BOOLEAN, context' \in Contexts,
           UNCHANGED <<storeVars, receipts, slotVars, job, call>>
    PROVE  IInv' /\ CancellationsStay
<1>1. TypeOK'
  BY DEF IInv, TypeOK, storeVars, slotVars
<1>2. Apart' /\ (\A c \in Callers : CallerInv(c))'
  BY DEF IInv, Apart, CallerInv, Slot, Phase, Trace, Told, Kept, Over, Validated, Working, Holding,
         Run, Shown, Cancelled, IsIn, Closed, storeVars, slotVars
<1>3. CancellationsStay
  BY DEF CancellationsStay, StaysCancelled, Cancelled, Shown, storeVars
<1> QED
  BY <1>1, <1>2, <1>3 DEF IInv

\* Threads that do nothing have nothing to keep.
LEMMA AllIdle ==
    ASSUME call = [c \in Callers |-> IdleCall("none", NoAttempt)]
    PROVE  call \in [Callers -> Call] /\ Apart /\ \A c \in Callers : CallerInv(c)
<1>1. \A c \in Callers : /\ call[c] \in Call /\ call[c].pc = "idle" /\ call[c].attempt = NoAttempt
                         /\ call[c].terminal = "none" /\ call[c].response = "none"
                         /\ ~ call[c].publishing
  BY IdleType
<1> QED
  BY <1>1 DEF Apart, CallerInv, Slot, Phase, Trace, Told, Kept, Over, Validated, Working, Holding, Run

\* Startup closes open attempts, and nobody works on any.
LEMMA RestartInv ==
    ASSUME IInv, NEW k \in 0 .. MaxAttempts, NEW x \in Contexts, Restart(k, x)
    PROVE  IInv'
<1>1. /\ pending' = [a \in Attempts |-> NoRecord] /\ unpersisted' = {} /\ receipts' = {}
      /\ active' = NoAttempt /\ cancelEvent' = FALSE /\ job' = "none" /\ session' = 1
      /\ alive' = TRUE /\ context' = x /\ results' = results
  BY DEF Restart
<1>2. call' \in [Callers -> Call] /\ Apart' /\ (\A c \in Callers : CallerInv(c))'
  <2>1. call' = [c \in Callers |-> IdleCall("none", NoAttempt)]
    BY DEF Restart
  <2>2. \A c \in Callers : /\ call'[c] \in Call /\ call'[c].pc = "idle"
                           /\ call'[c].attempt = NoAttempt /\ call'[c].terminal = "none"
                           /\ call'[c].response = "none" /\ ~ call'[c].publishing
    BY <2>1, IdleType
  <2> QED
    BY <2>1, <2>2
    DEF Apart, CallerInv, Slot, Phase, Trace, Told, Kept, Over, Validated, Working, Holding, Run
<1>3. durable' \in [Attempts -> MaybeRecord]
  <2>1. ASSUME NEW r \in Record PROVE [r EXCEPT !.state = "INTERRUPTED"] \in Record
    BY DEF Record, States, Terminal
  <2>2. \A a \in Attempts : Open(durable[a]) => durable[a] \in Record
    BY DEF IInv, TypeOK, MaybeRecord, Open
  <2> QED
    BY <2>1, <2>2 DEF Restart, IInv, TypeOK, MaybeRecord
<1>4. session' \in 0 .. MaxSessions
  BY <1>1, LifecycleAssumption
<1> QED
  BY <1>1, <1>2, <1>3, <1>4 DEF IInv, TypeOK, MaybeRecord

LEMMA InitInv == Init => IInv
<1> SUFFICES ASSUME Init PROVE IInv
  OBVIOUS
<1>1. call \in [Callers -> Call] /\ Apart /\ \A c \in Callers : CallerInv(c)
  BY AllIdle DEF Init
<1>2. session \in 0 .. MaxSessions
  BY LifecycleAssumption DEF Init
<1> QED
  BY <1>1, <1>2 DEF Init, IInv, TypeOK, MaybeRecord

-------------------------------------------------------------------------------
(* The invariant *)

Restarts == \E k \in 0 .. MaxAttempts, x \in Contexts : Restart(k, x)

LEMMA RunStepKeeps ==
    ASSUME IInv, NEW c \in Callers, RunStep(c)
    PROVE  IInv' /\ CancellationsStay
<1>1. CASE \E o \in Outcomes : AdmissionFails(c, o) \/ BeginRunning(c, o) \/ Complete(c, o)
                                \/ Handle(c, o)
  BY <1>1, AdmissionFailsInv, BeginRunningInv, CompleteInv, HandleInv
<1>2. CASE \E o \in Outcomes, saved \in BOOLEAN : Publish(c, o, saved)
  BY <1>2, PublishInv
<1>3. CASE Dispatch(c) \/ RunLocally(c)
  BY <1>3, ComputesInv
<1>4. CASE \E t \in {"completed", "failed", "cancelled"} : JobEnds(c, t)
  BY <1>4, JobEndsInv
<1>5. CASE JobRaises(c) \/ Finally(c)
  BY <1>5, JobRaisesInv, FinallyInv
<1> QED
  BY <1>1, <1>2, <1>3, <1>4, <1>5 DEF RunStep

LEMMA CallStepKeeps ==
    ASSUME IInv, NEW c \in Callers, CallStep(c)
    PROVE  IInv' /\ CancellationsStay
<1>1. CASE \E d \in Contents, v \in BOOLEAN : ValidateDraft(c, d, v)
  BY <1>1, ValidateDraftInv
<1>2. CASE \E d \in Contents, r \in receipts : StartRun(c, d, r)
  BY <1>2, StartRunInv
<1>3. CASE \E d \in Contents : LegacyRun(c, d)
  BY <1>3, LegacyRunInv
<1>4. CASE \E a \in Attempts, o \in Outcomes : Admit(c, a, o)
  BY <1>4, AdmitInv
<1>5. CASE IssueReceipt(c) \/ Reject(c)
  BY <1>5, IssueReceiptInv, RejectInv
<1>6. CASE RunStep(c)
  BY <1>6, RunStepKeeps
<1> QED
  BY <1>1, <1>2, <1>3, <1>4, <1>5, <1>6 DEF CallStep

LEMMA EnvironmentKeeps ==
    ASSUME IInv, Environment
    PROVE  IInv' /\ (CancellationsStay \/ Restarts)
<1> TypeOK
  BY DEF IInv
<1>1. ASSUME NEW x \in Contexts, ContextChanges(x) PROVE IInv' /\ CancellationsStay
  BY <1>1, EnvironmentInv DEF ContextChanges, TypeOK
<1>2. ASSUME NEW x \in Contexts, RestartWorker(x) PROVE IInv' /\ CancellationsStay
  <2>1. session' \in 0 .. MaxSessions
    BY <1>2, LifecycleAssumption DEF RestartWorker, TypeOK
  <2> QED
    BY <1>2, <2>1, EnvironmentInv DEF RestartWorker
<1>3. ASSUME WorkerDies PROVE IInv' /\ CancellationsStay
  BY <1>3, EnvironmentInv DEF WorkerDies, TypeOK
<1>4. ASSUME Restarts PROVE IInv'
  BY <1>4, RestartInv DEF Restarts
<1> QED
  BY <1>1, <1>2, <1>3, <1>4 DEF Environment, Restarts

LEMMA StepKeeps ==
    ASSUME IInv, [Next]_vars
    PROVE  IInv' /\ (CancellationsStay \/ Restarts)
<1>1. CASE UNCHANGED vars
  BY <1>1, EnvironmentInv DEF vars, envVars, IInv, TypeOK
<1>2. CASE \E c \in Callers : CallStep(c)
  BY <1>2, CallStepKeeps
<1>3. CASE \E id \in Attempts \cup {InFlight}, o \in Outcomes : CancelRun(id, o)
  BY <1>3, CancelRunInv
<1>4. CASE Environment
  BY <1>4, EnvironmentKeeps
<1> QED
  BY <1>1, <1>2, <1>3, <1>4 DEF Next

THEOREM Invariant == Spec => []IInv
<1>1. IInv /\ [Next]_vars => IInv'
  BY StepKeeps
<1> QED
  BY <1>1, InitInv, PTL DEF Spec

-------------------------------------------------------------------------------
(* What the invariant says of the code *)

\* Every state of the services has its type.
THEOREM TypeCorrect == Spec => []TypeOK
<1>1. IInv => TypeOK
  BY DEF IInv
<1> QED
  BY <1>1, Invariant, PTL

\* _execute: however many threads passed the receipt check, the slot is that of the one run
\* under way, from its admission to its finally.
THEOREM OneRunAtATime == Spec => []SlotHeldToTheEnd
<1>1. IInv => SlotHeldToTheEnd
  BY DEF IInv, CallerInv, Slot, Holding, Run, SlotHeldToTheEnd
<1> QED
  BY <1>1, Invariant, PTL

\* No effect without a durable trace, and no returned view without a durable COMPLETED record
\* and a listed run, under any pattern of storage failures.
THEOREM EffectsDurable == Spec => []EffectsAreDurable
<1>1. IInv => EffectsAreDurable
  BY DEF IInv, CallerInv, Trace, Told, Run, EffectsAreDurable
<1> QED
  BY <1>1, Invariant, PTL

\* A call that is over leaves its attempt shown as closed, in memory if storage refuses; all but
\* one whose handler could not read the attempt.
THEOREM OverIsShown == Spec => []OnlyActiveOpen
<1>1. IInv => OnlyActiveOpen
  BY DEF IInv, CallerInv, Over, Run, OnlyActiveOpen
<1> QED
  BY <1>1, Invariant, PTL

\* A local result whose publication was begun and that was not returned is still in
\* _unpersisted_runs, whatever storage, cancellations and other threads did.
THEOREM UnsavedKept == Spec => []UnsavedIsKept
<1>1. IInv => UnsavedIsKept
  BY DEF IInv, CallerInv, Kept, Run, UnsavedIsKept
<1> QED
  BY <1>1, Invariant, PTL

\* A cancellation once shown is shown for as long as the application runs, and its run is
\* never listed later.
THEOREM CancellationWins == Spec => CancelWins
<1>1. IInv /\ [Next]_vars => [\A a \in Attempts : IsIn(Shown(a), "CANCELLED") =>
         /\ a \in results' => a \in results
         /\ IsIn(Shown(a), "CANCELLED")' \/ \E k \in 0 .. MaxAttempts, x \in Contexts : Restart(k, x)]_vars
  <2>1. CASE UNCHANGED vars
    BY <2>1
  <2>2. CASE Restarts
    BY <2>2 DEF Restarts, Restart
  <2>3. CASE CancellationsStay
    BY <2>3 DEF CancellationsStay, StaysCancelled, Cancelled
  <2> QED
    BY <2>1, <2>2, <2>3, StepKeeps
<1> QED
  BY <1>1, Invariant, PTL DEF Spec, CancelWins

\* Only the promotion of a completed job lists a run.
LEMMA OnlyPublishLists ==
    ASSUME IInv, [Next]_vars, NEW a \in results' \ results
    PROVE  \E c \in Callers : /\ call[c].pc = "ended" /\ call[c].terminal = "completed"
                              /\ call[c].attempt = a
<1>1. results' # results
  OBVIOUS
<1>2. ~ UNCHANGED vars /\ ~ Environment
  BY <1>1 DEF vars, storeVars, Environment, ContextChanges, RestartWorker, WorkerDies, Restart
<1>3. ASSUME NEW id \in Attempts \cup {InFlight}, NEW o \in Outcomes, CancelRun(id, o) PROVE FALSE
  BY <1>1, <1>3 DEF CancelRun
<1>4. PICK c \in Callers : CallStep(c)
  BY <1>2, <1>3 DEF Next
<1>5. RunStep(c)
  BY <1>1, <1>4
  DEF CallStep, storeVars, ValidateDraft, IssueReceipt, StartRun, LegacyRun, Admit, Reject
<1>6. PICK o \in Outcomes, saved \in BOOLEAN : Publish(c, o, saved)
  BY <1>1, <1>5
  DEF RunStep, storeVars, AdmissionFails, BeginRunning, Complete, Handle, Dispatch, RunLocally,
      JobEnds, JobRaises, Finally
<1> QED
  BY <1>1, <1>6 DEF Publish, Promote, storeVars

\* The published run of a validated start has a receipt of its content and of the context it was
\* computed in: no restart, reconfiguration or other caller in between makes it another's.
THEOREM PublishedValidated == Spec => PublishedAsValidated
<1>1. IInv /\ [Next]_vars => [\A c \in Callers \ LegacyCallers :
         call[c].attempt \in results' \ results =>
           \E r \in receipts : /\ r.valid
                               /\ r.content = call[c].ran.content
                               /\ r.context = call[c].ran.context]_vars
  <2> SUFFICES ASSUME IInv, [Next]_vars, NEW c \in Callers \ LegacyCallers,
                      call[c].attempt \in results' \ results
               PROVE  \E r \in receipts : /\ r.valid
                                          /\ r.content = call[c].ran.content
                                          /\ r.context = call[c].ran.context
    OBVIOUS
  <2>1. PICK d \in Callers : /\ call[d].pc = "ended" /\ call[d].terminal = "completed"
                             /\ call[d].attempt = call[c].attempt
    BY OnlyPublishLists
  <2>2. call[d].attempt # NoAttempt
    BY <2>1 DEF IInv, CallerInv, Slot, Working, Holding, Run
  <2>3. d = c
    BY <2>1, <2>2 DEF IInv, Apart, Run
  <2> QED
    BY <2>1, <2>3 DEF IInv, CallerInv, Validated
<1> QED
  BY <1>1, Invariant, PTL DEF Spec, PublishedAsValidated

===============================================================================
