----------------------------- MODULE RunLifecycle -----------------------------
(***************************************************************************)
(* src/bh_sim/application/services.py: validation receipts and the life of *)
(* a run in one application process, from admission through execution to   *)
(* publication, against cancellation, storage failures, worker loss and    *)
(* restarts of the worker or of the application.                           *)
(*                                                                         *)
(* A section under the application lock is one step, or two when it writes *)
(* durable state twice; LockFree says when another thread may enter its    *)
(* own.  Calls that raise before they change anything are left out: they   *)
(* are the false guards.  The store is the one of PersistenceStore seen    *)
(* from one process: record_attempt succeeds, raises with nothing written  *)
(* ("lost") or raises after the JSON is in place ("torn"); load_attempt,   *)
(* which the life of a run asks before it goes on, answers or raises.      *)
(***************************************************************************)
EXTENDS AttemptRecords, Naturals, FiniteSets

CONSTANTS
    MaxAttempts,    \* bound on the runs ever admitted
    MaxSessions,    \* bound on the worker processes of one application process
    MaxReceipts,    \* bound on the receipts of one application process
    Supervised,     \* a worker process computes, else the application itself
    Callers,        \* threads inside validate_draft, start_run or _legacy_run
    LegacyCallers,  \* callers of _legacy_run: the web API, never supervised
    Contents,       \* engineering contents of drafts
    Contexts,       \* execution contexts (hash of sources and configuration)
    NoReceipt,      \* what a legacy call presents
    Note            \* the one terminal note of this module

Attempts == 1 .. MaxAttempts        \* in the order of admission, and their runs
NoAttempt == 0
InFlight == MaxAttempts + 1         \* the placeholder run id "run:in-flight"

ASSUME LifecycleAssumption ==
    /\ MaxAttempts \in Nat /\ MaxSessions \in Nat \ {0}
    /\ Supervised \in BOOLEAN
    /\ LegacyCallers \subseteq Callers
    /\ Supervised => LegacyCallers = {}
    /\ Identities = Attempts /\ Note \in Notes

VARIABLES
    durable,        \* the attempt record the artifact repository answers with
    pending,        \* _pending_attempts: records shown instead of the durable one
    results,        \* runs the repository lists
    unpersisted,    \* _unpersisted_runs: local results kept for reconciliation
    receipts,       \* _receipts
    active,         \* _active_run_id, by its attempt
    cancelEvent,    \* _active_cancel_event is set
    job,            \* the supervisor's registered job, and whether it was cancelled
    session,        \* the worker generation, restarted by WorkerSupervisor.start
    alive,          \* the worker process runs
    context,        \* the execution context of the engine that computes
    call            \* per caller: where its thread is, and its locals

storeVars == <<durable, pending, results, unpersisted>>
slotVars  == <<active, cancelEvent>>
envVars   == <<session, alive, context>>
vars == <<storeVars, receipts, slotVars, job, envVars, call>>

Receipt == [content : Contents, context : Contexts, valid : BOOLEAN, session : 0 .. MaxSessions]
ASSUME NoReceiptIsNone == NoReceipt \notin Receipt
NoRun == [content |-> "none", context |-> "none", session |-> 0]

IdleCall(response, a) ==
    [pc |-> "idle", receipt |-> NoReceipt, attempt |-> a, ran |-> NoRun,
     terminal |-> "none", publishing |-> FALSE, response |-> response]

-------------------------------------------------------------------------------
(* Records and the overlay of pending ones *)

\* inspect_attempt, list_attempts
Shown(a) == IF pending[a] # NoRecord THEN pending[a] ELSE durable[a]
IsIn(r, state) == r # NoRecord /\ r.state = state
CancelledDurably(a) == IsIn(durable[a], "CANCELLED")    \* mutant: no overlay
\* _cancelled_attempt
Cancelled(a) == IsIn(Shown(a), "CANCELLED")
\* It asks the storage only for a record that is not pending: then it may raise instead.
ReadMayFail(a) == pending[a] = NoRecord

AttemptRecord(a, state) ==
    [identity |-> a, state |-> state, note |-> Note, persisted |-> state = "COMPLETED"]

Outcomes == {"ok", "lost", "torn"}

\* _record_attempt
Record_attempt(a, state, outcome) ==
    LET r == AttemptRecord(a, state)
    IN  /\ durable' = IF outcome = "lost" THEN durable
                      ELSE [durable EXCEPT ![a] = AttemptWinner(@, r)]
        /\ pending' = [pending EXCEPT ![a] = IF outcome = "ok" THEN NoRecord ELSE r]

\* mutant: the lock is not released when a call returns out of its section
LockLeaks == \A c \in Callers :
    call[c].pc \notin {"validating", "admitFailed", "promoted", "finally"}
\* No thread waits inside a section of the application lock.
LockFree == \A c \in Callers : call[c].pc \notin {"validating", "admitFailed", "promoted"}

Step(c, pc) == call' = [call EXCEPT ![c].pc = pc]

-------------------------------------------------------------------------------
(* validate_draft *)

\* The engine compiles; a worker that is busy with a job answers "not valid".
ValidateDraft(c, content, valid) ==
    /\ call[c].pc = "idle" /\ c \notin LegacyCallers /\ LockFree
    /\ Cardinality(receipts) < MaxReceipts
    /\ Supervised => alive /\ (valid => job = "none")
    /\ call' = [call EXCEPT ![c] =
         [IdleCall("none", NoAttempt) EXCEPT
            !.pc = "validating",
            !.receipt = [content |-> content, context |-> context, valid |-> valid, session |-> 0]]]
    /\ UNCHANGED <<storeVars, receipts, slotVars, job, envVars>>

\* The session is read after the response; locally the context is compared again.
IssueReceipt(c) ==
    LET r == call[c].receipt
    IN  /\ call[c].pc = "validating"
        /\ receipts' =
             IF Supervised THEN receipts \cup {[r EXCEPT !.session = session]}
             ELSE IF r.context = context THEN receipts \cup {r}
             ELSE receipts              \* CONTEXT_CHANGED
        /\ call' = [call EXCEPT ![c] = IdleCall("none", NoAttempt)]
        /\ UNCHANGED <<storeVars, slotVars, job, envVars>>

-------------------------------------------------------------------------------
(* start_run: the receipt is matched, then _execute *)

\* The receipt is of this worker session, or of the present local context.
Current(r) == IF Supervised THEN alive /\ r.session = session ELSE r.context = context

MatchesInvalid(r, content) == Current(r) /\ r.content = content   \* mutant: verdict ignored
Matches(r, content) == Current(r) /\ r.content = content /\ r.valid

StartRun(c, content, r) ==
    /\ call[c].pc = "idle" /\ c \notin LegacyCallers /\ LockFree
    /\ r \in receipts /\ Matches(r, content)
    /\ call' = [call EXCEPT ![c] =
         [IdleCall("none", NoAttempt) EXCEPT !.pc = "checked", !.receipt = r,
            !.ran = [NoRun EXCEPT !.content = content]]]
    /\ UNCHANGED <<storeVars, receipts, slotVars, job, envVars>>

\* _legacy_run enters _execute without hash, context or session to compare.
LegacyRun(c, content) ==
    /\ call[c].pc = "idle" /\ c \in LegacyCallers
    /\ call' = [call EXCEPT ![c] =
         [IdleCall("none", NoAttempt) EXCEPT !.pc = "checked",
            !.ran = [NoRun EXCEPT !.content = content]]]
    /\ UNCHANGED <<storeVars, receipts, slotVars, job, envVars>>

\* The next fresh attempt id.
Used == {a \in Attempts : Shown(a) # NoRecord}
Fresh(a) == a - 1 \in Used \cup {0} /\ \A b \in Used : b < a

\* mutant: the slot is busy only while a job is registered
SlotFreeWithoutJob == active = NoAttempt \/ job = "none"
SlotFree == active = NoAttempt

\* _execute's first section: one slot, the session and the context once more, the
\* draft and its inputs saved, the ADMITTED record written.
Admit(c, a, outcome) ==
    LET r == call[c].receipt
    IN  /\ call[c].pc = "checked" /\ LockFree
        /\ SlotFree                         \* else RUN_BUSY
        /\ r # NoReceipt => Current(r)
        /\ Fresh(a)
        /\ Record_attempt(a, "ADMITTED", outcome)
        /\ active' = IF outcome = "ok" THEN a ELSE active
        /\ cancelEvent' = FALSE
        /\ call' = [call EXCEPT ![c].attempt = a,
                                ![c].pc = IF outcome = "ok" THEN "admitted" ELSE "admitFailed"]
        /\ UNCHANGED <<results, unpersisted, receipts, job, envVars>>

\* Any of those checks fails, or saving the draft or its inputs raises.
Reject(c) ==
    /\ call[c].pc = "checked" /\ LockFree
    /\ call' = [call EXCEPT ![c] = IdleCall("rejected", NoAttempt)]
    /\ UNCHANGED <<storeVars, receipts, slotVars, job, envVars>>

\* The admission record could not be written: a FAILED one, in memory if need be.
AdmissionFails(c, outcome) ==
    LET a == call[c].attempt
    IN  /\ call[c].pc = "admitFailed"
        /\ Record_attempt(a, "FAILED", outcome)
        /\ call' = [call EXCEPT ![c] = IdleCall("persistence_failed", a)]
        /\ UNCHANGED <<results, unpersisted, receipts, slotVars, job, envVars>>

\* mutant: an unrecorded start is executed all the same
ExecuteAnyway(outcome) == "dispatch"
\* The exception handler is entered without the lock.
AfterRunning(outcome) == IF outcome = "ok" THEN "dispatch" ELSE "handler"

BeginRunning(c, outcome) ==
    LET a == call[c].attempt
    IN  /\ call[c].pc = "admitted" /\ LockFree
        /\ \/ /\ Cancelled(a) \/ ReadMayFail(a)
              /\ Step(c, "handler") /\ UNCHANGED <<durable, pending>>
           \/ /\ ~ Cancelled(a)
              /\ Record_attempt(a, "RUNNING", outcome)
              /\ Step(c, AfterRunning(outcome))
        /\ UNCHANGED <<results, unpersisted, receipts, slotVars, job, envVars>>

-------------------------------------------------------------------------------
(* Execution, without the lock *)

\* The engine that computes, seen when the job reaches it.
Engine(c) == [content |-> call[c].ran.content, context |-> context, session |-> session]

\* execute_job registers the job, atomically with the cancellation predicate.
Dispatch(c) ==
    /\ Supervised /\ call[c].pc = "dispatch"
    /\ \/ ~ alive /\ Step(c, "handler") /\ UNCHANGED job
       \/ /\ alive /\ cancelEvent
          /\ call' = [call EXCEPT ![c].pc = "ended", ![c].terminal = "cancelled"]
          /\ UNCHANGED job
       \/ /\ alive /\ ~ cancelEvent
          /\ call' = [call EXCEPT ![c].pc = "executing", ![c].ran = Engine(c)]
          /\ job' = "running"
    /\ UNCHANGED <<storeVars, receipts, slotVars, envVars>>

\* engine.run takes its snapshot of the configuration and compares it.
RunLocally(c) ==
    LET r == call[c].receipt
    IN  /\ ~ Supervised /\ call[c].pc = "dispatch"
        /\ IF r # NoReceipt /\ r.context # context THEN Step(c, "handler")
           ELSE call' = [call EXCEPT ![c].pc = "executing", ![c].ran = Engine(c)]
        /\ UNCHANGED <<storeVars, receipts, slotVars, job, envVars>>

\* The worker compares the context before it computes, and reports a cancellation
\* only for a job it was told to cancel; a completion may still overtake that.
JobEnds(c, terminal) ==
    /\ call[c].pc = "executing"
    /\ terminal = "completed" /\ Supervised => call[c].ran.context = call[c].receipt.context
    /\ terminal = "cancelled" => job = "stopping"
    /\ terminal = "failed" => Supervised
    /\ job' = "none"
    /\ call' = [call EXCEPT ![c].pc = "ended", ![c].terminal = terminal]
    /\ UNCHANGED <<storeVars, receipts, slotVars, envVars>>

\* Worker lost, timed out or faulty; or the local engine raises.
JobRaises(c) ==
    /\ call[c].pc = "executing"
    /\ job' = "none"
    /\ Step(c, "handler")
    /\ UNCHANGED <<storeVars, receipts, slotVars, envVars>>

-------------------------------------------------------------------------------
(* The end of _execute *)

\* From here on a failure is one of persistence.
PublicationBegins(c, pc) == call' = [call EXCEPT ![c].pc = pc, ![c].publishing = TRUE]

\* mutant: a local result is kept once it was saved
PromoteThenKeep(c, saved) ==
    LET a == call[c].attempt
    IN  /\ results' = IF saved THEN results \cup {a} ELSE results
        /\ unpersisted' = IF saved /\ ~ Supervised THEN unpersisted \cup {a} ELSE unpersisted
        /\ PublicationBegins(c, IF saved THEN "promoted" ELSE "handler")
        /\ UNCHANGED <<durable, pending>>

\* The result is promoted (supervised) or saved (local), under the lock.
Promote(c, saved) ==
    LET a == call[c].attempt
    IN  /\ results' = IF saved THEN results \cup {a} ELSE results
        /\ unpersisted' = IF Supervised THEN unpersisted ELSE unpersisted \cup {a}
        /\ PublicationBegins(c, IF saved THEN "promoted" ELSE "handler")
        /\ UNCHANGED <<durable, pending>>

Publish(c, outcome, saved) ==
    LET a == call[c].attempt
    IN  /\ call[c].pc = "ended" /\ LockFree
        /\ \/ /\ ~ Cancelled(a) /\ call[c].terminal = "completed"
              /\ Promote(c, saved)
           \/ /\ ~ Cancelled(a) /\ call[c].terminal = "cancelled"
              /\ Record_attempt(a, "CANCELLED", outcome)
              /\ Step(c, "handler") /\ UNCHANGED <<results, unpersisted>>
           \/ /\ Cancelled(a) \/ ReadMayFail(a) \/ call[c].terminal = "failed"
              /\ Step(c, "handler") /\ UNCHANGED storeVars
        /\ UNCHANGED <<receipts, slotVars, job, envVars>>

\* Still under the lock; a record that is not written leaves the lock and raises.
Complete(c, outcome) ==
    LET a == call[c].attempt
    IN  /\ call[c].pc = "promoted"
        /\ Record_attempt(a, "COMPLETED", outcome)
        /\ IF outcome = "ok"
           THEN /\ unpersisted' = unpersisted \ {a}
                /\ call' = [call EXCEPT ![c].pc = "finally", ![c].response = "returned"]
           ELSE UNCHANGED unpersisted /\ Step(c, "handler")
        /\ UNCHANGED <<results, receipts, slotVars, job, envVars>>

\* except Exception: cancelled runs stay cancelled, all others are recorded FAILED; when it
\* cannot be read whether the run was cancelled, nothing is recorded.
Handle(c, outcome) ==
    LET a == call[c].attempt
        reply(response) == call' = [call EXCEPT ![c].pc = "finally", ![c].response = response]
    IN  /\ call[c].pc = "handler" /\ LockFree
        /\ \/ Cancelled(a) /\ reply("cancelled") /\ UNCHANGED <<durable, pending>>
           \/ ReadMayFail(a) /\ reply("unreadable") /\ UNCHANGED <<durable, pending>>
           \/ /\ ~ Cancelled(a)
              /\ Record_attempt(a, "FAILED", outcome)
              /\ reply(IF call[c].publishing \/ outcome # "ok"
                       THEN "persistence_failed" ELSE "failed")
        /\ UNCHANGED <<results, unpersisted, receipts, slotVars, job, envVars>>

\* finally: the slot is freed.
Finally(c) ==
    /\ call[c].pc = "finally" /\ LockFree
    /\ active' = NoAttempt /\ cancelEvent' = FALSE
    /\ call' = [call EXCEPT ![c].pc = "idle", ![c].receipt = NoReceipt, ![c].ran = NoRun,
                            ![c].terminal = "none"]
    /\ UNCHANGED <<storeVars, receipts, job, envVars>>

-------------------------------------------------------------------------------
(* cancel_run *)

OpenAttempts == {a \in Attempts : Open(durable[a])}

\* The placeholder means the active run, or else the newest that is durably open.
Targets(id) ==
    IF id # InFlight THEN {id}
    ELSE IF active # NoAttempt THEN {active}
    ELSE {a \in OpenAttempts : \A b \in OpenAttempts : b <= a}

CancelRun(id, outcome) == \E a \in Targets(id) :
    /\ LockFree
    /\ cancelEvent' = (cancelEvent \/ a = active)
    /\ job' = IF alive /\ job = "running" /\ a = active THEN "stopping" ELSE job
    /\ IF Open(durable[a]) THEN Record_attempt(a, "CANCELLED", outcome)
       ELSE UNCHANGED <<durable, pending>>
    /\ UNCHANGED <<results, unpersisted, receipts, active, envVars, call>>

-------------------------------------------------------------------------------
(* The environment *)

\* The in-process engine is reconfigured.
ContextChanges(x) ==
    /\ ~ Supervised /\ x # context
    /\ context' = x
    /\ UNCHANGED <<storeVars, receipts, slotVars, job, session, alive, call>>

\* The worker exits, crashes, is killed, or WorkerSupervisor.stop is called.
WorkerDies ==
    /\ Supervised /\ alive
    /\ alive' = FALSE
    /\ UNCHANGED <<storeVars, receipts, slotVars, job, session, context, call>>

\* WorkerSupervisor.start: a replacement, perhaps of another version of the sources.
RestartWorker(x) ==
    /\ Supervised /\ ~ alive /\ session < MaxSessions
    /\ alive' = TRUE /\ session' = session + 1 /\ context' = x
    /\ UNCHANGED <<storeVars, receipts, slotVars, job, call>>

\* The application dies and is started again: its memory is gone, startup closes the
\* open attempts in order, all of them or those before an error it suppresses.
Restart(k, x) ==
    /\ durable' = [a \in Attempts |->
         IF Open(durable[a]) /\ a <= k
         THEN [durable[a] EXCEPT !.state = "INTERRUPTED"] ELSE durable[a]]
    /\ pending' = [a \in Attempts |-> NoRecord]
    /\ unpersisted' = {} /\ receipts' = {}
    /\ active' = NoAttempt /\ cancelEvent' = FALSE /\ job' = "none"
    /\ session' = 1 /\ alive' = TRUE /\ context' = x
    /\ call' = [c \in Callers |-> IdleCall("none", NoAttempt)]
    /\ UNCHANGED results

-------------------------------------------------------------------------------
Init ==
    /\ durable = [a \in Attempts |-> NoRecord]
    /\ pending = [a \in Attempts |-> NoRecord]
    /\ results = {} /\ unpersisted = {} /\ receipts = {}
    /\ active = NoAttempt /\ cancelEvent = FALSE /\ job = "none"
    /\ session = 1 /\ alive = TRUE /\ context \in Contexts
    /\ call = [c \in Callers |-> IdleCall("none", NoAttempt)]

\* What the thread of a run does by itself, once the run is admitted.
RunStep(c) ==
    \/ \E o \in Outcomes : AdmissionFails(c, o) \/ BeginRunning(c, o) \/ Complete(c, o)
                           \/ Handle(c, o)
    \/ \E o \in Outcomes, saved \in BOOLEAN : Publish(c, o, saved)
    \/ Dispatch(c) \/ RunLocally(c)
    \/ \E t \in {"completed", "failed", "cancelled"} : JobEnds(c, t)
    \/ JobRaises(c)
    \/ Finally(c)

CallStep(c) ==
    \/ \E d \in Contents, v \in BOOLEAN : ValidateDraft(c, d, v)
    \/ IssueReceipt(c)
    \/ \E d \in Contents, r \in receipts : StartRun(c, d, r)
    \/ \E d \in Contents : LegacyRun(c, d)
    \/ \E a \in Attempts, o \in Outcomes : Admit(c, a, o)
    \/ Reject(c)
    \/ RunStep(c)

Environment ==
    \/ \E x \in Contexts : ContextChanges(x) \/ RestartWorker(x)
    \/ WorkerDies
    \/ \E k \in 0 .. MaxAttempts, x \in Contexts : Restart(k, x)

Next ==
    \/ \E c \in Callers : CallStep(c)
    \/ \E id \in Attempts \cup {InFlight}, o \in Outcomes : CancelRun(id, o)
    \/ Environment

Spec == Init /\ [][Next]_vars

\* A thread that may proceed does, an engine or the supervisor's deadline ends a job.
Fairness == \A c \in Callers : WF_vars(RunStep(c)) /\ WF_vars(IssueReceipt(c))

FairSpec == Spec /\ Fairness
-------------------------------------------------------------------------------
(* Properties *)

Call == [pc : {"idle", "validating", "checked", "admitFailed", "admitted", "dispatch",
               "executing", "ended", "promoted", "handler", "finally"},
         receipt : Receipt \cup {NoReceipt},
         attempt : Attempts \cup {NoAttempt},
         ran : [content : Contents \cup {"none"}, context : Contexts \cup {"none"},
                session : 0 .. MaxSessions],
         terminal : {"none", "completed", "failed", "cancelled"},
         publishing : BOOLEAN,
         response : {"none", "rejected", "returned", "cancelled", "failed",
                     "persistence_failed", "unreadable"}]

TypeOK ==
    /\ durable \in [Attempts -> MaybeRecord]
    /\ pending \in [Attempts -> MaybeRecord]
    /\ results \subseteq Attempts
    /\ unpersisted \subseteq Attempts
    /\ receipts \subseteq Receipt
    /\ active \in Attempts \cup {NoAttempt}
    /\ cancelEvent \in BOOLEAN
    /\ job \in {"none", "running", "stopping"}
    /\ session \in 0 .. MaxSessions
    /\ alive \in BOOLEAN
    /\ context \in Contexts
    /\ call \in [Callers -> Call]

\* _execute admits one run at a time: of two callers that passed the receipt check, the
\* slot names the one whose run is under way, and stays with it until its finally.
SlotHeldToTheEnd ==
    \A c \in Callers :
        call[c].pc \in {"admitted", "dispatch", "executing", "ended", "promoted",
                        "handler", "finally"} => active = call[c].attempt

\* A thread that waits to take the lock again computes or publishes nothing without a durable
\* trace of the run, so that recovery finds every run that may have had an effect; and a run
\* whose view start_run returned is durably COMPLETED and listed, whatever was cancelled, lost
\* or restarted around it (lines 324-375).
EffectsAreDurable ==
    \A c \in Callers :
        /\ call[c].pc \in {"executing", "ended", "promoted"} =>
               durable[call[c].attempt] # NoRecord /\ durable[call[c].attempt].state # "ADMITTED"
        /\ call[c].response = "returned" =>
               call[c].attempt \in results /\ IsIn(durable[call[c].attempt], "COMPLETED")

\* No attempt is left shown as ADMITTED or RUNNING once its call is over: a terminal
\* record stands in memory when storage refuses it (_pending_attempts).  Not so when the
\* handler could not read the attempt (line 378): its caller got the exception of the storage,
\* and cancel_run or the next startup closes what is durably open.  Attempts of an earlier
\* application process that startup could not close are not meant.
OnlyActiveOpen ==
    \A c \in Callers :
        /\ call[c].pc = "idle" /\ call[c].attempt # NoAttempt
        /\ call[c].response # "unreadable"
        => Closed(Shown(call[c].attempt))

\* A local result whose publication was begun is in memory when its call ends without having
\* returned it, however it ends: refused by storage, cancelled in between, its outcome
\* unreadable.  A result is published only after a look at its attempt (line 326); one whose
\* look raises is dropped, since _unpersisted_runs is set later (line 354).
UnsavedIsKept ==
    \A c \in Callers :
        /\ ~ Supervised /\ call[c].publishing
        /\ call[c].response \notin {"none", "returned"}
        => call[c].attempt \in unpersisted

\* Cancellation that wins prevents publication: no run is listed from the moment its
\* attempt is shown CANCELLED, and it stays so for as long as the application runs.
CancelWins ==
    [][\A a \in Attempts : IsIn(Shown(a), "CANCELLED") =>
         /\ a \in results' => a \in results
         /\ IsIn(Shown(a), "CANCELLED")' \/ \E k \in 0 .. MaxAttempts, x \in Contexts : Restart(k, x)]_vars

\* What is published was computed from validated content in the validated context:
\* a receipt of this application process says so (start_run, _execute, run).
PublishedAsValidated ==
    [][\A c \in Callers \ LegacyCallers :
         call[c].attempt \in results' \ results =>
           \E r \in receipts : /\ r.valid
                               /\ r.content = call[c].ran.content
                               /\ r.context = call[c].ran.context]_vars

\* The slot is always freed again: no run blocks all later ones with RUN_BUSY.
SlotIsFreed == (active # NoAttempt) ~> (active = NoAttempt)

\* docs/CONTRACTS.md:435 "A replacement worker requires fresh validation": the worker
\* that computes is the one whose session the receipt carries.
ComputedByValidatingWorker ==
    \A c \in Callers : call[c].pc = "executing" =>
        call[c].ran.session = call[c].receipt.session

\* docs/CONTRACTS.md:429 "`RunAttemptRecord` retains its first terminal disposition":
\* what list_attempts shows of a closed attempt stays, as long as the application runs.
ShownDispositionStays ==
    [][\A a \in Attempts :
         Closed(Shown(a)) /\ ~ (\E k \in 0 .. MaxAttempts, x \in Contexts : Restart(k, x))
           => Shown(a)'.state = Shown(a).state]_vars

\* docs/CONTRACTS.md:440 "Cancellation that wins prevents both result publication and
\* last-valid advancement": no run of a CANCELLED attempt is listed.
CancelledNeverListed == \A a \in results : ~ Cancelled(a)
===============================================================================
