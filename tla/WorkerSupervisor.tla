---------------------------- MODULE WorkerSupervisor --------------------------
(***************************************************************************)
(* src/bh_sim/adapters/worker_supervisor.py composed with the worker       *)
(* processes it spawns: start and stop, validation, jobs, cancellation and *)
(* its grace timers, and one reader thread per worker.                     *)
(*                                                                         *)
(* A section under the supervisor's lock is one step; only stop keeps the  *)
(* lock across a wait.  start and stop are called from one thread (the     *)
(* launcher, or a test) while other threads are inside validate,           *)
(* execute_job and cancel; services lets one thread into execute_job at a  *)
(* time.  A reader is bound to its worker's pipe when it is started.       *)
(***************************************************************************)
EXTENDS WorkerProcess, FiniteSets

CONSTANTS
    SlowStart,      \* a worker may take longer than the handshake timeout
    BrokenWrites    \* a worker may die between the liveness check and the write

ASSUME SupervisorAssumption == SlowStart \in BOOLEAN /\ BrokenWrites \in BOOLEAN

VARIABLES
    process,        \* _process, by generation
    sessionId,      \* _session_id, by the generation that chose it
    stopping,       \* _stopping, one flag for all generations
    lock,           \* "free", or "stop" while stop waits for the worker to exit
    manager,        \* the thread inside start or stop
    handshake,      \* _pending_responses["__handshake__"], and the hello in its queue
    reader,         \* per generation: where its reader thread is
    lastSeq,        \* _last_sequence
    activeJobs,     \* _active_jobs
    queue,          \* per job: the event queue execute_job waits on
    timers,         \* per job: _cancel_timers, with the process and session captured
    fired,          \* per job: a timer past its wait, which can no longer be cancelled
    caller,         \* per job: the thread inside execute_job, and what it returned
    cancel,         \* per job: cancel_run set its event, then called cancel
    request,        \* per validation: the thread inside validate_draft
    sentTo          \* history: per job, the worker its frame was written to

connection == <<process, sessionId, stopping, lock, manager, handshake>>
control == <<timers, fired, cancel>>
vars == <<workerVars, connection, reader, lastSeq, activeJobs, queue, control,
          caller, request, sentTo>>

NoTimer == [process |-> None, session |-> None, due |-> FALSE]
Running(g) == g # None /\ Alive(g)              \* is_alive
Write(g, frame) == stdin' = [stdin EXCEPT ![g] = Append(@, frame)]
Waiting(j) == caller[j].pc \in {"admitting", "draining", "polling"}

-------------------------------------------------------------------------------
(* start and stop *)

Spawned == {g \in Generations : worker[g].state # "none"}

Start(g) ==
    /\ manager = "idle" /\ lock = "free" /\ ~ Running(process)
    /\ g \notin Spawned /\ \A h \in Generations : h < g => h \in Spawned
    /\ process' = g /\ sessionId' = None /\ stopping' = FALSE
    /\ MainThread(g, "starting")
    /\ handshake' = [registered |-> TRUE, hello |-> None]
    /\ reader' = [reader EXCEPT ![g] = "top"]
    /\ lastSeq' = [j \in Jobs |-> 0]
    /\ manager' = "greeting"
    /\ UNCHANGED <<lock, pipes, exec, activeJobs, queue, control, caller, request, sentTo>>

NoHandshake == [registered |-> FALSE, hello |-> None]

\* The hello decides the session.  The confirmation cannot be written to a dead worker;
\* start then raises, with the session set.
Handshake ==
    /\ manager = "greeting" /\ handshake.hello # None /\ lock = "free"
    /\ sessionId' = handshake.hello
    /\ \/ Running(process) /\ Write(process, Frame("ready", None, 0))
       \/ ~ Running(process) /\ UNCHANGED stdin
    /\ handshake' = NoHandshake /\ manager' = "idle"
    /\ UNCHANGED <<worker, stdinOpen, stdout, exec, process, stopping, lock, reader, lastSeq,
                   activeJobs, queue, control, caller, request, sentTo>>

\* No hello within the timeout: start calls stop.  A worker that is dead says none.
HandshakeTimeout ==
    /\ manager = "greeting" /\ handshake.hello = None
    /\ SlowStart \/ (~ Running(process) /\ stdout[process] = << >>)
    /\ manager' = "aborting"
    /\ UNCHANGED <<workerVars, process, sessionId, stopping, lock, handshake, reader, lastSeq,
                   activeJobs, queue, control, caller, request, sentTo>>

\* stop asks the worker to leave, closes its input, and waits under the lock.  A stop
\* without a process finds nothing to change.
StopBegin ==
    /\ manager \in {"idle", "aborting"} /\ lock = "free" /\ process # None
    /\ stopping' = TRUE
    /\ timers' = [j \in Jobs |-> NoTimer]
    /\ IF Running(process) /\ stdinOpen[process]
       THEN Write(process, Frame("shutdown", None, 0)) ELSE UNCHANGED stdin
    /\ stdinOpen' = [stdinOpen EXCEPT ![process] = FALSE]
    /\ lock' = "stop"
    /\ UNCHANGED <<worker, stdout, exec, process, sessionId, manager, handshake, reader, lastSeq,
                   activeJobs, queue, fired, cancel, caller, request, sentTo>>

\* The worker left in time, or is killed.
StopEnd ==
    /\ lock = "stop"
    /\ Kill(process)
    /\ process' = None /\ sessionId' = None /\ lock' = "free"
    /\ manager' = "idle" /\ handshake' = NoHandshake
    /\ UNCHANGED <<pipes, exec, stopping, reader, lastSeq, activeJobs, queue, control,
                   caller, request, sentTo>>

-------------------------------------------------------------------------------
(* The reader thread of generation g *)

\* while not self._stopping; the thread may be late to look.
ReaderLooks(g) ==
    /\ reader[g] = "top"
    /\ reader' = [reader EXCEPT ![g] = IF stopping THEN "over" ELSE "reading"]
    /\ UNCHANGED <<workerVars, connection, lastSeq, activeJobs, queue, control,
                   caller, request, sentTo>>

ReaderEnds(g) ==
    /\ reader[g] = "reading" /\ stdout[g] = << >> /\ ~ Alive(g)
    /\ reader' = [reader EXCEPT ![g] = "over"]
    /\ UNCHANGED <<workerVars, connection, lastSeq, activeJobs, queue, control,
                   caller, request, sentTo>>

\* Every frame but a validation response names its session.
Quarantined(m, g) == m.kind # "response" /\ sessionId \notin {None, g}
Repeated(m) == m.kind \in Sequenced /\ m.seq <= lastSeq[m.id]

\* The handshake queue holds one hello: a second one blocks the reader.
Deliver(m, g) ==
    /\ IF m.kind = "hello" /\ handshake.registered
       THEN handshake.hello = None /\ handshake' = [handshake EXCEPT !.hello = g]
       ELSE UNCHANGED handshake
    /\ request' = IF m.kind = "response" /\ request[m.id].pc = "waiting"
                  THEN [request EXCEPT ![m.id] = [pc |-> "answered", by |-> g, session |-> None]]
                  ELSE request
    /\ queue' = IF m.kind \in Events /\ m.id \in activeJobs
                THEN [queue EXCEPT ![m.id] = Append(@, m)] ELSE queue

ReadFrame(g) ==
    /\ reader[g] = "reading" /\ stdout[g] # << >>
    /\ LET m == Head(stdout[g])
       IN  IF Quarantined(m, g) \/ Repeated(m)
           THEN UNCHANGED <<handshake, request, queue, lastSeq>>
           ELSE /\ lastSeq' = IF m.kind \in Sequenced
                              THEN [lastSeq EXCEPT ![m.id] = m.seq] ELSE lastSeq
                /\ Deliver(m, g)
    /\ stdout' = [stdout EXCEPT ![g] = Tail(@)]
    /\ reader' = [reader EXCEPT ![g] = "top"]
    /\ UNCHANGED <<worker, stdin, stdinOpen, exec, process, sessionId, stopping, lock, manager,
                   activeJobs, control, caller, sentTo>>

-------------------------------------------------------------------------------
(* validate, and the receipt services.validate_draft makes of the response *)

Validate(v) ==
    /\ request[v].pc = "idle" /\ lock = "free"
    /\ \A w \in Validations : request[w].pc \notin {"waiting", "answered"}
    /\ Running(process)
    /\ Write(process, Frame("validate", v, 0))
    /\ request' = [request EXCEPT ![v].pc = "waiting"]
    /\ UNCHANGED <<worker, stdinOpen, stdout, exec, connection, reader, lastSeq, activeJobs,
                   queue, control, caller, sentTo>>

ValidationTimeout(v) ==
    /\ request[v].pc = "waiting"
    /\ request' = [request EXCEPT ![v].pc = "timeout"]
    /\ UNCHANGED <<workerVars, connection, reader, lastSeq, activeJobs, queue, control,
                   caller, sentTo>>

\* The session is read without the supervisor's lock, after validate has returned.
IssueReceipt(v) ==
    /\ request[v].pc = "answered"
    /\ request' = [request EXCEPT ![v].pc = "issued", ![v].session = sessionId]
    /\ UNCHANGED <<workerVars, connection, reader, lastSeq, activeJobs, queue, control,
                   caller, sentTo>>

-------------------------------------------------------------------------------
(* execute_job *)

Returns(j, outcome) == caller' = [caller EXCEPT ![j] = [pc |-> "over", outcome |-> outcome]]
CallerTo(j, pc) == caller' = [caller EXCEPT ![j].pc = pc]

\* The finally of execute_job; its lock may be held by stop.
Finally(j) ==
    /\ lock = "free"
    /\ activeJobs' = activeJobs \ {j}
    /\ timers' = [timers EXCEPT ![j] = NoTimer]

\* mutant: the predicate is not looked at
NeverRequested(j) == FALSE
CancellationRequested(j) == cancel[j] # "none"

\* Liveness, the predicate, the registration and the write are one section.  A write
\* that fails raises before the try: nothing removes the registration.
Dispatch(j, broken) ==
    /\ caller[j].pc = "idle" /\ lock = "free"
    /\ \A k \in Jobs : ~ Waiting(k)
    /\ \/ /\ ~ Running(process) /\ ~ broken
          /\ Returns(j, "lost") /\ UNCHANGED <<worker, stdin, activeJobs, sentTo>>
       \/ /\ Running(process) /\ ~ broken /\ CancellationRequested(j)
          /\ Returns(j, "cancelled") /\ UNCHANGED <<worker, stdin, activeJobs, sentTo>>
       \/ /\ Running(process) /\ ~ CancellationRequested(j)
          /\ activeJobs' = activeJobs \cup {j}
          /\ \/ /\ ~ broken
                /\ Write(process, Frame("job", j, 0))
                /\ sentTo' = [sentTo EXCEPT ![j] = process]
                /\ CallerTo(j, "admitting") /\ UNCHANGED worker
             \/ /\ broken /\ Kill(process)
                /\ Returns(j, "unsent") /\ UNCHANGED <<stdin, sentTo>>
    /\ UNCHANGED <<stdinOpen, stdout, exec, connection, reader, lastSeq, queue, control, request>>

\* The first event must be RunAccepted, within five seconds.
TakeFirst(j) ==
    /\ caller[j].pc = "admitting" /\ queue[j] # << >>
    /\ queue' = [queue EXCEPT ![j] = Tail(@)]
    /\ IF Head(queue[j]).kind = "accepted"
       THEN CallerTo(j, "draining") /\ UNCHANGED <<activeJobs, timers>>
       ELSE Returns(j, "fault") /\ Finally(j)
    /\ UNCHANGED <<workerVars, connection, reader, lastSeq, fired, cancel, request, sentTo>>

AdmissionTimeout(j) ==
    /\ caller[j].pc = "admitting" /\ queue[j] = << >>
    /\ Returns(j, "timeout") /\ Finally(j)
    /\ UNCHANGED <<workerVars, connection, reader, lastSeq, queue, fired, cancel, request, sentTo>>

\* Progress and a second RunAccepted are passed over; a terminal event or a fault ends it.
TakeEvent(j) ==
    /\ caller[j].pc = "draining" /\ queue[j] # << >>
    /\ queue' = [queue EXCEPT ![j] = Tail(@)]
    /\ LET kind == Head(queue[j]).kind
       IN  IF kind \in {"progress", "accepted"} THEN UNCHANGED <<caller, activeJobs, timers>>
           ELSE Returns(j, kind) /\ Finally(j)
    /\ UNCHANGED <<workerVars, connection, reader, lastSeq, fired, cancel, request, sentTo>>

\* A second without an event: the worker is looked at, whichever is there now.
PollBegins(j) ==
    /\ caller[j].pc = "draining" /\ queue[j] = << >>
    /\ CallerTo(j, "polling")
    /\ UNCHANGED <<workerVars, connection, reader, lastSeq, activeJobs, queue, control,
                   request, sentTo>>

PollEnds(j) ==
    /\ caller[j].pc = "polling" /\ lock = "free"
    /\ IF Running(process) THEN CallerTo(j, "draining") /\ UNCHANGED <<activeJobs, timers>>
       ELSE Returns(j, "lost") /\ Finally(j)
    /\ UNCHANGED <<workerVars, connection, reader, lastSeq, queue, fired, cancel, request, sentTo>>

\* The job's deadline: the process that is there now is killed.
Deadline(j) ==
    /\ caller[j].pc = "draining"
    /\ IF Running(process) THEN Kill(process) ELSE UNCHANGED worker
    /\ Returns(j, "timeout") /\ Finally(j)
    /\ UNCHANGED <<pipes, exec, connection, reader, lastSeq, queue, fired, cancel, request, sentTo>>

-------------------------------------------------------------------------------
(* Cancellation: cancel_run sets the event of the run, then calls cancel *)

RequestCancel(j) ==
    /\ cancel[j] = "none"
    /\ cancel' = [cancel EXCEPT ![j] = "requested"]
    /\ UNCHANGED <<workerVars, connection, reader, lastSeq, activeJobs, queue, timers, fired,
                   caller, request, sentTo>>

\* mutant: the timer does not know the worker
CapturedNothing == [process |-> None, session |-> sessionId, due |-> TRUE]
Captured == [process |-> process, session |-> sessionId, due |-> TRUE]

Cancel(j) ==
    /\ cancel[j] = "requested" /\ lock = "free"
    /\ cancel' = [cancel EXCEPT ![j] = "done"]
    /\ IF Running(process) /\ j \in activeJobs
       THEN /\ Write(process, Frame("cancel", j, 0))
            /\ timers' = IF timers[j] = NoTimer THEN [timers EXCEPT ![j] = Captured] ELSE timers
       ELSE UNCHANGED <<stdin, timers>>
    /\ UNCHANGED <<worker, stdinOpen, stdout, exec, connection, reader, lastSeq, activeJobs,
                   queue, fired, caller, request, sentTo>>

\* The grace is over; the timer stays registered and waits for the lock.
TimerFires(j) ==
    /\ timers[j].due
    /\ fired' = [fired EXCEPT ![j] = timers[j]]
    /\ timers' = [timers EXCEPT ![j].due = FALSE]
    /\ UNCHANGED <<workerVars, connection, reader, lastSeq, activeJobs, queue, cancel,
                   caller, request, sentTo>>

StillRunning(j) ==
    /\ fired[j].process = process /\ fired[j].session = sessionId
    /\ j \in activeJobs /\ Running(process)

\* _force_kill_if_still_running
ForceKill(j) ==
    /\ fired[j].due /\ lock = "free"
    /\ IF StillRunning(j) THEN Kill(process) ELSE UNCHANGED worker
    /\ fired' = [fired EXCEPT ![j] = NoTimer]
    /\ UNCHANGED <<pipes, exec, connection, reader, lastSeq, activeJobs, queue, timers, cancel,
                   caller, request, sentTo>>

-------------------------------------------------------------------------------
Init ==
    /\ WorkerInit
    /\ process = None /\ sessionId = None /\ stopping = FALSE /\ lock = "free"
    /\ manager = "idle" /\ handshake = NoHandshake
    /\ reader = [g \in Generations |-> "none"]
    /\ lastSeq = [j \in Jobs |-> 0]
    /\ activeJobs = {}
    /\ queue = [j \in Jobs |-> << >>]
    /\ timers = [j \in Jobs |-> NoTimer] /\ fired = [j \in Jobs |-> NoTimer]
    /\ caller = [j \in Jobs |-> [pc |-> "idle", outcome |-> "none"]]
    /\ cancel = [j \in Jobs |-> "none"]
    /\ request = [v \in Validations |-> [pc |-> "idle", by |-> None, session |-> None]]
    /\ sentTo = [j \in Jobs |-> None]

\* The worker's own steps leave the supervisor's state alone.
WorkerStep ==
    /\ \/ \E g \in Generations : MainStep(g) \/ Crash(g)
       \/ \E j \in Jobs : ReportStep(j) \/ Compute(j)
    /\ UNCHANGED <<connection, reader, lastSeq, activeJobs, queue, control, caller,
                   request, sentTo>>

ManagerStep ==
    \/ \E g \in Generations : Start(g)
    \/ Handshake \/ HandshakeTimeout \/ StopBegin \/ StopEnd

ReaderStep(g) == ReaderLooks(g) \/ ReaderEnds(g) \/ ReadFrame(g)

CallerStep(j) ==
    \/ TakeFirst(j) \/ AdmissionTimeout(j) \/ TakeEvent(j) \/ PollBegins(j) \/ PollEnds(j)

TimerStep(j) == TimerFires(j) \/ ForceKill(j)

Next ==
    \/ WorkerStep
    \/ ManagerStep
    \/ \E g \in Generations : ReaderStep(g)
    \/ \E v \in Validations : Validate(v) \/ ValidationTimeout(v) \/ IssueReceipt(v)
    \/ \E j \in Jobs, broken \in BOOLEAN : (broken => BrokenWrites) /\ Dispatch(j, broken)
    \/ \E j \in Jobs : CallerStep(j) \/ Deadline(j)
    \/ \E j \in Jobs : RequestCancel(j) \/ Cancel(j) \/ TimerStep(j)

Spec == Init /\ [][Next]_vars

\* The threads inside execute_job and the timers' run; stop's wait is bounded.  No fairness of
\* a worker, whose computation may hang, of the readers, nor of the job's deadline.
Fairness ==
    /\ \A j \in Jobs : WF_vars(CallerStep(j)) /\ WF_vars(TimerStep(j))
    /\ WF_vars(StopEnd)

FairSpec == Spec /\ Fairness
-------------------------------------------------------------------------------
(* Properties *)

Timer == [process : Generations \cup {None}, session : Generations \cup {None}, due : BOOLEAN]

TypeOK ==
    /\ WorkerTypeOK
    /\ process \in Generations \cup {None}
    /\ sessionId \in Generations \cup {None}
    /\ stopping \in BOOLEAN
    /\ lock \in {"free", "stop"}
    /\ manager \in {"idle", "greeting", "aborting"}
    /\ handshake \in [registered : BOOLEAN, hello : Generations \cup {None}]
    /\ reader \in [Generations -> {"none", "top", "reading", "over"}]
    /\ lastSeq \in [Jobs -> 0 .. 2]
    /\ activeJobs \subseteq Jobs
    /\ queue \in [Jobs -> Seq(Frames)]
    /\ timers \in [Jobs -> Timer]
    /\ fired \in [Jobs -> Timer]
    /\ caller \in [Jobs ->
         [pc : {"idle", "admitting", "draining", "polling", "over"},
          outcome : {"none", "completed", "failed", "cancelled", "fault", "lost",
                     "timeout", "unsent"}]]
    /\ cancel \in [Jobs -> {"none", "requested", "done"}]
    /\ request \in [Validations ->
         [pc : {"idle", "waiting", "answered", "issued", "timeout"},
          by : Generations \cup {None}, session : Generations \cup {None}]]
    /\ sentTo \in [Jobs -> Generations \cup {None}]

\* The session the frames are checked against is the one of the worker that is there.
\* A worker that is slower than the handshake timeout breaks it: see StartedWorkerAnswers.
SessionIsProcess == sessionId # None => sessionId = process

UnderWay(j) == exec[j].phase \in {"started", "accepted", "computing"}

\* A worker evaluates one job at a time, also when the application has given up on a job
\* it still computes (admission timeout) and sends the next one (entry.py, "busy").
OneJobPerWorker ==
    \A i, j \in Jobs : UnderWay(i) /\ UnderWay(j) /\ exec[i].worker = exec[j].worker => i = j

\* A terminal event is neither dropped by the sequence check nor quarantined, and the
\* reader that has to deliver it is there: the caller that waits for it will have it,
\* unless stop has been called, which ends the reader.
TerminalIn(frames, j) ==
    \E i \in DOMAIN frames : frames[i].id = j /\ frames[i].kind \in Sequenced \ {"progress"}
NoTerminalLost ==
    \A j \in Jobs :
        Waiting(j) /\ exec[j].phase = "over" /\ exec[j].worker = process /\ lock = "free" =>
            \/ TerminalIn(queue[j], j)
            \/ TerminalIn(stdout[process], j) /\ reader[process] # "over"

\* Once cancel has returned, a job on the worker that serves is bounded by a grace timer:
\* no interleaving of dispatch and cancellation leaves a cancelled job to its own devices
\* (execute_job looks at the predicate in the section that registers the job).
CancelIsBounded ==
    \A j \in Jobs :
        /\ cancel[j] = "done" /\ Waiting(j) /\ lock = "free"
        /\ sentTo[j] = process /\ process # None /\ worker[process].state = "serving"
        => timers[j].due \/ fired[j].due

\* docs/FAILURE_RECOVERY.md:117 "Timers belong to the job/process/session and are removed
\* at completion": a grace timer that kills finds its caller still waiting for the job.
TimerRemovedAtCompletion ==
    [][\A j \in Jobs : ForceKill(j) /\ worker' # worker => Waiting(j)]_vars

\* The same sentence: the worker a grace timer kills is the one that was given the job.
TimerBelongsToProcess ==
    [][\A j \in Jobs : ForceKill(j) /\ worker' # worker => sentTo[j] = process]_vars

\* docs/FAILURE_RECOVERY.md:112 "Restart/reopen negotiates a new worker": the hello that
\* start accepts is the one of the worker it spawned.
StartedWorkerAnswers == [][Handshake => sessionId' = process]_vars

\* docs/native/DW4_CHANGE_RECORD.md:166 "`ValidationReceiptDto` records `worker_session_id`":
\* the session a receipt records is the one of the worker that validated.
ReceiptOfValidatingWorker ==
    \A v \in Validations : request[v].pc = "issued" => request[v].session \in {None, request[v].by}

\* A job that was cancelled ends although its computation hangs and long before its
\* deadline: the grace timer, its kill and the poll for a lost worker see to it; unless another
\* worker has taken the place of the one it was sent to.  Then the poll finds a worker alive, the
\* timer kills nothing, and the caller waits for the job's deadline, whose fairness is not assumed.
CancelledJobEnds ==
    \A j \in Jobs :
        (cancel[j] = "done" /\ Waiting(j)) ~>
            (~ Waiting(j) \/ process \notin {sentTo[j], None})
===============================================================================
