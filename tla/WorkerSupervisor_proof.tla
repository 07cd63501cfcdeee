------------------------ MODULE WorkerSupervisor_proof ------------------------
(***************************************************************************)
(* Proofs about WorkerSupervisor, for any number of worker generations,    *)
(* jobs and validations: a worker evaluates one job at a time, a cancelled *)
(* job is bounded by a grace timer, and no terminal event is lost while    *)
(* the worker that sent it is the one that serves.                         *)
(***************************************************************************)
EXTENDS WorkerSupervisor, TLAPS

-------------------------------------------------------------------------------
(* The invariant *)

Unspawned(g) == worker[g].state = "none"
JobAt(g, i) == i \in DOMAIN stdin[g] /\ stdin[g][i].kind = "job"

\* A thread is at its first number until it has sent the progress event.
FirstNumber == \A j \in Jobs : exec[j].phase \in {"none", "started", "accepted"} => exec[j].seq = 1

\* Only events are put into the queue of a job.
Queues == \A j \in Jobs : \A i \in DOMAIN queue[j] : queue[j][i].kind \in Events

\* Nobody reads or writes the pipes of a worker that is not there yet.
Untouched == \A g \in Generations : Unspawned(g) => stdin[g] = << >> /\ stdout[g] = << >>

\* A job is written once, and started once, by the worker it was written to.
JobFrames ==
    /\ \A g \in Generations : \A i \in DOMAIN stdin[g] : JobAt(g, i) =>
          /\ stdin[g][i].id \in Jobs
          /\ exec[stdin[g][i].id].phase = "none"
          /\ caller[stdin[g][i].id].pc # "idle"
    /\ \A g, h \in Generations : \A i \in DOMAIN stdin[g], k \in DOMAIN stdin[h] :
          JobAt(g, i) /\ JobAt(h, k) /\ stdin[g][i].id = stdin[h][k].id => g = h /\ i = k

Threads ==
    \A j \in Jobs :
        /\ exec[j].worker = None <=> exec[j].phase = "none"
        /\ exec[j].worker # None => worker[exec[j].worker].state \in {"serving", "joining", "dead"}
        /\ caller[j].pc = "idle" => exec[j].phase = "none"
        /\ UnderWay(j) => worker[exec[j].worker].run = j

\* What the application knows of its worker.
Process ==
    /\ process # None => ~ Unspawned(process)
    /\ manager # "idle" => process # None
    /\ lock = "stop" => process # None /\ manager # "greeting"
    /\ stopping => lock = "stop" \/ process = None
    /\ \A j \in Jobs : sentTo[j] # None => ~ Unspawned(sentTo[j])
    /\ \A j \in Jobs : Waiting(j) => j \in activeJobs
    /\ \A g \in Generations : reader[g] = "none" <=> Unspawned(g)

\* A worker that reads something else than its confirmation first will not serve.
Doomed(g) ==
    \/ worker[g].state \in {"joining", "dead"}
    \/ /\ worker[g].state \in {"starting", "greeted"}
       /\ stdin[g] # << >> /\ Head(stdin[g]).kind # "ready"

\* Until start has confirmed the worker nothing else can, and a job that is sent dooms it.
Unconfirmed ==
    manager # "idle" =>
        /\ worker[process].state # "serving"
        /\ \A i \in DOMAIN stdin[process] : stdin[process][i].kind # "ready"
        /\ (\E j \in Jobs : sentTo[j] = process) => Doomed(process)

\* A timer that runs knows the worker and the session that were there when it was set.
Captures(j, t) ==
    t.due /\ sentTo[j] = process /\ process # None =>
        t.process = process /\ (t.session = sessionId \/ Doomed(process))

Timers ==
    \A j \in Jobs :
        /\ cancel[j] # "done" => timers[j] = NoTimer /\ fired[j] = NoTimer
        /\ Captures(j, timers[j]) /\ Captures(j, fired[j])
        /\ cancel[j] = "done" /\ Waiting(j) /\ lock = "free" /\ sentTo[j] = process /\ process # None
           => timers[j].due \/ fired[j].due \/ Doomed(process)

\* The numbers of the events of a job, on their way and read.
Numbers ==
    /\ \A g \in Generations : \A i \in DOMAIN stdout[g] :
          LET m == stdout[g][i] IN
          m.kind \in Sequenced =>
              /\ m.id \in Jobs /\ exec[m.id].worker = g
              /\ m.kind = "progress" => m.seq < exec[m.id].seq
              /\ m.kind # "progress" => m.seq = exec[m.id].seq /\ exec[m.id].phase = "over"
    /\ \A j \in Jobs : exec[j].phase # "over" => lastSeq[j] < exec[j].seq

Readers ==
    process # None /\ lock = "free" /\ reader[process] = "over" => ~ Alive(process)

\* The hello of a worker is read by the start that spawned it, when workers are in time.
Hellos ==
    /\ handshake.hello \in {None, process}
    /\ sessionId \in {None, process}
    /\ handshake.hello # None => manager = "greeting"
    /\ manager = "aborting" => ~ Alive(process) /\ stdout[process] = << >>
    /\ \A g \in Generations :
          /\ worker[g].state = "starting" =>
                process = g /\ manager = "greeting" /\ handshake.hello = None /\ stdout[g] = << >>
          /\ \A i \in DOMAIN stdout[g] : stdout[g][i].kind = "hello" =>
                i = 1 /\ process = g /\ manager = "greeting" /\ handshake.hello = None

\* A terminal event is in the queue, or will be read and put there.
Delivery ==
    \A j \in Jobs :
        Waiting(j) /\ exec[j].phase = "over" /\ exec[j].worker = process /\ lock = "free" =>
            \/ TerminalIn(queue[j], j)
            \/ TerminalIn(stdout[process], j) /\ reader[process] # "over" /\ lastSeq[j] < exec[j].seq

SupervisorInv ==
    /\ TypeOK /\ FirstNumber /\ Queues /\ Untouched /\ JobFrames /\ Threads /\ Process
    /\ Unconfirmed /\ Timers /\ Numbers /\ Readers

\* Workers that answer within the handshake timeout.
PunctualInv == Hellos /\ Delivery

-------------------------------------------------------------------------------
(* Lemmas about pipes and queues *)

\* A frame at the end of a sequence.
LEMMA Appended ==
    ASSUME NEW S, NEW s \in Seq(S), NEW e \in S
    PROVE  /\ Append(s, e) \in Seq(S) /\ Append(s, e) # << >>
           /\ DOMAIN Append(s, e) = (DOMAIN s) \cup {Len(s) + 1} /\ Len(s) + 1 \notin DOMAIN s
           /\ Append(s, e)[Len(s) + 1] = e
           /\ \A i \in DOMAIN s : Append(s, e)[i] = s[i]
           /\ Head(Append(s, e)) = IF s = << >> THEN e ELSE Head(s)
OBVIOUS

\* What is left of a sequence when its first frame is taken.
LEMMA Taken ==
    ASSUME NEW S, NEW s \in Seq(S), s # << >>
    PROVE  /\ Tail(s) \in Seq(S) /\ Head(s) \in S /\ Head(s) = s[1] /\ 1 \in DOMAIN s
           /\ \A i \in DOMAIN Tail(s) :
                 i + 1 \in DOMAIN s /\ i \in Nat /\ i # 0 /\ Tail(s)[i] = s[i + 1]
           /\ \A i \in DOMAIN s : i = 1 \/ (i - 1 \in DOMAIN Tail(s) /\ Tail(s)[i - 1] = s[i])
OBVIOUS

\* The frames that are sent are frames.
LEMMA FramesAre ==
    ASSUME NEW kind \in Control \cup Events \cup {"hello", "response"}, NEW id \in Nat,
           NEW seq \in 0 .. 2
    PROVE  /\ Frame(kind, id, seq) \in Frames /\ Frame(kind, id, seq).kind = kind
           /\ Frame(kind, id, seq).id = id /\ Frame(kind, id, seq).seq = seq
BY DEF Frame, Frames

LEMMA Numbered ==
    /\ None \notin Generations /\ None \notin Jobs /\ None \in Nat
    /\ Generations \subseteq Nat /\ Jobs \subseteq Nat /\ Validations \subseteq Nat
BY WorkerAssumption DEF None, Generations, Jobs, Validations

LEMMA NoTimerType == NoTimer \in Timer /\ NoTimer.due = FALSE
BY DEF NoTimer, Timer

-------------------------------------------------------------------------------
(* Lemmas about what one step does to one record *)

Workers == [state : {"none", "starting", "greeted", "serving", "joining", "dead"},
            run : Jobs \cup {None}]
Execs == [phase : {"none", "started", "accepted", "computing", "withdrawn", "computed", "raised",
                   "over"},
          worker : Generations \cup {None}, cancelled : BOOLEAN, seq : 1 .. 2]
Callers == [pc : {"idle", "admitting", "draining", "polling", "over"},
            outcome : {"none", "completed", "failed", "cancelled", "fault", "lost", "timeout",
                       "unsent"}]
Asking == [pc : {"idle", "waiting", "answered", "issued", "timeout"},
           by : Generations \cup {None}, session : Generations \cup {None}]

\* Another place of a thread inside validate_draft, and the session of a receipt.
LEMMA RequestMoves ==
    ASSUME NEW f \in [Validations -> Asking], NEW v \in Validations,
           NEW x \in {"idle", "waiting", "answered", "issued", "timeout"},
           NEW n \in Generations \cup {None}
    PROVE  /\ [f EXCEPT ![v].pc = x] \in [Validations -> Asking]
           /\ [f EXCEPT ![v].pc = x, ![v].session = n] \in [Validations -> Asking]
<1>1. [f[v] EXCEPT !.pc = x] = [pc |-> x, by |-> f[v].by, session |-> f[v].session]
  BY DEF Asking
<1>2. [f EXCEPT ![v].pc = x] = [f EXCEPT ![v] = [pc |-> x, by |-> f[v].by, session |-> f[v].session]]
  BY <1>1
<1>3. [f EXCEPT ![v].pc = x] \in [Validations -> Asking]
  BY <1>2 DEF Asking
<1>4. \A e \in [Validations -> Asking] : [e[v] EXCEPT !.session = n] \in Asking
  BY DEF Asking
<1>5. \A e \in [Validations -> Asking] : [e EXCEPT ![v].session = n] \in [Validations -> Asking]
  BY <1>4
<1> QED
  BY <1>3, <1>5

\* A timer that is due no more.
LEMMA TimerEnds ==
    ASSUME NEW t \in Timer
    PROVE  /\ [t EXCEPT !.due = FALSE] \in Timer /\ [t EXCEPT !.due = FALSE].due = FALSE
           /\ [t EXCEPT !.due = FALSE].process = t.process
           /\ [t EXCEPT !.due = FALSE].session = t.session
BY DEF Timer

LEMMA TimerMoves ==
    ASSUME NEW f \in [Jobs -> Timer], NEW j \in Jobs
    PROVE  /\ [f EXCEPT ![j].due = FALSE] \in [Jobs -> Timer]
           /\ [f EXCEPT ![j].due = FALSE][j].due = FALSE
           /\ \A i \in Jobs : i # j => [f EXCEPT ![j].due = FALSE][i] = f[i]
<1> DEFINE t == [f[j] EXCEPT !.due = FALSE]
<1>1. t \in Timer /\ t.due = FALSE
  BY TimerEnds
<1>2. [f EXCEPT ![j].due = FALSE] = [f EXCEPT ![j] = t]
  OBVIOUS
<1> HIDE DEF t
<1> QED
  BY <1>1, <1>2

-------------------------------------------------------------------------------
(* Type correctness *)

\* The initial state is well typed.
LEMMA InitTypes == Init => TypeOK
<1> SUFFICES ASSUME Init PROVE TypeOK
  OBVIOUS
<1>1. worker \in [Generations -> Workers]
  BY DEF Init, WorkerInit, Workers, None
<1>2. exec \in [Jobs -> Execs]
  BY DEF Init, WorkerInit, Execs, None
<1>3. stdin \in [Generations -> Seq(Frames)] /\ stdout \in [Generations -> Seq(Frames)]
      /\ stdinOpen \in [Generations -> BOOLEAN]
  BY DEF Init, WorkerInit
<1>4. WorkerTypeOK
  BY <1>1, <1>2, <1>3 DEF WorkerTypeOK, Workers, Execs
<1>5. /\ process \in Generations \cup {None} /\ sessionId \in Generations \cup {None}
      /\ stopping \in BOOLEAN /\ lock \in {"free", "stop"}
      /\ manager \in {"idle", "greeting", "aborting"}
      /\ handshake \in [registered : BOOLEAN, hello : Generations \cup {None}]
  BY DEF Init, NoHandshake
<1>6. /\ reader \in [Generations -> {"none", "top", "reading", "over"}]
      /\ lastSeq \in [Jobs -> 0 .. 2] /\ activeJobs \subseteq Jobs
      /\ queue \in [Jobs -> Seq(Frames)]
      /\ cancel \in [Jobs -> {"none", "requested", "done"}]
      /\ sentTo \in [Jobs -> Generations \cup {None}]
  BY DEF Init
<1>7. timers \in [Jobs -> Timer] /\ fired \in [Jobs -> Timer]
  BY NoTimerType DEF Init
<1>8. caller \in [Jobs -> Callers] /\ request \in [Validations -> Asking]
  BY DEF Init, Callers, Asking
<1> QED
  BY <1>4, <1>5, <1>6, <1>7, <1>8 DEF TypeOK, Callers, Asking

\* The parts of TypeOK, by the sets that are named above, before and after a step.
LEMMA Typed ==
    ASSUME TypeOK
    PROVE  /\ worker \in [Generations -> Workers]
           /\ stdin \in [Generations -> Seq(Frames)] /\ stdinOpen \in [Generations -> BOOLEAN]
           /\ stdout \in [Generations -> Seq(Frames)] /\ exec \in [Jobs -> Execs]
           /\ process \in Generations \cup {None} /\ sessionId \in Generations \cup {None}
           /\ stopping \in BOOLEAN /\ lock \in {"free", "stop"}
           /\ manager \in {"idle", "greeting", "aborting"}
           /\ handshake \in [registered : BOOLEAN, hello : Generations \cup {None}]
           /\ reader \in [Generations -> {"none", "top", "reading", "over"}]
           /\ lastSeq \in [Jobs -> 0 .. 2] /\ activeJobs \subseteq Jobs
           /\ queue \in [Jobs -> Seq(Frames)]
           /\ timers \in [Jobs -> Timer] /\ fired \in [Jobs -> Timer]
           /\ caller \in [Jobs -> Callers]
           /\ cancel \in [Jobs -> {"none", "requested", "done"}]
           /\ request \in [Validations -> Asking]
           /\ sentTo \in [Jobs -> Generations \cup {None}]
BY DEF TypeOK, WorkerTypeOK, Workers, Execs, Callers, Asking

LEMMA TypedNext ==
    ASSUME worker' \in [Generations -> Workers],
           stdin' \in [Generations -> Seq(Frames)], stdinOpen' \in [Generations -> BOOLEAN],
           stdout' \in [Generations -> Seq(Frames)], exec' \in [Jobs -> Execs],
           process' \in Generations \cup {None}, sessionId' \in Generations \cup {None},
           stopping' \in BOOLEAN, lock' \in {"free", "stop"},
           manager' \in {"idle", "greeting", "aborting"},
           handshake' \in [registered : BOOLEAN, hello : Generations \cup {None}],
           reader' \in [Generations -> {"none", "top", "reading", "over"}],
           lastSeq' \in [Jobs -> 0 .. 2], activeJobs' \subseteq Jobs,
           queue' \in [Jobs -> Seq(Frames)],
           timers' \in [Jobs -> Timer], fired' \in [Jobs -> Timer],
           caller' \in [Jobs -> Callers],
           cancel' \in [Jobs -> {"none", "requested", "done"}],
           request' \in [Validations -> Asking],
           sentTo' \in [Jobs -> Generations \cup {None}]
    PROVE  TypeOK'
BY DEF TypeOK, WorkerTypeOK, Workers, Execs, Callers, Asking

-------------------------------------------------------------------------------
(* What the operations that the actions share do *)

\* A frame that is written to a worker is the last one in its pipe.
LEMMA WriteDoes ==
    ASSUME TypeOK, NEW g \in Generations, NEW e \in Frames, Write(g, e)
    PROVE  /\ stdin' \in [Generations -> Seq(Frames)]
           /\ stdin'[g] = Append(stdin[g], e)
           /\ \A h \in Generations : h # g => stdin'[h] = stdin[h]
<1>1. Append(stdin[g], e) \in Seq(Frames)
  BY Typed, Appended
<1> QED
  BY <1>1, Typed DEF Write

LEMMA SendDoes ==
    ASSUME TypeOK, NEW g \in Generations, NEW e \in Frames, Send(g, e)
    PROVE  /\ stdout' \in [Generations -> Seq(Frames)]
           /\ stdout'[g] = Append(stdout[g], e)
           /\ \A h \in Generations : h # g => stdout'[h] = stdout[h]
<1>1. Append(stdout[g], e) \in Seq(Frames)
  BY Typed, Appended
<1> QED
  BY <1>1, Typed DEF Send

\* The main thread of a worker is elsewhere, and still has its job.
LEMMA MainThreadDoes ==
    ASSUME TypeOK, NEW g \in Generations,
           NEW x \in {"none", "starting", "greeted", "serving", "joining", "dead"},
           MainThread(g, x)
    PROVE  /\ worker' \in [Generations -> Workers]
           /\ worker'[g].state = x /\ worker'[g].run = worker[g].run
           /\ \A h \in Generations : h # g => worker'[h] = worker[h]
<1> DEFINE e == [state |-> x, run |-> worker[g].run]
<1>1. [worker[g] EXCEPT !.state = x] = e /\ e \in Workers
  BY Typed DEF Workers
<1>2. worker' = [worker EXCEPT ![g] = e]
  BY <1>1 DEF MainThread
<1>3. e.state = x /\ e.run = worker[g].run
  OBVIOUS
<1> HIDE DEF e
<1> QED
  BY <1>1, <1>2, <1>3, Typed

LEMMA KillDoes ==
    ASSUME TypeOK, NEW g \in Generations, Kill(g)
    PROVE  /\ worker' \in [Generations -> Workers]
           /\ worker'[g].state = "dead" /\ worker'[g].run = worker[g].run
           /\ \A h \in Generations : h # g => worker'[h] = worker[h]
BY MainThreadDoes DEF Kill

\* The execution thread of a job is elsewhere.
LEMMA ThreadToDoes ==
    ASSUME TypeOK, NEW j \in Jobs,
           NEW x \in {"accepted", "computing", "withdrawn", "computed", "raised", "over"},
           ThreadTo(j, x)
    PROVE  /\ exec' \in [Jobs -> Execs]
           /\ exec'[j].phase = x /\ exec'[j].worker = exec[j].worker
           /\ exec'[j].seq = exec[j].seq
           /\ \A i \in Jobs : i # j => exec'[i] = exec[i]
<1> DEFINE e == [phase |-> x, worker |-> exec[j].worker, cancelled |-> exec[j].cancelled,
                 seq |-> exec[j].seq]
<1>0. \A t \in Execs : [t EXCEPT !.phase = x] = [phase |-> x, worker |-> t.worker,
                                               cancelled |-> t.cancelled, seq |-> t.seq]
  BY DEF Execs
<1>1. exec[j] \in Execs
  BY Typed
<1>2. [exec[j] EXCEPT !.phase = x] = e
  BY <1>0, <1>1
<1>3. e \in Execs
  BY <1>1 DEF Execs
<1>4. exec' = [exec EXCEPT ![j] = e]
  BY <1>2 DEF ThreadTo
<1>5. e.phase = x /\ e.worker = exec[j].worker /\ e.seq = exec[j].seq
  OBVIOUS
<1> HIDE DEF e
<1> QED
  BY <1>3, <1>4, <1>5, Typed

\* A thread inside execute_job is elsewhere, or returns.
LEMMA CallerToDoes ==
    ASSUME TypeOK, NEW j \in Jobs, NEW x \in {"admitting", "draining", "polling"},
           CallerTo(j, x)
    PROVE  /\ caller' \in [Jobs -> Callers] /\ caller'[j].pc = x
           /\ \A i \in Jobs : i # j => caller'[i] = caller[i]
<1> DEFINE e == [pc |-> x, outcome |-> caller[j].outcome]
<1>1. [caller[j] EXCEPT !.pc = x] = e /\ e \in Callers
  BY Typed DEF Callers
<1>2. caller' = [caller EXCEPT ![j] = e] /\ e.pc = x
  BY <1>1 DEF CallerTo
<1> HIDE DEF e
<1> QED
  BY <1>1, <1>2, Typed

LEMMA ReturnsDoes ==
    ASSUME TypeOK, NEW j \in Jobs,
           NEW o \in {"completed", "failed", "cancelled", "fault", "lost", "timeout", "unsent"},
           Returns(j, o)
    PROVE  /\ caller' \in [Jobs -> Callers] /\ caller'[j].pc = "over"
           /\ \A i \in Jobs : i # j => caller'[i] = caller[i]
BY Typed DEF Returns, Callers

\* The job is registered no more, and its timer is cancelled.
LEMMA FinallyDoes ==
    ASSUME TypeOK, NEW j \in Jobs, Finally(j)
    PROVE  /\ lock = "free" /\ activeJobs' = activeJobs \ {j} /\ activeJobs' \subseteq Jobs
           /\ timers' \in [Jobs -> Timer] /\ timers'[j] = NoTimer
           /\ \A i \in Jobs : i # j => timers'[i] = timers[i]
BY Typed, NoTimerType DEF Finally

\* An event is put into the queue of its job.
Arrives(j, m) == queue' = [queue EXCEPT ![j] = Append(@, m)]

LEMMA ArrivesDoes ==
    ASSUME TypeOK, NEW j \in Jobs, NEW m \in Frames, Arrives(j, m)
    PROVE  /\ queue' \in [Jobs -> Seq(Frames)]
           /\ queue'[j] = Append(queue[j], m)
           /\ \A i \in Jobs : i # j => queue'[i] = queue[i]
<1>1. Append(queue[j], m) \in Seq(Frames)
  BY Typed, Appended
<1> QED
  BY <1>1, Typed DEF Arrives

-------------------------------------------------------------------------------
(* Every step keeps the types *)

LEMMA StartTypes ==
    ASSUME TypeOK, NEW g \in Generations, Start(g)
    PROVE  TypeOK'
<1>1. worker' \in [Generations -> Workers]
  BY MainThreadDoes DEF Start
<1>2. handshake' \in [registered : BOOLEAN, hello : Generations \cup {None}]
  BY DEF Start
<1>3. reader' \in [Generations -> {"none", "top", "reading", "over"}]
  BY Typed DEF Start
<1>4. lastSeq' \in [Jobs -> 0 .. 2]
  BY DEF Start
<1> QED
  BY <1>1, <1>2, <1>3, <1>4, Typed, TypedNext DEF Start, pipes, control

LEMMA HandshakeTypes ==
    ASSUME TypeOK, Handshake
    PROVE  TypeOK'
<1>1. Frame("ready", None, 0) \in Frames
  BY FramesAre, Numbered DEF Control
<1>2. stdin' \in [Generations -> Seq(Frames)]
  BY <1>1, WriteDoes, Typed DEF Handshake, Running
<1>3. sessionId' \in Generations \cup {None}
  BY Typed DEF Handshake
<1>4. handshake' \in [registered : BOOLEAN, hello : Generations \cup {None}] /\ manager' = "idle"
  BY DEF Handshake, NoHandshake
<1> QED
  BY <1>2, <1>3, <1>4, Typed, TypedNext DEF Handshake, control

LEMMA StopTypes ==
    ASSUME TypeOK, Process, HandshakeTimeout \/ StopBegin \/ StopEnd
    PROVE  TypeOK'
<1>1. CASE HandshakeTimeout
  BY <1>1, Typed, TypedNext DEF HandshakeTimeout, workerVars, pipes, control
<1>2. CASE StopBegin
  <2>1. Frame("shutdown", None, 0) \in Frames /\ process \in Generations
    BY <1>2, FramesAre, Numbered, Typed DEF Control, StopBegin
  <2>2. stdin' \in [Generations -> Seq(Frames)]
    BY <1>2, <2>1, WriteDoes, Typed DEF StopBegin
  <2>3. timers' \in [Jobs -> Timer] /\ stdinOpen' \in [Generations -> BOOLEAN]
    BY <1>2, NoTimerType, Typed DEF StopBegin
  <2> QED
    BY <1>2, <2>2, <2>3, Typed, TypedNext DEF StopBegin
<1>3. CASE StopEnd
  <2>1. process \in Generations
    BY <1>3, Typed DEF StopEnd, Process
  <2>2. worker' \in [Generations -> Workers]
    BY <1>3, <2>1, KillDoes DEF StopEnd
  <2>3. handshake' \in [registered : BOOLEAN, hello : Generations \cup {None}]
    BY <1>3 DEF StopEnd, NoHandshake
  <2> QED
    BY <1>3, <2>2, <2>3, Typed, TypedNext DEF StopEnd, pipes, control
<1> QED
  BY <1>1, <1>2, <1>3

LEMMA ReaderTypes ==
    ASSUME TypeOK, Numbers, NEW g \in Generations, ReaderStep(g)
    PROVE  TypeOK'
<1>1. CASE ReaderLooks(g) \/ ReaderEnds(g)
  <2>1. reader' \in [Generations -> {"none", "top", "reading", "over"}]
    BY <1>1, Typed DEF ReaderLooks, ReaderEnds
  <2> QED
    BY <1>1, <2>1, Typed, TypedNext DEF ReaderLooks, ReaderEnds, workerVars, pipes, connection, control
<1>2. CASE ReadFrame(g)
  <2> DEFINE m == Head(stdout[g])
  <2>1. m \in Frames /\ Tail(stdout[g]) \in Seq(Frames) /\ m = stdout[g][1] /\ 1 \in DOMAIN stdout[g]
    BY <1>2, Typed, Taken DEF ReadFrame
  <2>2. m.kind \in Sequenced => m.id \in Jobs
    BY <2>1 DEF Numbers
  <2>3. stdout' \in [Generations -> Seq(Frames)]
    BY <1>2, <2>1, Typed DEF ReadFrame
  <2>4. reader' \in [Generations -> {"none", "top", "reading", "over"}]
    BY <1>2, Typed DEF ReadFrame
  <2>5. lastSeq' \in [Jobs -> 0 .. 2]
    <3>1. m.seq \in 0 .. 2
      BY <2>1 DEF Frames
    <3> QED
      BY <1>2, <3>1, Typed DEF ReadFrame
  <2>6. handshake' \in [registered : BOOLEAN, hello : Generations \cup {None}]
    BY <1>2, Typed DEF ReadFrame, Deliver
  <2>7. request' \in [Validations -> Asking]
    <3>1. [pc |-> "answered", by |-> g, session |-> None] \in Asking
      BY DEF Asking
    <3> QED
      BY <1>2, <3>1, Typed DEF ReadFrame, Deliver
  <2>8. queue' \in [Jobs -> Seq(Frames)]
    <3>1. queue' = queue \/ (m.id \in activeJobs /\ Arrives(m.id, m))
      BY <1>2 DEF ReadFrame, Deliver, Arrives
    <3> QED
      BY <2>1, <3>1, ArrivesDoes, Typed
  <2> QED
    BY <1>2, <2>3, <2>4, <2>5, <2>6, <2>7, <2>8, Typed, TypedNext DEF ReadFrame, control
<1> QED
  BY <1>1, <1>2 DEF ReaderStep

LEMMA ValidationTypes ==
    ASSUME TypeOK, NEW v \in Validations, Validate(v) \/ ValidationTimeout(v) \/ IssueReceipt(v)
    PROVE  TypeOK'
<1>1. CASE Validate(v)
  <2>1. Frame("validate", v, 0) \in Frames
    BY FramesAre, Numbered DEF Control
  <2>2. stdin' \in [Generations -> Seq(Frames)]
    BY <1>1, <2>1, WriteDoes, Typed DEF Validate, Running
  <2>3. request' \in [Validations -> Asking]
    BY <1>1, RequestMoves, Typed DEF Validate
  <2> QED
    BY <1>1, <2>2, <2>3, Typed, TypedNext DEF Validate, connection, control
<1>2. CASE ValidationTimeout(v)
  <2>1. request' \in [Validations -> Asking]
    BY <1>2, RequestMoves, Typed DEF ValidationTimeout
  <2> QED
    BY <1>2, <2>1, Typed, TypedNext DEF ValidationTimeout, workerVars, pipes, connection, control
<1>3. CASE IssueReceipt(v)
  <2>1. request' \in [Validations -> Asking]
    BY <1>3, RequestMoves, Typed DEF IssueReceipt
  <2> QED
    BY <1>3, <2>1, Typed, TypedNext DEF IssueReceipt, workerVars, pipes, connection, control
<1> QED
  BY <1>1, <1>2, <1>3

LEMMA DispatchTypes ==
    ASSUME TypeOK, NEW j \in Jobs, NEW broken \in BOOLEAN, Dispatch(j, broken)
    PROVE  TypeOK'
<1>1. Running(process) => process \in Generations
  BY Typed DEF Running
<1>2. Frame("job", j, 0) \in Frames
  BY FramesAre, Numbered DEF Control
<1>3. worker' \in [Generations -> Workers]
  BY <1>1, KillDoes, Typed DEF Dispatch
<1>4. stdin' \in [Generations -> Seq(Frames)]
  BY <1>1, <1>2, WriteDoes, Typed DEF Dispatch
<1>5. sentTo' \in [Jobs -> Generations \cup {None}]
  BY <1>1, Typed, ZenonT(40) DEF Dispatch
<1>6. caller' \in [Jobs -> Callers]
  BY CallerToDoes, ReturnsDoes DEF Dispatch
<1>7. activeJobs' \subseteq Jobs
  BY Typed DEF Dispatch
<1> QED
  BY <1>3, <1>4, <1>5, <1>6, <1>7, Typed, TypedNext DEF Dispatch, connection, control

\* An event that is taken from the queue.
LEMMA TakesDoes ==
    ASSUME TypeOK, NEW j \in Jobs, queue[j] # << >>, queue' = [queue EXCEPT ![j] = Tail(@)]
    PROVE  /\ queue' \in [Jobs -> Seq(Frames)]
           /\ queue'[j] = Tail(queue[j])
           /\ \A i \in Jobs : i # j => queue'[i] = queue[i]
<1>1. Tail(queue[j]) \in Seq(Frames)
  BY Typed, Taken
<1> QED
  BY <1>1, Typed

LEMMA CallerTypes ==
    ASSUME TypeOK, Queues, NEW j \in Jobs, CallerStep(j) \/ Deadline(j)
    PROVE  TypeOK'
<1>1. CASE TakeFirst(j)
  <2>1. queue' \in [Jobs -> Seq(Frames)]
    BY <1>1, TakesDoes DEF TakeFirst
  <2>2. caller' \in [Jobs -> Callers] /\ activeJobs' \subseteq Jobs /\ timers' \in [Jobs -> Timer]
    BY <1>1, CallerToDoes, ReturnsDoes, FinallyDoes, Typed DEF TakeFirst
  <2> QED
    BY <1>1, <2>1, <2>2, Typed, TypedNext DEF TakeFirst, workerVars, pipes, connection
<1>2. CASE AdmissionTimeout(j)
  <2>1. caller' \in [Jobs -> Callers] /\ activeJobs' \subseteq Jobs /\ timers' \in [Jobs -> Timer]
    BY <1>2, ReturnsDoes, FinallyDoes DEF AdmissionTimeout
  <2> QED
    BY <1>2, <2>1, Typed, TypedNext DEF AdmissionTimeout, workerVars, pipes, connection
<1>3. CASE TakeEvent(j)
  <2> DEFINE kind == Head(queue[j]).kind
  <2>1. queue' \in [Jobs -> Seq(Frames)]
    BY <1>3, TakesDoes DEF TakeEvent
  <2>2. kind \in Events
    <3>1. Head(queue[j]) = queue[j][1] /\ 1 \in DOMAIN queue[j]
      BY <1>3, Typed, Taken DEF TakeEvent
    <3> QED
      BY <3>1 DEF Queues
  <2>3. \/ caller' = caller /\ activeJobs' = activeJobs /\ timers' = timers
        \/ kind \in {"completed", "failed", "cancelled", "fault"} /\ Returns(j, kind) /\ Finally(j)
    BY <1>3, <2>2 DEF TakeEvent, Events, Sequenced
  <2>4. caller' \in [Jobs -> Callers] /\ activeJobs' \subseteq Jobs /\ timers' \in [Jobs -> Timer]
    BY <2>3, ReturnsDoes, FinallyDoes, Typed
  <2> QED
    BY <1>3, <2>1, <2>4, Typed, TypedNext DEF TakeEvent, workerVars, pipes, connection
<1>4. CASE PollBegins(j)
  <2>1. caller' \in [Jobs -> Callers]
    BY <1>4, CallerToDoes DEF PollBegins
  <2> QED
    BY <1>4, <2>1, Typed, TypedNext DEF PollBegins, workerVars, pipes, connection, control
<1>5. CASE PollEnds(j)
  <2>1. caller' \in [Jobs -> Callers] /\ activeJobs' \subseteq Jobs /\ timers' \in [Jobs -> Timer]
    BY <1>5, CallerToDoes, ReturnsDoes, FinallyDoes, Typed DEF PollEnds
  <2> QED
    BY <1>5, <2>1, Typed, TypedNext DEF PollEnds, workerVars, pipes, connection
<1>6. CASE Deadline(j)
  <2>1. caller' \in [Jobs -> Callers] /\ activeJobs' \subseteq Jobs /\ timers' \in [Jobs -> Timer]
    BY <1>6, ReturnsDoes, FinallyDoes DEF Deadline
  <2>2. worker' \in [Generations -> Workers]
    BY <1>6, KillDoes, Typed DEF Deadline, Running
  <2> QED
    BY <1>6, <2>1, <2>2, Typed, TypedNext DEF Deadline, pipes, connection
<1> QED
  BY <1>1, <1>2, <1>3, <1>4, <1>5, <1>6 DEF CallerStep

LEMMA CapturedTypes ==
    ASSUME TypeOK
    PROVE  Captured \in Timer
BY Typed DEF Captured, Timer

LEMMA CancelTypes ==
    ASSUME TypeOK, NEW j \in Jobs, RequestCancel(j) \/ Cancel(j) \/ TimerStep(j)
    PROVE  TypeOK'
<1>1. CASE RequestCancel(j)
  <2>1. cancel' \in [Jobs -> {"none", "requested", "done"}]
    BY <1>1, Typed DEF RequestCancel
  <2> QED
    BY <1>1, <2>1, Typed, TypedNext DEF RequestCancel, workerVars, pipes, connection
<1>2. CASE Cancel(j)
  <2>1. cancel' \in [Jobs -> {"none", "requested", "done"}]
    BY <1>2, Typed DEF Cancel
  <2>2. Frame("cancel", j, 0) \in Frames
    BY FramesAre, Numbered DEF Control
  <2>3. stdin' \in [Generations -> Seq(Frames)]
    BY <1>2, <2>2, WriteDoes, Typed DEF Cancel, Running
  <2>4. timers' \in [Jobs -> Timer]
    BY <1>2, CapturedTypes, Typed DEF Cancel
  <2> QED
    BY <1>2, <2>1, <2>3, <2>4, Typed, TypedNext DEF Cancel, connection
<1>3. CASE TimerFires(j)
  <2>1. timers' \in [Jobs -> Timer]
    BY <1>3, TimerMoves, Typed DEF TimerFires
  <2>2. fired' \in [Jobs -> Timer]
    BY <1>3, Typed DEF TimerFires
  <2> QED
    BY <1>3, <2>1, <2>2, Typed, TypedNext DEF TimerFires, workerVars, pipes, connection
<1>4. CASE ForceKill(j)
  <2>1. worker' \in [Generations -> Workers]
    BY <1>4, KillDoes, Typed DEF ForceKill, StillRunning, Running
  <2>2. fired' \in [Jobs -> Timer]
    BY <1>4, NoTimerType, Typed DEF ForceKill
  <2> QED
    BY <1>4, <2>1, <2>2, Typed, TypedNext DEF ForceKill, pipes, connection
<1> QED
  BY <1>1, <1>2, <1>3, <1>4 DEF TimerStep

\* A frame that the worker reads.
Reads(g) == stdin' = [stdin EXCEPT ![g] = Tail(@)]

LEMMA ReadsDoes ==
    ASSUME TypeOK, NEW g \in Generations, stdin[g] # << >>, Reads(g)
    PROVE  /\ stdin' \in [Generations -> Seq(Frames)]
           /\ stdin'[g] = Tail(stdin[g])
           /\ \A h \in Generations : h # g => stdin'[h] = stdin[h]
<1>1. Tail(stdin[g]) \in Seq(Frames)
  BY Typed, Taken
<1> QED
  BY <1>1, Typed DEF Reads

\* A job that is started has a thread of its own from the beginning.
LEMMA StartJobDoes ==
    ASSUME TypeOK, NEW g \in Generations, NEW j \in Jobs, StartJob(g, j)
    PROVE  /\ worker' \in [Generations -> Workers] /\ exec' \in [Jobs -> Execs]
           /\ worker'[g].state = worker[g].state /\ worker'[g].run = j
           /\ \A h \in Generations : h # g => worker'[h] = worker[h]
           /\ exec'[j].phase = "started" /\ exec'[j].worker = g /\ exec'[j].seq = 1
           /\ \A i \in Jobs : i # j => exec'[i] = exec[i]
           /\ stdout' = stdout
<1> DEFINE e == [state |-> worker[g].state, run |-> j]
           x == [phase |-> "started", worker |-> g, cancelled |-> FALSE, seq |-> 1]
<1>1. \A t \in Workers : [t EXCEPT !.run = j] = [state |-> t.state, run |-> j]
  BY DEF Workers
<1>2. worker' = [worker EXCEPT ![g] = e]
  BY <1>1, Typed DEF StartJob
<1>3. e \in Workers /\ e.state = worker[g].state /\ e.run = j
  BY Typed DEF Workers
<1>4. exec' = [exec EXCEPT ![j] = x] /\ stdout' = stdout
  BY DEF StartJob
<1>5. x \in Execs /\ x.phase = "started" /\ x.worker = g /\ x.seq = 1
  BY DEF Execs
<1> HIDE DEF e, x
<1> QED
  BY <1>2, <1>3, <1>4, <1>5, Typed

\* The cancellation event of a thread is set.
Flags(j) == exec' = [exec EXCEPT ![j].cancelled = TRUE]

LEMMA Flagged ==
    ASSUME NEW t \in Execs
    PROVE  LET e == [t EXCEPT !.cancelled = TRUE] IN
           e \in Execs /\ e.phase = t.phase /\ e.worker = t.worker /\ e.seq = t.seq
BY DEF Execs

LEMMA FlagsDoes ==
    ASSUME TypeOK, NEW j \in Jobs, Flags(j)
    PROVE  /\ exec' \in [Jobs -> Execs]
           /\ \A i \in Jobs : exec'[i].phase = exec[i].phase /\ exec'[i].worker = exec[i].worker
                              /\ exec'[i].seq = exec[i].seq
<1> DEFINE e == [exec[j] EXCEPT !.cancelled = TRUE]
<1>1. e \in Execs /\ e.phase = exec[j].phase /\ e.worker = exec[j].worker /\ e.seq = exec[j].seq
  BY Flagged, Typed
<1>2. exec' = [exec EXCEPT ![j] = e]
  BY DEF Flags
<1> HIDE DEF e
<1> QED
  BY <1>1, <1>2, Typed

\* The thread computes, and the progress event has used its number.
Computes(j) == exec' = [exec EXCEPT ![j].phase = "computing", ![j].seq = @ + 1]

Advanced(t, phase, n) == [t EXCEPT !.phase = phase, !.seq = n]

LEMMA Computing ==
    ASSUME NEW t \in Execs, NEW x \in {"computing"}, NEW n \in 1 .. 2
    PROVE  /\ Advanced(t, x, n) \in Execs /\ Advanced(t, x, n).phase = x
           /\ Advanced(t, x, n).worker = t.worker /\ Advanced(t, x, n).seq = n
BY DEF Execs, Advanced

LEMMA ComputesDoes ==
    ASSUME TypeOK, NEW j \in Jobs, exec[j].seq = 1, Computes(j)
    PROVE  /\ exec' \in [Jobs -> Execs]
           /\ exec'[j].phase = "computing" /\ exec'[j].worker = exec[j].worker
           /\ exec'[j].seq = 2
           /\ \A i \in Jobs : i # j => exec'[i] = exec[i]
<1> DEFINE e == Advanced(exec[j], "computing", 2)
<1>1. e \in Execs /\ e.phase = "computing" /\ e.worker = exec[j].worker /\ e.seq = 2
  BY Computing, Typed
<1>2. exec'[j] = e
  BY Typed DEF Computes, Advanced
<1>3. exec' = [exec EXCEPT ![j] = exec'[j]]
  BY Typed DEF Computes
<1>4. \A i \in Jobs : i # j => exec'[i] = exec[i]
  BY Typed DEF Computes
<1> HIDE DEF e
<1>5. exec' = [exec EXCEPT ![j] = e]
  BY <1>2, <1>3
<1> QED
  BY <1>1, <1>2, <1>4, <1>5, Typed

\* What the worker serves, case by case.
LEMMA Served ==
    ASSUME TypeOK, JobFrames, NEW g \in Generations, Serve(g)
    PROVE  LET m == Head(stdin[g]) IN
           /\ stdin[g] # << >> /\ Reads(g) /\ stdinOpen' = stdinOpen
           /\ m \in Frames /\ m = stdin[g][1] /\ 1 \in DOMAIN stdin[g]
           /\ worker[g].state = "serving"
           /\ \/ /\ worker' = worker /\ stdout' = stdout
                 /\ exec' = exec \/ \E j \in Jobs : Flags(j)
              \/ /\ m.kind = "shutdown" /\ MainThread(g, "joining")
                 /\ stdout' = stdout /\ exec' = exec
              \/ /\ \E kind \in {"response", "fault"} : Send(g, Frame(kind, m.id, 0))
                 /\ worker' = worker /\ exec' = exec
              \/ /\ m.kind = "job" /\ ~ Busy(g) /\ m.id \in Jobs /\ StartJob(g, m.id)
<1> DEFINE m == Head(stdin[g])
<1>1. stdin[g] # << >> /\ Reads(g) /\ stdinOpen' = stdinOpen /\ worker[g].state = "serving"
  BY DEF Serve, Reads
<1>2. m \in Frames /\ m = stdin[g][1] /\ 1 \in DOMAIN stdin[g]
  BY <1>1, Taken, Typed
<1>3. m.kind = "job" => m.id \in Jobs
  BY <1>2 DEF JobFrames, JobAt
<1>4. Busy(g) => worker[g].run \in Jobs
  BY Typed DEF Busy, Workers
<1>5. ASSUME m.kind = "cancel", worker' = worker, stdout' = stdout,
             exec' = IF Busy(g) /\ m.id = worker[g].run
                     THEN [exec EXCEPT ![m.id].cancelled = TRUE] ELSE exec
      PROVE  exec' = exec \/ \E j \in Jobs : Flags(j)
  <2>1. CASE Busy(g) /\ m.id = worker[g].run
    <3>1. m.id \in Jobs /\ Flags(m.id)
      BY <1>4, <1>5, <2>1 DEF Flags
    <3> QED
      BY <3>1
  <2> QED
    BY <1>5, <2>1
<1>6. ASSUME m.kind \in {"validate", "job"},
             Send(g, Frame("response", m.id, 0)) \/ Send(g, Frame("fault", m.id, 0))
      PROVE  \E kind \in {"response", "fault"} : Send(g, Frame(kind, m.id, 0))
  BY <1>6
<1> QED
  BY <1>1, <1>2, <1>3, <1>5, <1>6 DEF Serve

LEMMA MainTypes ==
    ASSUME TypeOK, JobFrames, NEW g \in Generations, MainStep(g) \/ Crash(g)
    PROVE  /\ worker' \in [Generations -> Workers] /\ stdin' \in [Generations -> Seq(Frames)]
           /\ stdinOpen' \in [Generations -> BOOLEAN] /\ stdout' \in [Generations -> Seq(Frames)]
           /\ exec' \in [Jobs -> Execs]
<1>1. CASE SayHello(g)
  <2>1. Frame("hello", None, 0) \in Frames
    BY FramesAre, Numbered
  <2> QED
    BY <1>1, <2>1, MainThreadDoes, SendDoes, Typed DEF SayHello
<1>2. CASE Confirm(g)
  <2>1. Frame("fault", None, 0) \in Frames
    BY FramesAre, Numbered DEF Events
  <2>2. worker' \in [Generations -> Workers] /\ stdout' \in [Generations -> Seq(Frames)]
    BY <1>2, <2>1, MainThreadDoes, SendDoes, Typed DEF Confirm
  <2>3. stdin' \in [Generations -> Seq(Frames)]
    BY <1>2, Taken, Typed DEF Confirm
  <2> QED
    BY <1>2, <2>2, <2>3, Typed DEF Confirm
<1>3. CASE Serve(g)
  <2> DEFINE m == Head(stdin[g])
  <2>1. stdin' \in [Generations -> Seq(Frames)] /\ stdinOpen' \in [Generations -> BOOLEAN]
    BY <1>3, Served, ReadsDoes, Typed
  <2>2. \A kind \in {"response", "fault"} : Frame(kind, m.id, 0) \in Frames
    <3>1. m.id \in Nat
      BY <1>3, Served DEF Frames
    <3> QED
      BY <3>1, FramesAre DEF Events
  <2>3. \/ worker' = worker /\ stdout' = stdout /\ (exec' = exec \/ \E j \in Jobs : Flags(j))
        \/ MainThread(g, "joining") /\ stdout' = stdout /\ exec' = exec
        \/ /\ \E kind \in {"response", "fault"} : Send(g, Frame(kind, m.id, 0))
           /\ worker' = worker /\ exec' = exec
        \/ m.id \in Jobs /\ StartJob(g, m.id)
    BY <1>3, Served
  <2> HIDE DEF m
  <2>4. worker' \in [Generations -> Workers]
    BY <2>3, MainThreadDoes, StartJobDoes, Typed
  <2>5. exec' \in [Jobs -> Execs]
    BY <2>3, FlagsDoes, StartJobDoes, Typed
  <2>6. stdout' \in [Generations -> Seq(Frames)]
    BY <2>2, <2>3, SendDoes, StartJobDoes, Typed
  <2> QED
    BY <2>1, <2>4, <2>5, <2>6
<1>4. CASE EndOfInput(g) \/ Exit(g)
  BY <1>4, MainThreadDoes, Typed DEF EndOfInput, Exit, pipes
<1>5. CASE Crash(g)
  BY <1>5, KillDoes, Typed DEF Crash, pipes
<1> QED
  BY <1>1, <1>2, <1>3, <1>4, <1>5 DEF MainStep

\* A terminal event is an event of its job.
LEMMA Terminals ==
    \A phase \in {"withdrawn", "computed", "raised"} :
        TerminalOf(phase) \in {"cancelled", "completed", "failed"}
BY DEF TerminalOf

\* What an execution thread does, case by case.
LEMMA Threaded ==
    ASSUME TypeOK, FirstNumber, Threads, NEW j \in Jobs, ReportStep(j) \/ Compute(j)
    PROVE  /\ exec[j].worker \in Generations /\ Alive(exec[j].worker)
           /\ worker' = worker /\ stdin' = stdin /\ stdinOpen' = stdinOpen
           /\ \/ /\ exec[j].phase = "started" /\ ThreadTo(j, "accepted")
                 /\ Send(exec[j].worker, Frame("accepted", j, 0))
              \/ /\ exec[j].phase \in {"accepted", "computing"} /\ stdout' = stdout
                 /\ \E x \in {"withdrawn", "computed", "raised"} : ThreadTo(j, x)
              \/ /\ exec[j].phase = "accepted" /\ exec[j].seq = 1 /\ Computes(j)
                 /\ Send(exec[j].worker, Frame("progress", j, 1))
              \/ /\ exec[j].phase \in {"withdrawn", "computed", "raised"} /\ ThreadTo(j, "over")
                 /\ \E kind \in {"cancelled", "completed", "failed"} :
                       Send(exec[j].worker, Frame(kind, j, exec[j].seq))
<1>0. exec[j].phase # "none" => exec[j].worker \in Generations
  BY Typed DEF Threads, Execs
<1>1. CASE Acknowledge(j)
  BY <1>0, <1>1 DEF Acknowledge, Runs
<1>2. CASE Begin(j)
  BY <1>0, <1>2 DEF Begin, Runs, Computes, FirstNumber
<1>3. CASE Report(j)
  BY <1>0, <1>3, Terminals DEF Report
<1>4. CASE Compute(j)
  BY <1>0, <1>4 DEF Compute, Runs, pipes
<1> QED
  BY <1>1, <1>2, <1>3, <1>4 DEF ReportStep

LEMMA ThreadTypes ==
    ASSUME TypeOK, FirstNumber, Threads, NEW j \in Jobs, ReportStep(j) \/ Compute(j)
    PROVE  /\ worker' \in [Generations -> Workers] /\ stdin' \in [Generations -> Seq(Frames)]
           /\ stdinOpen' \in [Generations -> BOOLEAN] /\ stdout' \in [Generations -> Seq(Frames)]
           /\ exec' \in [Jobs -> Execs]
<1>1. exec[j].worker \in Generations /\ worker' = worker /\ stdin' = stdin /\ stdinOpen' = stdinOpen
  BY Threaded
<1>2. \A kind \in Events : \A n \in 0 .. 2 : Frame(kind, j, n) \in Frames
  BY FramesAre, Numbered
<1>3. exec' \in [Jobs -> Execs]
  BY Threaded, ThreadToDoes, ComputesDoes
<1>4. exec[j].seq \in 0 .. 2 /\ 0 \in 0 .. 2 /\ 1 \in 0 .. 2
  BY Typed DEF Execs
<1>5. /\ Frame("accepted", j, 0) \in Frames /\ Frame("progress", j, 1) \in Frames
      /\ \A kind \in {"cancelled", "completed", "failed"} : Frame(kind, j, exec[j].seq) \in Frames
  BY <1>2, <1>4 DEF Events, Sequenced
<1>6. stdout' \in [Generations -> Seq(Frames)]
  BY <1>1, <1>5, Threaded, SendDoes, Typed
<1> QED
  BY <1>1, <1>3, <1>6, Typed

LEMMA TypesKept ==
    ASSUME SupervisorInv, Next
    PROVE  TypeOK'
<1> USE DEF SupervisorInv
<1>1. CASE WorkerStep
  <2>1. /\ worker' \in [Generations -> Workers] /\ stdin' \in [Generations -> Seq(Frames)]
        /\ stdinOpen' \in [Generations -> BOOLEAN] /\ stdout' \in [Generations -> Seq(Frames)]
        /\ exec' \in [Jobs -> Execs]
    BY <1>1, MainTypes, ThreadTypes DEF WorkerStep
  <2> QED
    BY <1>1, <2>1, Typed, TypedNext DEF WorkerStep, connection, control
<1>2. CASE ManagerStep
  BY <1>2, StartTypes, HandshakeTypes, StopTypes DEF ManagerStep
<1>3. CASE \E g \in Generations : ReaderStep(g)
  BY <1>3, ReaderTypes
<1>4. CASE \E v \in Validations : Validate(v) \/ ValidationTimeout(v) \/ IssueReceipt(v)
  BY <1>4, ValidationTypes
<1>5. CASE \E j \in Jobs, broken \in BOOLEAN : Dispatch(j, broken)
  BY <1>5, DispatchTypes
<1>6. CASE \E j \in Jobs : CallerStep(j) \/ Deadline(j)
  BY <1>6, CallerTypes
<1>7. CASE \E j \in Jobs : RequestCancel(j) \/ Cancel(j) \/ TimerStep(j)
  BY <1>7, CancelTypes
<1> QED
  BY <1>1, <1>2, <1>3, <1>4, <1>5, <1>6, <1>7 DEF Next

-------------------------------------------------------------------------------
(* Steps that neither start a worker, nor send or start a job *)

\* Workers may die, and frames that are no jobs may be written to them.
Calm ==
    /\ exec' = exec
    /\ \A g \in Generations :
          /\ worker'[g].run = worker[g].run
          /\ \/ worker'[g].state = worker[g].state
             \/ worker[g].state # "none" /\ worker'[g].state = "dead"
          /\ \/ stdin'[g] = stdin[g]
             \/ worker[g].state # "none"
                /\ \E e \in Frames : e.kind # "job" /\ stdin'[g] = Append(stdin[g], e)
          /\ stdout'[g] = stdout[g] \/ worker[g].state # "none"
    /\ \A j \in Jobs : caller'[j].pc = "idle" => caller[j].pc = "idle"

\* The same of the workers and the pipes alone.
LEMMA CalmIs ==
    ASSUME exec' = exec, caller' = caller, stdout' = stdout, stdin' = stdin, worker' = worker
    PROVE  Calm
BY DEF Calm

LEMMA CalmKill ==
    ASSUME TypeOK, NEW g \in Generations, worker[g].state # "none", Kill(g),
           exec' = exec, stdout' = stdout, stdin' = stdin,
           \A j \in Jobs : caller'[j].pc = "idle" => caller[j].pc = "idle"
    PROVE  Calm
BY KillDoes DEF Calm

LEMMA CalmWrite ==
    ASSUME TypeOK, NEW g \in Generations, worker[g].state # "none",
           NEW e \in Frames, e.kind # "job", Write(g, e),
           exec' = exec, stdout' = stdout, worker' = worker, caller' = caller
    PROVE  Calm
BY WriteDoes DEF Calm

\* A process that runs is one that was spawned.
LEMMA RunningIs ==
    ASSUME TypeOK, Running(process)
    PROVE  process \in Generations /\ worker[process].state \notin {"none", "dead"}
BY Typed DEF Running, Alive

LEMMA CalmManager ==
    ASSUME TypeOK, Process, Handshake \/ HandshakeTimeout \/ StopBegin \/ StopEnd
    PROVE  Calm
<1>1. CASE Handshake
  <2>1. Frame("ready", None, 0) \in Frames /\ Frame("ready", None, 0).kind # "job"
    BY FramesAre, Numbered DEF Control
  <2>2. CASE Running(process)
    <3>1. Write(process, Frame("ready", None, 0))
      BY <1>1, <2>2 DEF Handshake
    <3> QED
      BY <1>1, <2>1, <2>2, <3>1, RunningIs, CalmWrite DEF Handshake
  <2>3. CASE ~ Running(process)
    BY <1>1, <2>3, CalmIs DEF Handshake
  <2> QED
    BY <2>2, <2>3
<1>2. CASE HandshakeTimeout
  BY <1>2, CalmIs DEF HandshakeTimeout, workerVars, pipes
<1>3. CASE StopBegin
  <2>1. Frame("shutdown", None, 0) \in Frames /\ Frame("shutdown", None, 0).kind # "job"
    BY FramesAre, Numbered DEF Control
  <2>2. CASE Running(process) /\ stdinOpen[process]
    BY <1>3, <2>1, <2>2, RunningIs, CalmWrite DEF StopBegin
  <2>3. CASE ~ (Running(process) /\ stdinOpen[process])
    BY <1>3, <2>3, CalmIs DEF StopBegin
  <2> QED
    BY <2>2, <2>3
<1>4. CASE StopEnd
  <2>1. process \in Generations /\ worker[process].state # "none"
    BY <1>4, Typed DEF StopEnd, Process, Unspawned
  <2> QED
    BY <1>4, <2>1, CalmKill DEF StopEnd, pipes
<1> QED
  BY <1>1, <1>2, <1>3, <1>4

LEMMA CalmReader ==
    ASSUME TypeOK, Untouched, NEW g \in Generations, ReaderStep(g)
    PROVE  Calm
<1>1. CASE ReaderLooks(g) \/ ReaderEnds(g)
  BY <1>1, CalmIs DEF ReaderLooks, ReaderEnds, workerVars, pipes
<1>2. CASE ReadFrame(g)
  <2>1. worker[g].state # "none"
    BY <1>2 DEF ReadFrame, Untouched, Unspawned
  <2>2. \A h \in Generations : h # g => stdout'[h] = stdout[h]
    BY <1>2, Typed DEF ReadFrame
  <2> QED
    BY <1>2, <2>1, <2>2 DEF ReadFrame, Calm
<1> QED
  BY <1>1, <1>2 DEF ReaderStep

LEMMA CalmValidation ==
    ASSUME TypeOK, NEW v \in Validations, Validate(v) \/ ValidationTimeout(v) \/ IssueReceipt(v)
    PROVE  Calm
<1>1. CASE Validate(v)
  <2>1. Frame("validate", v, 0) \in Frames /\ Frame("validate", v, 0).kind # "job"
    BY FramesAre, Numbered DEF Control
  <2> QED
    BY <1>1, <2>1, RunningIs, CalmWrite DEF Validate
<1> QED
  BY <1>1, CalmIs DEF ValidationTimeout, IssueReceipt, workerVars, pipes

\* No step of execute_job after the dispatch makes its thread idle.
LEMMA CallersGoOn ==
    ASSUME TypeOK, Queues, NEW j \in Jobs, CallerStep(j) \/ Deadline(j)
    PROVE  /\ caller[j].pc # "idle" /\ caller'[j].pc # "idle"
           /\ \A i \in Jobs : i # j => caller'[i] = caller[i]
           /\ \/ caller'[j].pc = "over" /\ Finally(j)
              \/ Waiting(j) /\ activeJobs' = activeJobs /\ timers' = timers
           /\ exec' = exec /\ stdin' = stdin /\ stdout' = stdout /\ stdinOpen' = stdinOpen
           /\ UNCHANGED <<connection, reader, lastSeq, fired, cancel, request, sentTo>>
<1>1. CASE TakeFirst(j)
  BY <1>1, CallerToDoes, ReturnsDoes DEF TakeFirst, Waiting, workerVars, pipes
<1>2. CASE AdmissionTimeout(j)
  BY <1>2, ReturnsDoes DEF AdmissionTimeout, workerVars, pipes
<1>3. CASE TakeEvent(j)
  <2> DEFINE kind == Head(queue[j]).kind
  <2>1. kind \in Events
    <3>1. Head(queue[j]) = queue[j][1] /\ 1 \in DOMAIN queue[j]
      BY <1>3, Typed, Taken DEF TakeEvent
    <3> QED
      BY <3>1 DEF Queues
  <2>2. \/ caller' = caller /\ activeJobs' = activeJobs /\ timers' = timers
        \/ kind \in {"completed", "failed", "cancelled", "fault"} /\ Returns(j, kind) /\ Finally(j)
    BY <1>3, <2>1 DEF TakeEvent, Events, Sequenced
  <2> QED
    BY <1>3, <2>2, ReturnsDoes DEF TakeEvent, Waiting, workerVars, pipes
<1>4. CASE PollBegins(j)
  BY <1>4, CallerToDoes DEF PollBegins, Waiting, workerVars, pipes, control
<1>5. CASE PollEnds(j)
  BY <1>5, CallerToDoes, ReturnsDoes DEF PollEnds, Waiting, workerVars, pipes
<1>6. CASE Deadline(j)
  BY <1>6, ReturnsDoes DEF Deadline, pipes
<1> QED
  BY <1>1, <1>2, <1>3, <1>4, <1>5, <1>6 DEF CallerStep

LEMMA CalmCaller ==
    ASSUME TypeOK, Queues, NEW j \in Jobs, CallerStep(j) \/ Deadline(j)
    PROVE  Calm
<1>1. exec' = exec /\ stdin' = stdin /\ stdout' = stdout
      /\ \A i \in Jobs : caller'[i].pc = "idle" => caller[i].pc = "idle"
  BY CallersGoOn
<1>2. CASE worker' = worker
  BY <1>1, <1>2 DEF Calm
<1>3. CASE worker' # worker
  <2>1. Running(process) /\ Kill(process)
    BY <1>3 DEF CallerStep, TakeFirst, AdmissionTimeout, TakeEvent, PollBegins, PollEnds,
                Deadline, workerVars
  <2> QED
    BY <1>1, <2>1, RunningIs, CalmKill
<1> QED
  BY <1>2, <1>3

LEMMA CalmCancel ==
    ASSUME TypeOK, NEW j \in Jobs, RequestCancel(j) \/ Cancel(j) \/ TimerStep(j)
    PROVE  Calm
<1>1. CASE RequestCancel(j) \/ TimerFires(j)
  BY <1>1, CalmIs DEF RequestCancel, TimerFires, workerVars, pipes
<1>2. CASE Cancel(j)
  <2>1. Frame("cancel", j, 0) \in Frames /\ Frame("cancel", j, 0).kind # "job"
    BY FramesAre, Numbered DEF Control
  <2>2. CASE Running(process) /\ j \in activeJobs
    BY <1>2, <2>1, <2>2, RunningIs, CalmWrite DEF Cancel
  <2>3. CASE ~ (Running(process) /\ j \in activeJobs)
    BY <1>2, <2>3, CalmIs DEF Cancel
  <2> QED
    BY <2>2, <2>3
<1>3. CASE ForceKill(j)
  <2>1. CASE StillRunning(j)
    BY <1>3, <2>1, RunningIs, CalmKill DEF ForceKill, StillRunning, pipes
  <2>2. CASE ~ StillRunning(j)
    BY <1>3, <2>2, CalmIs DEF ForceKill, pipes
  <2> QED
    BY <2>1, <2>2
<1> QED
  BY <1>1, <1>2, <1>3 DEF TimerStep

LEMMA CalmCrash ==
    ASSUME TypeOK, NEW g \in Generations, Crash(g), caller' = caller
    PROVE  Calm
BY CalmKill DEF Crash, Alive, pipes

\* The frames a calm step leaves in the pipes, and the workers it leaves alive.
LEMMA CalmPipes ==
    ASSUME TypeOK, Calm, NEW g \in Generations
    PROVE  /\ \A i \in DOMAIN stdin'[g] : stdin'[g][i].kind = "job" =>
                 i \in DOMAIN stdin[g] /\ stdin'[g][i] = stdin[g][i]
           /\ stdin[g] # << >> => stdin'[g] # << >> /\ Head(stdin'[g]) = Head(stdin[g])
           /\ worker[g].state = "none" => stdin'[g] = stdin[g] /\ stdout'[g] = stdout[g]
           /\ worker'[g].state = "none" <=> worker[g].state = "none"
<1>1. CASE stdin'[g] = stdin[g]
  BY <1>1 DEF Calm
<1>2. ASSUME NEW e \in Frames, e.kind # "job", stdin'[g] = Append(stdin[g], e),
             worker[g].state # "none"
      PROVE  /\ \A i \in DOMAIN stdin'[g] : stdin'[g][i].kind = "job" =>
                   i \in DOMAIN stdin[g] /\ stdin'[g][i] = stdin[g][i]
             /\ stdin[g] # << >> => stdin'[g] # << >> /\ Head(stdin'[g]) = Head(stdin[g])
  <2>1. stdin[g] \in Seq(Frames)
    BY Typed
  <2> QED
    BY <1>2, <2>1, Appended
<1>3. worker[g].state = "none" => stdin'[g] = stdin[g] /\ stdout'[g] = stdout[g]
  BY DEF Calm
<1>4. worker'[g].state = "none" <=> worker[g].state = "none"
  BY DEF Calm
<1> QED
  BY <1>1, <1>2, <1>3, <1>4 DEF Calm

\* What a calm step keeps.
LEMMA CalmKeeps ==
    ASSUME SupervisorInv, TypeOK', Calm
    PROVE  /\ FirstNumber' /\ Untouched' /\ JobFrames' /\ Threads'
           /\ \A g \in Generations : Doomed(g) => Doomed(g)'
<1> USE DEF SupervisorInv
<1>1. FirstNumber'
  BY DEF Calm, FirstNumber
<1>2. Untouched'
  BY CalmPipes DEF Untouched, Unspawned
<1>3. JobFrames'
  <2>1. \A g \in Generations : \A i \in DOMAIN stdin'[g] : JobAt(g, i)' =>
            JobAt(g, i) /\ stdin'[g][i] = stdin[g][i]
    BY CalmPipes DEF JobAt
  <2>2. \A g \in Generations : \A i \in DOMAIN stdin'[g] : JobAt(g, i)' =>
          /\ stdin'[g][i].id \in Jobs
          /\ exec'[stdin'[g][i].id].phase = "none"
          /\ caller'[stdin'[g][i].id].pc # "idle"
    BY <2>1 DEF JobFrames, JobAt, Calm
  <2>3. ASSUME NEW g \in Generations, NEW h \in Generations,
               NEW i \in DOMAIN stdin'[g], NEW k \in DOMAIN stdin'[h],
               JobAt(g, i)', JobAt(h, k)', stdin'[g][i].id = stdin'[h][k].id
        PROVE  g = h /\ i = k
    BY <2>1, <2>3 DEF JobFrames, JobAt
  <2> QED
    BY <2>2, <2>3 DEF JobFrames
<1>4. Threads'
  <2>1. \A g \in Generations : worker[g].state \in {"serving", "joining", "dead"} =>
                               worker'[g].state \in {"serving", "joining", "dead"}
    BY DEF Calm
  <2>2. \A j \in Jobs : exec[j].worker # None => exec[j].worker \in Generations
    BY Typed DEF Execs
  <2>3. \A j \in Jobs : exec[j].worker # None =>
                        worker'[exec[j].worker].run = worker[exec[j].worker].run
    BY <2>2 DEF Calm
  <2>4. \A j \in Jobs : UnderWay(j)' <=> UnderWay(j)
    BY DEF UnderWay, Calm
  <2>5. \A j \in Jobs : UnderWay(j) => exec[j].worker # None
    BY DEF UnderWay, Threads
  <2>6. \A j \in Jobs :
          /\ exec'[j].worker = None <=> exec'[j].phase = "none"
          /\ exec'[j].worker # None => worker'[exec'[j].worker].state \in {"serving", "joining", "dead"}
    BY <2>1, <2>2 DEF Threads, Calm
  <2>7. \A j \in Jobs : caller'[j].pc = "idle" => exec'[j].phase = "none"
    BY DEF Threads, Calm
  <2>8. \A j \in Jobs : UnderWay(j)' => worker'[exec'[j].worker].run = j
    BY <2>3, <2>4, <2>5 DEF Threads, Calm
  <2> QED
    BY <2>6, <2>7, <2>8 DEF Threads
<1>5. ASSUME NEW g \in Generations, Doomed(g)
      PROVE  Doomed(g)'
  <2>1. stdin[g] # << >> => stdin'[g] # << >> /\ Head(stdin'[g]) = Head(stdin[g])
    BY CalmPipes
  <2>2. worker'[g].state \in {worker[g].state, "dead"}
    BY DEF Calm
  <2> QED
    BY <1>5, <2>1, <2>2 DEF Doomed
<1> QED
  BY <1>1, <1>2, <1>3, <1>4, <1>5

-------------------------------------------------------------------------------
(* The start of a worker, and the dispatch of a job *)

LEMMA StartKeeps ==
    ASSUME SupervisorInv, TypeOK', NEW g \in Generations, Start(g)
    PROVE  /\ FirstNumber' /\ Untouched' /\ JobFrames' /\ Threads'
           /\ \A h \in Generations : Doomed(h) => Doomed(h)'
           /\ worker[g].state = "none" /\ worker'[g].state = "starting"
           /\ \A h \in Generations : h # g => worker'[h] = worker[h]
<1> USE DEF SupervisorInv
<1>1. worker[g].state = "none"
  BY DEF Start, Spawned
<1>2. /\ worker'[g].state = "starting" /\ worker'[g].run = worker[g].run
      /\ \A h \in Generations : h # g => worker'[h] = worker[h]
  BY MainThreadDoes DEF Start
<1>3. stdin' = stdin /\ stdout' = stdout /\ exec' = exec /\ caller' = caller
  BY DEF Start, pipes
<1>4. FirstNumber' /\ Untouched'
  BY <1>2, <1>3 DEF FirstNumber, Untouched, Unspawned
<1>5. JobFrames'
  BY <1>3 DEF JobFrames, JobAt
<1>6. Threads'
  <2>1. \A j \in Jobs : exec[j].worker # None => exec[j].worker \in Generations /\ exec[j].worker # g
    BY <1>1, Typed DEF Threads, Execs
  <2>2. \A j \in Jobs : UnderWay(j)' <=> UnderWay(j)
    BY <1>3 DEF UnderWay
  <2>3. \A j \in Jobs : exec[j].worker # None => worker'[exec[j].worker] = worker[exec[j].worker]
    BY <1>2, <2>1
  <2>4. \A j \in Jobs : UnderWay(j) => exec[j].worker # None
    BY DEF UnderWay, Threads
  <2>5. \A j \in Jobs : UnderWay(j)' => worker'[exec'[j].worker].run = j
    BY <1>3, <2>2, <2>3, <2>4 DEF Threads
  <2>6. \A j \in Jobs :
          /\ exec'[j].worker = None <=> exec'[j].phase = "none"
          /\ exec'[j].worker # None => worker'[exec'[j].worker].state \in {"serving", "joining", "dead"}
          /\ caller'[j].pc = "idle" => exec'[j].phase = "none"
    BY <1>3, <2>3 DEF Threads
  <2> QED
    BY <2>5, <2>6 DEF Threads
<1>7. \A h \in Generations : Doomed(h) => Doomed(h)'
  BY <1>1, <1>2, <1>3 DEF Doomed
<1> QED
  BY <1>1, <1>2, <1>4, <1>5, <1>6, <1>7

\* A job that is sent.
Sent(j) ==
    /\ Running(process) /\ caller[j].pc = "idle" /\ lock = "free" /\ cancel[j] = "none"
    /\ activeJobs' = activeJobs \cup {j}
    /\ Write(process, Frame("job", j, 0))
    /\ sentTo' = [sentTo EXCEPT ![j] = process]
    /\ CallerTo(j, "admitting") /\ worker' = worker
    /\ exec' = exec /\ stdout' = stdout
    /\ UNCHANGED <<connection, reader, lastSeq, queue, control>>

\* A job that is not: the thread returns at once, and the worker may have died.
NotSent(j) ==
    /\ caller[j].pc = "idle" /\ lock = "free"
    /\ activeJobs' \in {activeJobs, activeJobs \cup {j}}
    /\ \E o \in {"lost", "cancelled", "unsent"} : Returns(j, o)
    /\ worker' = worker \/ (Running(process) /\ Kill(process))
    /\ stdin' = stdin /\ sentTo' = sentTo /\ exec' = exec /\ stdout' = stdout
    /\ UNCHANGED <<connection, reader, lastSeq, queue, control>>

LEMMA Dispatched ==
    ASSUME TypeOK, NEW j \in Jobs, NEW broken \in BOOLEAN, Dispatch(j, broken)
    PROVE  Sent(j) \/ NotSent(j)
<1>1. cancel[j] = "none" \/ CancellationRequested(j)
  BY DEF CancellationRequested
<1> QED
  BY <1>1 DEF Dispatch, Sent, NotSent, CancellationRequested

LEMMA CalmNotSent ==
    ASSUME TypeOK, NEW j \in Jobs, NotSent(j)
    PROVE  /\ Calm /\ caller'[j].pc = "over"
           /\ \A i \in Jobs : i # j => caller'[i] = caller[i]
<1>1. caller'[j].pc = "over" /\ \A i \in Jobs : i # j => caller'[i] = caller[i]
  BY ReturnsDoes DEF NotSent
<1>2. CASE worker' = worker
  BY <1>1, <1>2 DEF NotSent, Calm
<1>3. CASE Running(process) /\ Kill(process)
  BY <1>1, <1>3, RunningIs, CalmKill DEF NotSent
<1> QED
  BY <1>1, <1>2, <1>3 DEF NotSent

LEMMA SentDoes ==
    ASSUME TypeOK, NEW j \in Jobs, Sent(j)
    PROVE  LET e == Frame("job", j, 0) IN
           /\ process \in Generations /\ worker[process].state \notin {"none", "dead"}
           /\ stdin'[process] = Append(stdin[process], e) /\ e.kind = "job" /\ e.id = j
           /\ \A h \in Generations : h # process => stdin'[h] = stdin[h]
           /\ stdin'[process] # << >>
           /\ Head(stdin'[process]) = IF stdin[process] = << >> THEN e ELSE Head(stdin[process])
           /\ \A i \in DOMAIN stdin'[process] :
                 \/ i \in DOMAIN stdin[process] /\ stdin'[process][i] = stdin[process][i]
                 \/ i = Len(stdin[process]) + 1 /\ stdin'[process][i] = e
           /\ caller'[j].pc = "admitting" /\ \A i \in Jobs : i # j => caller'[i] = caller[i]
<1> DEFINE e == Frame("job", j, 0)
<1>1. process \in Generations /\ worker[process].state \notin {"none", "dead"}
  BY RunningIs DEF Sent
<1>2. e \in Frames /\ e.kind = "job" /\ e.id = j
  BY FramesAre, Numbered DEF Control
<1>3. /\ stdin'[process] = Append(stdin[process], e)
      /\ \A h \in Generations : h # process => stdin'[h] = stdin[h]
  BY <1>1, <1>2, WriteDoes DEF Sent
<1>4. caller'[j].pc = "admitting" /\ \A i \in Jobs : i # j => caller'[i] = caller[i]
  BY CallerToDoes DEF Sent
<1>5. stdin[process] \in Seq(Frames)
  BY <1>1, Typed
<1> HIDE DEF e
<1>6. /\ Append(stdin[process], e) # << >>
      /\ Head(Append(stdin[process], e)) = IF stdin[process] = << >> THEN e ELSE Head(stdin[process])
      /\ \A i \in DOMAIN Append(stdin[process], e) :
            \/ i \in DOMAIN stdin[process] /\ Append(stdin[process], e)[i] = stdin[process][i]
            \/ i = Len(stdin[process]) + 1 /\ Append(stdin[process], e)[i] = e
  BY <1>2, <1>5, Appended
<1> QED
  BY <1>1, <1>2, <1>3, <1>4, <1>6 DEF e

LEMMA SentKeeps ==
    ASSUME SupervisorInv, TypeOK', NEW j \in Jobs, Sent(j)
    PROVE  /\ FirstNumber' /\ Untouched' /\ JobFrames' /\ Threads'
           /\ \A g \in Generations : Doomed(g) => Doomed(g)'
<1> USE DEF SupervisorInv
<1>1. exec' = exec /\ stdout' = stdout /\ worker' = worker /\ caller[j].pc = "idle"
  BY DEF Sent
<1>2. exec[j].phase = "none"
  BY <1>1 DEF Threads
<1>3. FirstNumber'
  BY <1>1 DEF FirstNumber
<1>4. Untouched'
  BY <1>1, SentDoes DEF Untouched, Unspawned
<1>5. JobFrames'
  <2>1. \A g \in Generations : \A i \in DOMAIN stdin'[g] : JobAt(g, i)' =>
          \/ JobAt(g, i) /\ stdin'[g][i] = stdin[g][i] /\ stdin[g][i].id # j
          \/ g = process /\ i = Len(stdin[process]) + 1 /\ stdin'[g][i].id = j
    BY <1>1, SentDoes DEF JobAt, JobFrames
  <2>2. ASSUME NEW g \in Generations, NEW i \in DOMAIN stdin'[g], JobAt(g, i)'
        PROVE  /\ stdin'[g][i].id \in Jobs
               /\ exec'[stdin'[g][i].id].phase = "none"
               /\ caller'[stdin'[g][i].id].pc # "idle"
    <3>1. CASE JobAt(g, i) /\ stdin'[g][i] = stdin[g][i] /\ stdin[g][i].id # j
      BY <1>1, <3>1, SentDoes DEF JobFrames, JobAt
    <3>2. CASE stdin'[g][i].id = j
      BY <1>1, <1>2, <3>2, SentDoes
    <3> QED
      BY <2>1, <2>2, <3>1, <3>2
  <2>3. ASSUME NEW g \in Generations, NEW h \in Generations,
               NEW i \in DOMAIN stdin'[g], NEW k \in DOMAIN stdin'[h],
               JobAt(g, i)', JobAt(h, k)', stdin'[g][i].id = stdin'[h][k].id
        PROVE  g = h /\ i = k
    BY <2>1, <2>3 DEF JobFrames, JobAt
  <2> QED
    BY <2>2, <2>3 DEF JobFrames
<1>6. Threads'
  <2>1. \A i \in Jobs : caller'[i].pc = "idle" => caller[i].pc = "idle"
    BY SentDoes
  <2> QED
    BY <1>1, <2>1 DEF Threads, UnderWay
<1>7. \A g \in Generations : Doomed(g) => Doomed(g)'
  BY <1>1, SentDoes DEF Doomed
<1> QED
  BY <1>3, <1>4, <1>5, <1>6, <1>7

-------------------------------------------------------------------------------
(* The main thread of a worker *)

\* What is left when the first frame has been read: no frame of a job that was started.
LEMMA ReadKeepsFrames ==
    ASSUME SupervisorInv, NEW g \in Generations, stdin[g] # << >>, Reads(g), caller' = caller,
           \A j \in Jobs : exec'[j].phase = exec[j].phase \/ (JobAt(g, 1) /\ j = stdin[g][1].id)
    PROVE  JobFrames'
<1> USE DEF SupervisorInv
<1> DEFINE at(h, i) == IF h = g THEN i + 1 ELSE i
<1>1. stdin[g] \in Seq(Frames) /\ 1 \in DOMAIN stdin[g]
  BY Typed, Taken
<1>2. \A i \in DOMAIN stdin'[g] :
         i + 1 \in DOMAIN stdin[g] /\ i \in Nat /\ i + 1 # 1 /\ stdin'[g][i] = stdin[g][i + 1]
  <2>1. stdin'[g] = Tail(stdin[g])
    BY ReadsDoes
  <2>2. \A i \in DOMAIN Tail(stdin[g]) :
           i + 1 \in DOMAIN stdin[g] /\ i \in Nat /\ Tail(stdin[g])[i] = stdin[g][i + 1]
    BY <1>1, Taken
  <2> QED
    BY <2>1, <2>2
<1>3. ASSUME NEW h \in Generations, NEW i \in DOMAIN stdin'[h], JobAt(h, i)'
      PROVE  /\ i \in Nat /\ at(h, i) \in DOMAIN stdin[h] /\ JobAt(h, at(h, i))
             /\ stdin'[h][i] = stdin[h][at(h, i)]
             /\ h = g => at(h, i) # 1
  <2>1. CASE h = g
    BY <1>2, <1>3, <2>1 DEF JobAt
  <2>2. CASE h # g
    <3>1. stdin'[h] = stdin[h] /\ stdin[h] \in Seq(Frames)
      BY <2>2, ReadsDoes, Typed
    <3> QED
      BY <1>3, <2>2, <3>1 DEF JobAt
  <2> QED
    BY <2>1, <2>2
<1>4. \A h \in Generations, i \in Nat, k \in Nat : at(h, i) = at(h, k) => i = k
  OBVIOUS
<1> HIDE DEF at
<1>5. ASSUME NEW h \in Generations, NEW i \in DOMAIN stdin'[h], JobAt(h, i)'
      PROVE  /\ stdin'[h][i].id \in Jobs
             /\ exec'[stdin'[h][i].id].phase = "none"
             /\ caller'[stdin'[h][i].id].pc # "idle"
  <2>1. /\ at(h, i) \in DOMAIN stdin[h] /\ JobAt(h, at(h, i))
        /\ stdin'[h][i] = stdin[h][at(h, i)] /\ (h = g => at(h, i) # 1)
    BY <1>3, <1>5
  <2>2. ~ (JobAt(g, 1) /\ stdin'[h][i].id = stdin[g][1].id)
    BY <1>1, <2>1 DEF JobFrames
  <2> QED
    BY <2>1, <2>2 DEF JobFrames
<1>6. ASSUME NEW h \in Generations, NEW l \in Generations,
             NEW i \in DOMAIN stdin'[h], NEW k \in DOMAIN stdin'[l],
             JobAt(h, i)', JobAt(l, k)', stdin'[h][i].id = stdin'[l][k].id
      PROVE  h = l /\ i = k
  <2>1. /\ at(h, i) \in DOMAIN stdin[h] /\ JobAt(h, at(h, i))
        /\ stdin'[h][i] = stdin[h][at(h, i)] /\ i \in Nat
    BY <1>3, <1>6
  <2>2. /\ at(l, k) \in DOMAIN stdin[l] /\ JobAt(l, at(l, k))
        /\ stdin'[l][k] = stdin[l][at(l, k)] /\ k \in Nat
    BY <1>3, <1>6
  <2>3. h = l /\ at(h, i) = at(l, k)
    BY <1>6, <2>1, <2>2 DEF JobFrames
  <2> QED
    BY <1>4, <2>1, <2>2, <2>3
<1> QED
  BY <1>5, <1>6 DEF JobFrames

\* The state of the main thread goes forward.
LEMMA MainGoesOn ==
    ASSUME SupervisorInv, NEW g \in Generations, MainStep(g)
    PROVE  /\ \A h \in Generations : h # g => worker'[h] = worker[h] /\ stdin'[h] = stdin[h]
                                              /\ stdout'[h] = stdout[h]
           /\ worker[g].state \notin {"none", "dead"}
           /\ worker'[g].state # "none" /\ worker'[g].state # "starting"
           /\ worker[g].state \in {"serving", "joining"} =>
                 worker'[g].state \in {worker[g].state, "joining", "dead"}
           /\ worker'[g].state = "dead" => worker[g].state = "joining"
           /\ worker'[g].state = "serving" =>
                 \/ worker[g].state = "serving"
                 \/ worker[g].state = "greeted" /\ stdin[g] # << >> /\ Head(stdin[g]).kind = "ready"
           /\ worker[g].state = "starting" => worker'[g].state = "greeted" /\ stdin' = stdin
           /\ worker[g].state = "greeted" => worker'[g].state \in {"serving", "joining"}
           /\ stdin' = stdin \/ (stdin[g] # << >> /\ Reads(g))
           /\ stdinOpen' = stdinOpen
<1> USE DEF SupervisorInv
<1>1. CASE SayHello(g)
  <2>1. Frame("hello", None, 0) \in Frames
    BY FramesAre, Numbered
  <2> QED
    BY <1>1, <2>1, MainThreadDoes, SendDoes DEF SayHello
<1>2. CASE Confirm(g)
  <2>1. Frame("fault", None, 0) \in Frames
    BY FramesAre, Numbered DEF Events
  <2>2. stdin' = stdin \/ (stdin[g] # << >> /\ Reads(g))
    BY <1>2, Typed DEF Confirm, Reads
  <2>3. \A h \in Generations : h # g => stdin'[h] = stdin[h]
    BY <2>2, ReadsDoes
  <2>4. /\ \A h \in Generations : h # g => stdout'[h] = stdout[h]
        /\ \A h \in Generations : h # g => worker'[h] = worker[h]
    BY <1>2, <2>1, MainThreadDoes, SendDoes DEF Confirm
  <2>5. worker[g].state = "greeted" /\ worker'[g].state \in {"serving", "joining"}
        /\ stdinOpen' = stdinOpen
    BY <1>2, MainThreadDoes DEF Confirm
  <2>6. worker'[g].state = "serving" => stdin[g] # << >> /\ Head(stdin[g]).kind = "ready"
    BY <1>2, MainThreadDoes DEF Confirm
  <2> QED
    BY <2>2, <2>3, <2>4, <2>5, <2>6
<1>3. CASE Serve(g)
  <2> DEFINE m == Head(stdin[g])
  <2>1. \A kind \in {"response", "fault"} : Frame(kind, m.id, 0) \in Frames
    <3>1. m.id \in Nat
      BY <1>3, Served DEF Frames
    <3>2. \A n \in Nat : Frame("response", n, 0) \in Frames /\ Frame("fault", n, 0) \in Frames
      BY FramesAre, SMTT(30) DEF Events
    <3> QED
      BY <3>1, <3>2
  <2>2. \/ worker' = worker /\ stdout' = stdout
        \/ MainThread(g, "joining") /\ stdout' = stdout
        \/ /\ \E kind \in {"response", "fault"} : Send(g, Frame(kind, m.id, 0))
           /\ worker' = worker
        \/ m.id \in Jobs /\ StartJob(g, m.id)
    BY <1>3, Served
  <2>3. stdin[g] # << >> /\ Reads(g) /\ worker[g].state = "serving" /\ stdinOpen' = stdinOpen
    BY <1>3, Served
  <2> HIDE DEF m
  <2>4. /\ \A h \in Generations : h # g => worker'[h] = worker[h]
        /\ worker'[g].state \in {"serving", "joining"}
    BY <2>2, <2>3, MainThreadDoes, StartJobDoes
  <2>5. \A h \in Generations : h # g => stdout'[h] = stdout[h]
    BY <2>1, <2>2, SendDoes, StartJobDoes
  <2>6. \A h \in Generations : h # g => stdin'[h] = stdin[h]
    BY <2>3, ReadsDoes
  <2> QED
    BY <2>3, <2>4, <2>5, <2>6
<1>4. CASE EndOfInput(g) \/ Exit(g)
  BY <1>4, MainThreadDoes DEF EndOfInput, Exit, pipes
<1> QED
  BY <1>1, <1>2, <1>3, <1>4 DEF MainStep

\* A job is started by nothing but Serve.
LEMMA MainExec ==
    ASSUME SupervisorInv, NEW g \in Generations, MainStep(g)
    PROVE  \/ /\ \A j \in Jobs : /\ exec'[j].phase = exec[j].phase
                                 /\ exec'[j].worker = exec[j].worker /\ exec'[j].seq = exec[j].seq
              /\ worker'[g].run = worker[g].run
           \/ LET j == stdin[g][1].id IN
              /\ stdin[g] # << >> /\ JobAt(g, 1) /\ j \in Jobs /\ ~ Busy(g) /\ Reads(g)
              /\ worker[g].state = "serving" /\ worker'[g].state = "serving" /\ worker'[g].run = j
              /\ exec'[j].phase = "started" /\ exec'[j].worker = g /\ exec'[j].seq = 1
              /\ \A i \in Jobs : i # j => exec'[i] = exec[i]
              /\ stdout' = stdout
<1> USE DEF SupervisorInv
<1>1. CASE SayHello(g) \/ Confirm(g) \/ EndOfInput(g) \/ Exit(g)
  BY <1>1, MainThreadDoes DEF SayHello, Confirm, EndOfInput, Exit
<1>2. CASE Serve(g)
  <2> DEFINE m == Head(stdin[g])
  <2>1. \/ worker' = worker /\ (exec' = exec \/ \E j \in Jobs : Flags(j))
        \/ MainThread(g, "joining") /\ exec' = exec
        \/ m.kind = "job" /\ ~ Busy(g) /\ m.id \in Jobs /\ StartJob(g, m.id)
    BY <1>2, Served
  <2>2. /\ stdin[g] # << >> /\ worker[g].state = "serving" /\ m = stdin[g][1]
        /\ 1 \in DOMAIN stdin[g] /\ Reads(g)
    BY <1>2, Served
  <2> HIDE DEF m
  <2>3. CASE worker' = worker /\ (exec' = exec \/ \E j \in Jobs : Flags(j))
    BY <2>3, FlagsDoes
  <2>4. CASE MainThread(g, "joining") /\ exec' = exec
    BY <2>4, MainThreadDoes
  <2>5. CASE m.kind = "job" /\ ~ Busy(g) /\ m.id \in Jobs /\ StartJob(g, m.id)
    BY <2>2, <2>5, StartJobDoes DEF JobAt
  <2> QED
    BY <2>1, <2>3, <2>4, <2>5
<1> QED
  BY <1>1, <1>2 DEF MainStep

LEMMA MainKeeps ==
    ASSUME SupervisorInv, TypeOK', NEW g \in Generations, MainStep(g), caller' = caller
    PROVE  /\ FirstNumber' /\ Untouched' /\ JobFrames' /\ Threads'
           /\ \A h \in Generations : Doomed(h) => Doomed(h)'
<1> USE DEF SupervisorInv
<1> DEFINE j == stdin[g][1].id
           Same == /\ \A i \in Jobs : /\ exec'[i].phase = exec[i].phase
                                      /\ exec'[i].worker = exec[i].worker
                                      /\ exec'[i].seq = exec[i].seq
                   /\ worker'[g].run = worker[g].run
           Starts == /\ stdin[g] # << >> /\ JobAt(g, 1) /\ j \in Jobs /\ ~ Busy(g) /\ Reads(g)
                     /\ worker[g].state = "serving" /\ worker'[g].state = "serving"
                     /\ worker'[g].run = j /\ exec'[j].phase = "started" /\ exec'[j].worker = g
                     /\ exec'[j].seq = 1 /\ \A i \in Jobs : i # j => exec'[i] = exec[i]
<1>1. Same \/ Starts
  BY MainExec
<1>2. Starts => exec[j].phase = "none" /\ caller[j].pc # "idle"
  BY DEF JobFrames, JobAt
<1>3. /\ \A h \in Generations : h # g => worker'[h] = worker[h] /\ stdin'[h] = stdin[h]
                                         /\ stdout'[h] = stdout[h]
      /\ worker[g].state \notin {"none", "dead"} /\ worker'[g].state # "none"
      /\ worker[g].state \in {"serving", "joining"} =>
            worker'[g].state \in {"serving", "joining", "dead"}
  BY MainGoesOn
<1>4. JobFrames'
  <2>1. \A i \in Jobs : exec'[i].phase = exec[i].phase \/ (JobAt(g, 1) /\ i = j)
    BY <1>1
  <2>2. CASE stdin[g] # << >> /\ Reads(g)
    BY <2>1, <2>2, ReadKeepsFrames
  <2>3. CASE stdin' = stdin
    <3>1. CASE Same
      BY <2>3, <3>1 DEF JobFrames, JobAt
    <3>2. CASE Starts
      BY <2>1, <3>2, ReadKeepsFrames
    <3> QED
      BY <1>1, <3>1, <3>2
  <2> QED
    BY <2>2, <2>3, MainGoesOn
<1> HIDE DEF j
<1>5. FirstNumber'
  BY <1>1 DEF FirstNumber
<1>6. Untouched'
  BY <1>3 DEF Untouched, Unspawned
<1>7. Threads'
  <2>1. \A i \in Jobs : exec[i].worker # None => exec[i].worker \in Generations
    BY Typed DEF Execs
  <2>2. \A i \in Jobs : exec[i].worker # None =>
            worker'[exec[i].worker].state \in {"serving", "joining", "dead"}
    BY <1>3, <2>1 DEF Threads
  <2>3. CASE Same
    <3>1. \A i \in Jobs : UnderWay(i)' <=> UnderWay(i)
      BY <2>3 DEF UnderWay
    <3>2. \A i \in Jobs : exec[i].worker # None => worker'[exec[i].worker].run = worker[exec[i].worker].run
      BY <1>3, <2>1, <2>3
    <3>3. \A i \in Jobs : UnderWay(i)' => worker'[exec'[i].worker].run = i
      BY <2>3, <3>1, <3>2 DEF Threads, UnderWay
    <3>4. \A i \in Jobs :
            /\ exec'[i].worker = None <=> exec'[i].phase = "none"
            /\ exec'[i].worker # None => worker'[exec'[i].worker].state \in {"serving", "joining", "dead"}
            /\ caller'[i].pc = "idle" => exec'[i].phase = "none"
      BY <2>2, <2>3 DEF Threads
    <3> QED
      BY <3>3, <3>4 DEF Threads
  <2>4. CASE Starts
    <3>1. g # None
      BY Numbered
    <3>2. ASSUME NEW i \in Jobs, i # j
          PROVE  /\ exec'[i].worker = None <=> exec'[i].phase = "none"
                 /\ exec'[i].worker # None => worker'[exec'[i].worker].state \in {"serving", "joining", "dead"}
                 /\ caller'[i].pc = "idle" => exec'[i].phase = "none"
      BY <2>2, <2>4, <3>2 DEF Threads
    <3>3. ASSUME NEW i \in Jobs, i # j, UnderWay(i)'
          PROVE  worker'[exec'[i].worker].run = i
      <4>1. exec'[i] = exec[i] /\ UnderWay(i) /\ exec[i].worker # None
        BY <2>4, <3>3 DEF UnderWay, Threads
      <4>2. worker[exec[i].worker].run = i /\ i # None
        BY <4>1, Numbered DEF Threads
      <4>3. exec[i].worker # g
        BY <2>4, <4>1, <4>2 DEF Busy, Finished, UnderWay
      <4> QED
        BY <1>3, <2>1, <4>1, <4>2, <4>3
    <3> QED
      BY <1>2, <2>4, <3>1, <3>2, <3>3 DEF Threads, UnderWay
  <2> QED
    BY <1>1, <2>3, <2>4
<1>8. \A h \in Generations : Doomed(h) => Doomed(h)'
  <2>1. Doomed(g) => Doomed(g)'
    BY MainGoesOn DEF Doomed
  <2> QED
    BY <1>3, <2>1 DEF Doomed
<1> QED
  BY <1>4, <1>5, <1>6, <1>7, <1>8

-------------------------------------------------------------------------------
(* The execution thread of a job *)

LEMMA ThreadKeeps ==
    ASSUME SupervisorInv, TypeOK', NEW j \in Jobs, ReportStep(j) \/ Compute(j), caller' = caller
    PROVE  /\ FirstNumber' /\ Untouched' /\ JobFrames' /\ Threads'
           /\ \A h \in Generations : Doomed(h) => Doomed(h)'
<1> USE DEF SupervisorInv
<1>1. /\ exec[j].worker \in Generations /\ Alive(exec[j].worker)
      /\ worker' = worker /\ stdin' = stdin
  BY Threaded
<1>2. /\ exec'[j].worker = exec[j].worker
      /\ exec[j].phase # "none" /\ exec'[j].phase \notin {"none", "started"}
      /\ UnderWay(j)' => UnderWay(j)
      /\ exec'[j].phase = "accepted" => exec'[j].seq = exec[j].seq /\ exec[j].phase = "started"
      /\ \A i \in Jobs : i # j => exec'[i] = exec[i]
  BY Threaded, ThreadToDoes, ComputesDoes DEF UnderWay
<1>3. FirstNumber'
  BY <1>2 DEF FirstNumber
<1>4. Untouched'
  <2>1. \A h \in Generations : h # exec[j].worker => stdout'[h] = stdout[h]
    <3>1. \A kind \in Events : \A n \in 0 .. 2 : Frame(kind, j, n) \in Frames
      BY FramesAre, Numbered
    <3>2. exec[j].seq \in 0 .. 2 /\ 0 \in 0 .. 2 /\ 1 \in 0 .. 2
      BY Typed DEF Execs
    <3>3. /\ Frame("accepted", j, 0) \in Frames /\ Frame("progress", j, 1) \in Frames
          /\ \A kind \in {"cancelled", "completed", "failed"} : Frame(kind, j, exec[j].seq) \in Frames
      BY <3>1, <3>2 DEF Events, Sequenced
    <3> QED
      BY <1>1, <3>3, Threaded, SendDoes
  <2> QED
    BY <1>1, <2>1 DEF Untouched, Unspawned, Alive
<1>5. JobFrames'
  <2>1. \A i \in Jobs : exec[i].phase = "none" => exec'[i].phase = "none"
    BY <1>2
  <2> QED
    BY <1>1, <2>1 DEF JobFrames, JobAt
<1>6. Threads'
  <2>1. \A i \in Jobs : UnderWay(i)' => UnderWay(i)
    BY <1>2 DEF UnderWay
  <2>2. \A i \in Jobs : exec'[i].worker = exec[i].worker
    BY <1>2
  <2>3. \A i \in Jobs : exec'[i].phase = "none" <=> exec[i].phase = "none"
    BY <1>2
  <2> QED
    BY <1>1, <2>1, <2>2, <2>3 DEF Threads
<1>7. \A h \in Generations : Doomed(h) => Doomed(h)'
  BY <1>1 DEF Doomed
<1> QED
  BY <1>3, <1>4, <1>5, <1>6, <1>7

-------------------------------------------------------------------------------
(* Every step, for the parts of the invariant that are about the workers alone *)

WorkersInv == FirstNumber /\ Untouched /\ JobFrames /\ Threads

LEMMA WorkersKept ==
    ASSUME SupervisorInv, Next
    PROVE  /\ TypeOK' /\ WorkersInv'
           /\ \A g \in Generations : Doomed(g) => Doomed(g)'
<1>0. TypeOK'
  BY TypesKept
<1>1. CASE WorkerStep
  <2>1. caller' = caller
    BY <1>1 DEF WorkerStep
  <2>2. \/ \E g \in Generations : MainStep(g) \/ Crash(g)
        \/ \E j \in Jobs : ReportStep(j) \/ Compute(j)
    BY <1>1 DEF WorkerStep
  <2> QED
    BY <1>0, <2>1, <2>2, MainKeeps, ThreadKeeps, CalmCrash, CalmKeeps DEF SupervisorInv, WorkersInv
<1>2. CASE \E g \in Generations : Start(g)
  BY <1>0, <1>2, StartKeeps DEF WorkersInv
<1>3. CASE Handshake \/ HandshakeTimeout \/ StopBegin \/ StopEnd
  BY <1>0, <1>3, CalmManager, CalmKeeps DEF SupervisorInv, WorkersInv
<1>4. CASE \E g \in Generations : ReaderStep(g)
  BY <1>0, <1>4, CalmReader, CalmKeeps DEF SupervisorInv, WorkersInv
<1>5. CASE \E v \in Validations : Validate(v) \/ ValidationTimeout(v) \/ IssueReceipt(v)
  BY <1>0, <1>5, CalmValidation, CalmKeeps DEF SupervisorInv, WorkersInv
<1>6. CASE \E j \in Jobs, broken \in BOOLEAN : Dispatch(j, broken)
  BY <1>0, <1>6, Dispatched, CalmNotSent, SentKeeps, CalmKeeps DEF SupervisorInv, WorkersInv
<1>7. CASE \E j \in Jobs : CallerStep(j) \/ Deadline(j)
  BY <1>0, <1>7, CalmCaller, CalmKeeps DEF SupervisorInv, WorkersInv
<1>8. CASE \E j \in Jobs : RequestCancel(j) \/ Cancel(j) \/ TimerStep(j)
  BY <1>0, <1>8, CalmCancel, CalmKeeps DEF SupervisorInv, WorkersInv
<1> QED
  BY <1>1, <1>2, <1>3, <1>4, <1>5, <1>6, <1>7, <1>8 DEF Next, ManagerStep

-------------------------------------------------------------------------------
(* What the application knows *)

\* No step but Start spawns a worker.
LEMMA SpawnedIs ==
    ASSUME SupervisorInv, Next, ~ \E g \in Generations : Start(g)
    PROVE  \A g \in Generations : Unspawned(g)' <=> Unspawned(g)
<1> USE DEF SupervisorInv
<1>0. Calm => \A g \in Generations : Unspawned(g)' <=> Unspawned(g)
  BY CalmPipes DEF Unspawned
<1>1. CASE WorkerStep
  <2>1. \/ \E g \in Generations : MainStep(g) \/ Crash(g)
        \/ \E j \in Jobs : ReportStep(j) \/ Compute(j)
    BY <1>1 DEF WorkerStep
  <2>2. caller' = caller
    BY <1>1 DEF WorkerStep
  <2>3. ASSUME NEW g \in Generations, MainStep(g)
        PROVE  \A h \in Generations : Unspawned(h)' <=> Unspawned(h)
    BY <2>3, MainGoesOn DEF Unspawned
  <2>4. ASSUME NEW j \in Jobs, ReportStep(j) \/ Compute(j)
        PROVE  \A h \in Generations : Unspawned(h)' <=> Unspawned(h)
    BY <2>4, Threaded DEF Unspawned
  <2> QED
    BY <1>0, <2>1, <2>2, <2>3, <2>4, CalmCrash
<1>3. CASE Handshake \/ HandshakeTimeout \/ StopBegin \/ StopEnd
  BY <1>0, <1>3, CalmManager
<1>4. CASE \E g \in Generations : ReaderStep(g)
  BY <1>0, <1>4, CalmReader
<1>5. CASE \E v \in Validations : Validate(v) \/ ValidationTimeout(v) \/ IssueReceipt(v)
  BY <1>0, <1>5, CalmValidation
<1>6. CASE \E j \in Jobs, broken \in BOOLEAN : Dispatch(j, broken)
  <2>1. ASSUME NEW j \in Jobs, Sent(j)
        PROVE  \A g \in Generations : Unspawned(g)' <=> Unspawned(g)
    BY <2>1 DEF Sent, Unspawned
  <2> QED
    BY <1>0, <1>6, <2>1, Dispatched, CalmNotSent
<1>7. CASE \E j \in Jobs : CallerStep(j) \/ Deadline(j)
  BY <1>0, <1>7, CalmCaller
<1>8. CASE \E j \in Jobs : RequestCancel(j) \/ Cancel(j) \/ TimerStep(j)
  BY <1>0, <1>8, CalmCancel
<1> QED
  BY <1>1, <1>3, <1>4, <1>5, <1>6, <1>7, <1>8 DEF Next, ManagerStep

LEMMA QueuesKept ==
    ASSUME SupervisorInv, Next
    PROVE  Queues'
<1> USE DEF SupervisorInv
<1>1. ASSUME NEW g \in Generations, ReadFrame(g)
      PROVE  Queues'
  <2> DEFINE m == Head(stdout[g])
  <2>1. m \in Frames
    BY <1>1, Typed, Taken DEF ReadFrame
  <2>2. queue' = queue \/ (m.kind \in Events /\ m.id \in activeJobs /\ Arrives(m.id, m))
    BY <1>1 DEF ReadFrame, Deliver, Arrives
  <2> HIDE DEF m
  <2>3. CASE queue' = queue
    BY <2>3 DEF Queues
  <2>4. CASE m.kind \in Events /\ m.id \in activeJobs /\ Arrives(m.id, m)
    <3>1. m.id \in Jobs /\ queue[m.id] \in Seq(Frames)
      BY <2>4, Typed
    <3>2. \A i \in DOMAIN queue'[m.id] : queue'[m.id][i].kind \in Events
      <4>1. queue'[m.id] = Append(queue[m.id], m)
        BY <2>1, <2>4, <3>1, ArrivesDoes
      <4>2. \A i \in DOMAIN Append(queue[m.id], m) :
               \/ i \in DOMAIN queue[m.id] /\ Append(queue[m.id], m)[i] = queue[m.id][i]
               \/ Append(queue[m.id], m)[i] = m
        BY <2>1, <3>1, Appended
      <4> QED
        BY <2>4, <3>1, <4>1, <4>2 DEF Queues
    <3> QED
      BY <2>1, <2>4, <3>1, <3>2, ArrivesDoes DEF Queues
  <2> QED
    BY <2>2, <2>3, <2>4
<1>2. ASSUME NEW j \in Jobs, TakeFirst(j) \/ TakeEvent(j)
      PROVE  Queues'
  <2>1. queue[j] # << >> /\ queue' = [queue EXCEPT ![j] = Tail(@)] /\ queue[j] \in Seq(Frames)
    BY <1>2, Typed DEF TakeFirst, TakeEvent
  <2>2. \A i \in DOMAIN Tail(queue[j]) : i + 1 \in DOMAIN queue[j] /\ Tail(queue[j])[i] = queue[j][i + 1]
    BY <2>1, Taken
  <2>3. queue'[j] = Tail(queue[j]) /\ \A i \in Jobs : i # j => queue'[i] = queue[i]
    BY <2>1, TakesDoes
  <2> QED
    BY <2>2, <2>3, ZenonT(40) DEF Queues
<1>3. ASSUME \A g \in Generations : ~ ReadFrame(g),
             \A j \in Jobs : ~ TakeFirst(j) /\ ~ TakeEvent(j)
      PROVE  queue' = queue
  <2>1. CASE WorkerStep
    BY <2>1 DEF WorkerStep
  <2>2. CASE ManagerStep
    BY <2>2 DEF ManagerStep, Start, Handshake, HandshakeTimeout, StopBegin, StopEnd
  <2>3. CASE \E g \in Generations : ReaderStep(g)
    BY <1>3, <2>3 DEF ReaderStep, ReaderLooks, ReaderEnds
  <2>4. CASE \E v \in Validations : Validate(v) \/ ValidationTimeout(v) \/ IssueReceipt(v)
    BY <2>4 DEF Validate, ValidationTimeout, IssueReceipt
  <2>5. CASE \E j \in Jobs, broken \in BOOLEAN : Dispatch(j, broken)
    BY <2>5 DEF Dispatch
  <2>6. CASE \E j \in Jobs : CallerStep(j) \/ Deadline(j)
    BY <1>3, <2>6 DEF CallerStep, AdmissionTimeout, PollBegins, PollEnds, Deadline
  <2>7. CASE \E j \in Jobs : RequestCancel(j) \/ Cancel(j) \/ TimerStep(j)
    BY <2>7 DEF RequestCancel, Cancel, TimerStep, TimerFires, ForceKill
  <2> QED
    BY <2>1, <2>2, <2>3, <2>4, <2>5, <2>6, <2>7 DEF Next
<1>4. ASSUME queue' = queue
      PROVE  Queues'
  BY <1>4 DEF Queues
<1> QED
  BY <1>1, <1>2, <1>3, <1>4

\* The parts of Process that a step of the application disturbs, one by one.
LEMMA ProcessKept ==
    ASSUME SupervisorInv, Next
    PROVE  Process'
<1> USE DEF SupervisorInv
<1>1. CASE \E g \in Generations : Start(g)
  <2>1. PICK g \in Generations : Start(g)
    BY <1>1
  <2>2. /\ worker[g].state = "none" /\ worker'[g].state = "starting"
        /\ \A h \in Generations : h # g => worker'[h] = worker[h]
    BY <2>1, StartKeeps, TypesKept
  <2>3. \A j \in Jobs : sentTo[j] # None => sentTo[j] \in Generations
    BY Typed
  <2>4. \A h \in Generations : reader'[h] = IF h = g THEN "top" ELSE reader[h]
    BY <2>1, Typed DEF Start
  <2>5. \A j \in Jobs : Waiting(j)' => j \in activeJobs'
    BY <2>1 DEF Start, Waiting, Process
  <2>6. \A h \in Generations : reader'[h] = "none" <=> Unspawned(h)'
    BY <2>2, <2>4 DEF Process, Unspawned
  <2>7. \A j \in Jobs : sentTo'[j] # None => ~ Unspawned(sentTo[j])' /\ sentTo'[j] = sentTo[j]
    BY <2>1, <2>2, <2>3 DEF Process, Unspawned, Start
  <2>8. /\ process' # None /\ lock' = "free" /\ stopping' = FALSE /\ process' = g
    BY <2>1, Numbered DEF Start
  <2> QED
    BY <2>2, <2>5, <2>6, <2>7, <2>8 DEF Process, Unspawned
<1>2. ASSUME ~ \E g \in Generations : Start(g)
      PROVE  Process'
  <2>1. \A g \in Generations : Unspawned(g)' <=> Unspawned(g)
    BY <1>2, SpawnedIs
  <2>2. process # None => process \in Generations
    BY Typed
  <2>3. \A j \in Jobs : sentTo[j] # None => sentTo[j] \in Generations
    BY Typed
  <2> DEFINE Connected == /\ process' # None => process' = process
                          /\ manager' # "idle" => process' # None
                          /\ lock' = "stop" => process' # None /\ manager' # "greeting"
                          /\ stopping' => lock' = "stop" \/ process' = None
  <2>4. CASE WorkerStep
    BY <2>1, <2>2, <2>3, <2>4 DEF WorkerStep, connection, Process, Waiting
  <2>5. CASE Handshake \/ HandshakeTimeout \/ StopBegin \/ StopEnd
    <3>1. Connected
      BY <2>5 DEF Handshake, HandshakeTimeout, StopBegin, StopEnd, Process
    <3>2. UNCHANGED <<sentTo, caller, activeJobs, reader>>
      BY <2>5 DEF Handshake, HandshakeTimeout, StopBegin, StopEnd
    <3> QED
      BY <2>1, <2>2, <2>3, <3>1, <3>2 DEF Process, Waiting
  <2>6. CASE \E g \in Generations : ReaderStep(g)
    <3>1. UNCHANGED <<process, manager, lock, stopping, sentTo, caller, activeJobs>>
      BY <2>6 DEF ReaderStep, ReaderLooks, ReaderEnds, ReadFrame, connection
    <3>2. \A g \in Generations : reader'[g] = "none" <=> reader[g] = "none"
      BY <2>6, Typed DEF ReaderStep, ReaderLooks, ReaderEnds, ReadFrame
    <3> QED
      BY <2>1, <2>2, <2>3, <3>1, <3>2 DEF Process, Waiting
  <2>7. CASE \E v \in Validations : Validate(v) \/ ValidationTimeout(v) \/ IssueReceipt(v)
    <3>1. UNCHANGED <<connection, sentTo, caller, activeJobs, reader>>
      BY <2>7 DEF Validate, ValidationTimeout, IssueReceipt
    <3> QED
      BY <2>1, <2>2, <2>3, <3>1 DEF Process, Waiting, connection
  <2>8. ASSUME NEW j \in Jobs, Sent(j)
        PROVE  Process'
    <3>1. UNCHANGED <<connection, reader>> /\ activeJobs' = activeJobs \cup {j}
      BY <2>8 DEF Sent
    <3>2. process \in Generations /\ ~ Unspawned(process)
      BY <2>8, SentDoes DEF Unspawned
    <3>3. \A i \in Jobs : sentTo'[i] = IF i = j THEN process ELSE sentTo[i]
      BY <2>8, Typed DEF Sent
    <3>4. \A i \in Jobs : Waiting(i)' => i \in activeJobs'
      BY <2>8, <3>1, SentDoes DEF Process, Waiting
    <3> QED
      BY <2>1, <2>2, <2>3, <3>1, <3>2, <3>3, <3>4 DEF Process, connection
  <2>9. ASSUME NEW j \in Jobs, NotSent(j)
        PROVE  Process'
    <3>1. UNCHANGED <<connection, reader, sentTo>> /\ activeJobs \subseteq activeJobs'
      BY <2>9 DEF NotSent
    <3>2. \A i \in Jobs : Waiting(i)' => i \in activeJobs'
      BY <2>9, <3>1, CalmNotSent DEF Process, Waiting
    <3> QED
      BY <2>1, <2>2, <2>3, <3>1, <3>2 DEF Process, connection
  <2>10. ASSUME NEW j \in Jobs, CallerStep(j) \/ Deadline(j)
         PROVE  Process'
    <3>1. UNCHANGED <<connection, reader, sentTo>>
      BY <2>10, CallersGoOn
    <3>2. \A i \in Jobs : Waiting(i)' => i \in activeJobs'
      <4>1. activeJobs' = activeJobs \/ (caller'[j].pc = "over" /\ activeJobs' = activeJobs \ {j})
        BY <2>10, CallersGoOn DEF Finally
      <4>2. \A i \in Jobs : i # j /\ Waiting(i)' => Waiting(i)
        BY <2>10, CallersGoOn DEF Waiting
      <4>3. Waiting(j)' => Waiting(j) /\ activeJobs' = activeJobs
        BY <2>10, CallersGoOn DEF Waiting
      <4> QED
        BY <4>1, <4>2, <4>3 DEF Process
    <3> QED
      BY <2>1, <2>2, <2>3, <3>1, <3>2 DEF Process, connection
  <2>11. CASE \E j \in Jobs : RequestCancel(j) \/ Cancel(j) \/ TimerStep(j)
    <3>1. UNCHANGED <<connection, sentTo, caller, activeJobs, reader>>
      BY <2>11 DEF RequestCancel, Cancel, TimerStep, TimerFires, ForceKill
    <3> QED
      BY <2>1, <2>2, <2>3, <3>1 DEF Process, Waiting, connection
  <2> QED
    BY <1>2, <2>4, <2>5, <2>6, <2>7, <2>8, <2>9, <2>10, <2>11, Dispatched DEF Next, ManagerStep
<1> QED
  BY <1>1, <1>2

\* A worker that is dead stays dead.
LEMMA DeadStays ==
    ASSUME SupervisorInv, Next
    PROVE  \A g \in Generations : worker[g].state = "dead" => worker'[g].state = "dead"
<1> USE DEF SupervisorInv
<1>0. Calm => \A g \in Generations : worker[g].state = "dead" => worker'[g].state = "dead"
  BY DEF Calm
<1>1. CASE WorkerStep
  <2>1. \/ \E g \in Generations : MainStep(g) \/ Crash(g)
        \/ \E j \in Jobs : ReportStep(j) \/ Compute(j)
    BY <1>1 DEF WorkerStep
  <2>2. caller' = caller
    BY <1>1 DEF WorkerStep
  <2>3. ASSUME NEW g \in Generations, MainStep(g)
        PROVE  \A h \in Generations : worker[h].state = "dead" => worker'[h].state = "dead"
    BY <2>3, MainGoesOn
  <2>4. ASSUME NEW j \in Jobs, ReportStep(j) \/ Compute(j)
        PROVE  worker' = worker
    BY <2>4, Threaded
  <2> QED
    BY <1>0, <2>1, <2>2, <2>3, <2>4, CalmCrash
<1>2. ASSUME NEW g \in Generations, Start(g)
      PROVE  \A h \in Generations : worker[h].state = "dead" => worker'[h].state = "dead"
  BY <1>2, StartKeeps, TypesKept
<1>3. CASE Handshake \/ HandshakeTimeout \/ StopBegin \/ StopEnd
  BY <1>0, <1>3, CalmManager
<1>4. CASE \E g \in Generations : ReaderStep(g)
  BY <1>0, <1>4, CalmReader
<1>5. CASE \E v \in Validations : Validate(v) \/ ValidationTimeout(v) \/ IssueReceipt(v)
  BY <1>0, <1>5, CalmValidation
<1>6. CASE \E j \in Jobs, broken \in BOOLEAN : Dispatch(j, broken)
  BY <1>0, <1>6, Dispatched, CalmNotSent DEF Sent
<1>7. CASE \E j \in Jobs : CallerStep(j) \/ Deadline(j)
  BY <1>0, <1>7, CalmCaller
<1>8. CASE \E j \in Jobs : RequestCancel(j) \/ Cancel(j) \/ TimerStep(j)
  BY <1>0, <1>8, CalmCancel
<1> QED
  BY <1>1, <1>2, <1>3, <1>4, <1>5, <1>6, <1>7, <1>8 DEF Next, ManagerStep

LEMMA ReadersKept ==
    ASSUME SupervisorInv, Next
    PROVE  Readers'
<1> USE DEF SupervisorInv
<1>1. \A g \in Generations : worker[g].state = "dead" => worker'[g].state = "dead"
  BY DeadStays
<1>2. process # None => process \in Generations /\ worker[process].state # "none"
  BY Typed DEF Process, Unspawned
<1>3. CASE \E g \in Generations : Start(g)
  <2>1. PICK g \in Generations : Start(g)
    BY <1>3
  <2>2. process' = g /\ reader'[g] = "top"
    BY <2>1, Typed DEF Start
  <2> QED
    BY <2>2 DEF Readers
<1>4. CASE UNCHANGED <<process, lock, reader>>
  BY <1>1, <1>2, <1>4 DEF Readers, Alive
<1>5. CASE StopBegin \/ StopEnd
  BY <1>5 DEF StopBegin, StopEnd, Readers
<1>6. ASSUME NEW g \in Generations, ReaderStep(g)
      PROVE  Readers'
  <2>1. process' = process /\ lock' = lock
    BY <1>6 DEF ReaderStep, ReaderLooks, ReaderEnds, ReadFrame, connection
  <2>2. \A h \in Generations : h # g => reader'[h] = reader[h]
    BY <1>6, Typed DEF ReaderStep, ReaderLooks, ReaderEnds, ReadFrame
  <2>3. reader'[g] = "over" => stopping \/ (~ Alive(g) /\ worker' = worker)
    BY <1>6, Typed DEF ReaderStep, ReaderLooks, ReaderEnds, ReadFrame, workerVars
  <2>4. CASE process = g /\ lock = "free" /\ reader'[g] = "over"
    BY <1>2, <2>1, <2>3, <2>4 DEF Readers, Process, Alive
  <2>5. CASE process # g
    BY <1>1, <1>2, <2>1, <2>2, <2>5 DEF Readers, Alive
  <2> QED
    BY <2>1, <2>4, <2>5 DEF Readers
<1>7. \/ \E g \in Generations : Start(g) \/ ReaderStep(g)
      \/ StopBegin \/ StopEnd \/ UNCHANGED <<process, lock, reader>>
  <2>1. CASE WorkerStep
    BY <2>1 DEF WorkerStep, connection
  <2>2. CASE ManagerStep
    BY <2>2 DEF ManagerStep, Handshake, HandshakeTimeout
  <2>3. CASE \E v \in Validations : Validate(v) \/ ValidationTimeout(v) \/ IssueReceipt(v)
    BY <2>3 DEF Validate, ValidationTimeout, IssueReceipt, connection
  <2>4. CASE \E j \in Jobs, broken \in BOOLEAN : Dispatch(j, broken)
    BY <2>4 DEF Dispatch, connection
  <2>5. CASE \E j \in Jobs : CallerStep(j) \/ Deadline(j)
    BY <2>5, CallersGoOn DEF connection
  <2>6. CASE \E j \in Jobs : RequestCancel(j) \/ Cancel(j) \/ TimerStep(j)
    BY <2>6 DEF RequestCancel, Cancel, TimerStep, TimerFires, ForceKill, connection
  <2> QED
    BY <2>1, <2>2, <2>3, <2>4, <2>5, <2>6 DEF Next
<1> QED
  BY <1>3, <1>4, <1>5, <1>6, <1>7

-------------------------------------------------------------------------------
(* A worker that start has not confirmed *)

HasReady(g) == \E i \in DOMAIN stdin[g] : stdin[g][i].kind = "ready"

\* No other frame is a confirmation, and no frame becomes one.
LEMMA WriteNotReady ==
    ASSUME TypeOK, NEW g \in Generations, NEW e \in Frames, e.kind # "ready", Write(g, e)
    PROVE  \A h \in Generations : HasReady(h)' => HasReady(h)
<1>1. stdin[g] \in Seq(Frames)
  BY Typed
<1>2. \A i \in DOMAIN Append(stdin[g], e) :
         \/ i \in DOMAIN stdin[g] /\ Append(stdin[g], e)[i] = stdin[g][i]
         \/ Append(stdin[g], e)[i] = e
  BY <1>1, Appended
<1> QED
  BY <1>2, WriteDoes DEF HasReady

LEMMA ReadNotReady ==
    ASSUME TypeOK, NEW g \in Generations, stdin[g] # << >>, Reads(g)
    PROVE  \A h \in Generations : HasReady(h)' => HasReady(h)
<1>1. \A i \in DOMAIN Tail(stdin[g]) :
           i + 1 \in DOMAIN stdin[g] /\ Tail(stdin[g])[i] = stdin[g][i + 1]
  BY Typed, Taken
<1>2. \A i \in DOMAIN Tail(stdin[g]) : Tail(stdin[g])[i].kind = "ready" => HasReady(g)
  BY <1>1 DEF HasReady
<1>3. stdin'[g] = Tail(stdin[g]) /\ \A h \in Generations : h # g => stdin'[h] = stdin[h]
  BY ReadsDoes
<1> QED
  BY <1>2, <1>3 DEF HasReady

LEMMA OnlyHandshakeConfirms ==
    ASSUME SupervisorInv, Next, ~ Handshake
    PROVE  \A g \in Generations : HasReady(g)' => HasReady(g)
<1> USE DEF SupervisorInv
<1>0. stdin' = stdin => \A g \in Generations : HasReady(g)' => HasReady(g)
  BY DEF HasReady
<1>1. CASE WorkerStep
  <2>1. ASSUME NEW g \in Generations, MainStep(g)
        PROVE  \A h \in Generations : HasReady(h)' => HasReady(h)
    BY <1>0, <2>1, MainGoesOn, ReadNotReady
  <2>2. ASSUME NEW g \in Generations, Crash(g)
        PROVE  stdin' = stdin
    BY <2>2 DEF Crash, pipes
  <2>3. ASSUME NEW j \in Jobs, ReportStep(j) \/ Compute(j)
        PROVE  stdin' = stdin
    BY <2>3, Threaded
  <2> QED
    BY <1>0, <1>1, <2>1, <2>2, <2>3 DEF WorkerStep
<1>2. CASE StopBegin
  <2>1. Frame("shutdown", None, 0) \in Frames /\ Frame("shutdown", None, 0).kind # "ready"
    BY FramesAre, Numbered DEF Control
  <2>2. stdin' = stdin \/ (process \in Generations /\ Write(process, Frame("shutdown", None, 0)))
    BY <1>2, Typed DEF StopBegin
  <2> QED
    BY <1>0, <2>1, <2>2, WriteNotReady
<1>3. ASSUME NEW v \in Validations, Validate(v)
      PROVE  \A g \in Generations : HasReady(g)' => HasReady(g)
  <2>1. Frame("validate", v, 0) \in Frames /\ Frame("validate", v, 0).kind # "ready"
    BY FramesAre, Numbered DEF Control
  <2> QED
    BY <1>3, <2>1, RunningIs, WriteNotReady DEF Validate
<1>4. ASSUME NEW j \in Jobs, Sent(j)
      PROVE  \A g \in Generations : HasReady(g)' => HasReady(g)
  <2>1. Frame("job", j, 0) \in Frames /\ Frame("job", j, 0).kind # "ready"
    BY FramesAre, Numbered DEF Control
  <2> QED
    BY <1>4, <2>1, RunningIs, WriteNotReady DEF Sent
<1>5. ASSUME NEW j \in Jobs, Cancel(j)
      PROVE  \A g \in Generations : HasReady(g)' => HasReady(g)
  <2>1. Frame("cancel", j, 0) \in Frames /\ Frame("cancel", j, 0).kind # "ready"
    BY FramesAre, Numbered DEF Control
  <2>2. stdin' = stdin \/ (Running(process) /\ Write(process, Frame("cancel", j, 0)))
    BY <1>5 DEF Cancel
  <2> QED
    BY <1>0, <2>1, <2>2, RunningIs, WriteNotReady
<1>6. \/ WorkerStep \/ StopBegin
      \/ \E v \in Validations : Validate(v)
      \/ \E j \in Jobs : Sent(j) \/ Cancel(j)
      \/ stdin' = stdin
  <2>1. CASE ManagerStep
    BY <2>1 DEF ManagerStep, Start, HandshakeTimeout, StopEnd, workerVars, pipes
  <2>2. CASE \E g \in Generations : ReaderStep(g)
    BY <2>2 DEF ReaderStep, ReaderLooks, ReaderEnds, ReadFrame, workerVars, pipes
  <2>3. CASE \E v \in Validations : Validate(v) \/ ValidationTimeout(v) \/ IssueReceipt(v)
    BY <2>3 DEF ValidationTimeout, IssueReceipt, workerVars, pipes
  <2>4. CASE \E j \in Jobs, broken \in BOOLEAN : Dispatch(j, broken)
    BY <2>4, Dispatched DEF NotSent
  <2>5. CASE \E j \in Jobs : CallerStep(j) \/ Deadline(j)
    BY <2>5, CallersGoOn
  <2>6. CASE \E j \in Jobs : RequestCancel(j) \/ Cancel(j) \/ TimerStep(j)
    BY <2>6 DEF RequestCancel, TimerStep, TimerFires, ForceKill, workerVars, pipes
  <2> QED
    BY <2>1, <2>2, <2>3, <2>4, <2>5, <2>6 DEF Next
<1> QED
  BY <1>0, <1>1, <1>2, <1>3, <1>4, <1>5, <1>6

\* The job that is sent, and the jobs that were, doom a worker that is not confirmed.
LEMMA UnconfirmedKept ==
    ASSUME SupervisorInv, Next
    PROVE  Unconfirmed'
<1> USE DEF SupervisorInv
<1>1. \A g \in Generations : Doomed(g) => Doomed(g)'
  BY WorkersKept
<1>2. process # None => process \in Generations /\ worker[process].state # "none"
  BY Typed DEF Process, Unspawned
<1>3. CASE \E g \in Generations : Start(g)
  <2>1. PICK g \in Generations : Start(g)
    BY <1>3
  <2>2. worker[g].state = "none" /\ worker'[g].state = "starting" /\ process' = g /\ stdin' = stdin
        /\ sentTo' = sentTo
    BY <2>1, StartKeeps, TypesKept DEF Start, pipes
  <2>3. stdin'[g] = << >>
    BY <2>2 DEF Untouched, Unspawned
  <2>4. ~ \E j \in Jobs : sentTo'[j] = process'
    BY <2>2, Numbered DEF Process, Unspawned
  <2> QED
    BY <2>2, <2>3, <2>4 DEF Unconfirmed
<1>4. CASE Handshake \/ StopEnd
  BY <1>4 DEF Handshake, StopEnd, Unconfirmed
<1>5. ASSUME ~ \E g \in Generations : Start(g), ~ Handshake, ~ StopEnd, manager' # "idle"
      PROVE  /\ manager # "idle" /\ process' = process
             /\ ~ HasReady(process)' /\ worker[process].state # "serving"
             /\ ~ HasReady(process) /\ process \in Generations
  <2>1. manager # "idle" /\ process' = process
    <3>1. CASE WorkerStep
      BY <1>5, <3>1 DEF WorkerStep, connection
    <3>2. CASE ManagerStep
      BY <1>5, <3>2 DEF ManagerStep, HandshakeTimeout, StopBegin
    <3>3. CASE \E g \in Generations : ReaderStep(g)
      BY <1>5, <3>3 DEF ReaderStep, ReaderLooks, ReaderEnds, ReadFrame, connection
    <3>4. CASE \E v \in Validations : Validate(v) \/ ValidationTimeout(v) \/ IssueReceipt(v)
      BY <1>5, <3>4 DEF Validate, ValidationTimeout, IssueReceipt, connection
    <3>5. CASE \E j \in Jobs, broken \in BOOLEAN : Dispatch(j, broken)
      BY <1>5, <3>5 DEF Dispatch, connection
    <3>6. CASE \E j \in Jobs : CallerStep(j) \/ Deadline(j)
      BY <1>5, <3>6, CallersGoOn DEF connection
    <3>7. CASE \E j \in Jobs : RequestCancel(j) \/ Cancel(j) \/ TimerStep(j)
      BY <1>5, <3>7 DEF RequestCancel, Cancel, TimerStep, TimerFires, ForceKill, connection
    <3> QED
      BY <3>1, <3>2, <3>3, <3>4, <3>5, <3>6, <3>7 DEF Next
  <2>2. process \in Generations /\ ~ HasReady(process) /\ worker[process].state # "serving"
    BY <1>2, <2>1 DEF Unconfirmed, Process, HasReady
  <2> QED
    BY <1>5, <2>1, <2>2, OnlyHandshakeConfirms
<1>6. ASSUME ~ \E g \in Generations : Start(g), ~ Handshake, ~ StopEnd, manager' # "idle"
      PROVE  worker'[process].state # "serving"
  <2>0. /\ worker[process].state # "serving" /\ process \in Generations
        /\ stdin[process] # << >> => Head(stdin[process]).kind # "ready"
    <3>1. stdin[process] # << >> => Head(stdin[process]) = stdin[process][1] /\ 1 \in DOMAIN stdin[process]
      BY <1>5, <1>6, Typed, Taken
    <3> QED
      BY <1>5, <1>6, <3>1 DEF HasReady
  <2>1. Calm => worker'[process].state # "serving"
    BY <2>0 DEF Calm
  <2>2. CASE WorkerStep
    <3>1. caller' = caller
      BY <2>2 DEF WorkerStep
    <3>2. ASSUME NEW g \in Generations, MainStep(g)
          PROVE  worker'[process].state # "serving"
      BY <2>0, <3>2, MainGoesOn
    <3>3. ASSUME NEW j \in Jobs, ReportStep(j) \/ Compute(j)
          PROVE  worker'[process].state # "serving"
      BY <2>0, <3>3, Threaded
    <3> QED
      BY <2>1, <2>2, <3>1, <3>2, <3>3, CalmCrash DEF WorkerStep
  <2>3. CASE ManagerStep
    BY <1>6, <2>1, <2>3, CalmManager DEF ManagerStep
  <2>4. CASE \E g \in Generations : ReaderStep(g)
    BY <2>1, <2>4, CalmReader
  <2>5. CASE \E v \in Validations : Validate(v) \/ ValidationTimeout(v) \/ IssueReceipt(v)
    BY <2>1, <2>5, CalmValidation
  <2>6. CASE \E j \in Jobs, broken \in BOOLEAN : Dispatch(j, broken)
    BY <2>0, <2>1, <2>6, Dispatched, CalmNotSent DEF Sent
  <2>7. CASE \E j \in Jobs : CallerStep(j) \/ Deadline(j)
    BY <2>1, <2>7, CalmCaller
  <2>8. CASE \E j \in Jobs : RequestCancel(j) \/ Cancel(j) \/ TimerStep(j)
    BY <2>1, <2>8, CalmCancel
  <2> QED
    BY <2>2, <2>3, <2>4, <2>5, <2>6, <2>7, <2>8 DEF Next
<1>7. ASSUME ~ \E g \in Generations : Start(g), ~ Handshake, ~ StopEnd, manager' # "idle",
             NEW j \in Jobs, sentTo'[j] = process
      PROVE  Doomed(process)'
  <2>1. CASE sentTo[j] = process
    BY <1>1, <1>5, <1>7, <2>1 DEF Unconfirmed
  <2>2. ASSUME NEW i \in Jobs, Sent(i)
        PROVE  Doomed(process)'
    <3>1. /\ stdin'[process] # << >>
          /\ Head(stdin'[process]) = IF stdin[process] = << >> THEN Frame("job", i, 0)
                                     ELSE Head(stdin[process])
          /\ Frame("job", i, 0).kind = "job"
      BY <2>2, SentDoes
    <3>2. stdin[process] # << >> => Head(stdin[process]) = stdin[process][1] /\ 1 \in DOMAIN stdin[process]
      BY <1>5, <1>7, Typed, Taken
    <3>3. Head(stdin'[process]).kind # "ready"
      BY <1>5, <1>7, <3>1, <3>2 DEF HasReady
    <3>4. worker'[process].state \in {"starting", "greeted", "joining", "dead"}
      <4>1. worker' = worker /\ worker[process].state \notin {"none", "serving"}
        BY <1>2, <1>5, <1>7, <2>2, Numbered DEF Sent
      <4>2. worker[process] \in Workers
        BY <1>5, <1>7, Typed
      <4> QED
        BY <4>1, <4>2 DEF Workers
    <3>5. process' = process
      BY <2>2 DEF Sent, connection
    <3> QED
      BY <3>1, <3>3, <3>4, <3>5 DEF Doomed
  <2>3. sentTo' = sentTo \/ \E i \in Jobs : Sent(i)
    <3>1. CASE WorkerStep
      BY <3>1 DEF WorkerStep
    <3>2. CASE ManagerStep
      BY <3>2 DEF ManagerStep, Start, Handshake, HandshakeTimeout, StopBegin, StopEnd
    <3>3. CASE \E g \in Generations : ReaderStep(g)
      BY <3>3 DEF ReaderStep, ReaderLooks, ReaderEnds, ReadFrame
    <3>4. CASE \E v \in Validations : Validate(v) \/ ValidationTimeout(v) \/ IssueReceipt(v)
      BY <3>4 DEF Validate, ValidationTimeout, IssueReceipt
    <3>5. CASE \E i \in Jobs, broken \in BOOLEAN : Dispatch(i, broken)
      BY <3>5, Dispatched DEF NotSent
    <3>6. CASE \E i \in Jobs : CallerStep(i) \/ Deadline(i)
      BY <3>6, CallersGoOn
    <3>7. CASE \E i \in Jobs : RequestCancel(i) \/ Cancel(i) \/ TimerStep(i)
      BY <3>7 DEF RequestCancel, Cancel, TimerStep, TimerFires, ForceKill
    <3> QED
      BY <3>1, <3>2, <3>3, <3>4, <3>5, <3>6, <3>7 DEF Next
  <2> QED
    BY <1>7, <2>1, <2>2, <2>3
<1>8. ASSUME ~ \E g \in Generations : Start(g), ~ Handshake, ~ StopEnd
      PROVE  Unconfirmed'
  <2>1. SUFFICES ASSUME manager' # "idle"
                 PROVE  /\ worker'[process'].state # "serving"
                        /\ \A i \in DOMAIN stdin'[process'] : stdin'[process'][i].kind # "ready"
                        /\ (\E j \in Jobs : sentTo'[j] = process') => Doomed(process)'
    BY DEF Unconfirmed
  <2>2. process' = process /\ ~ HasReady(process)'
    BY <1>5, <1>8, <2>1
  <2>3. \A j \in Jobs : sentTo'[j] = process => Doomed(process)'
    BY <1>7, <1>8, <2>1
  <2> QED
    BY <1>6, <1>8, <2>1, <2>2, <2>3 DEF HasReady
<1> QED
  BY <1>3, <1>4, <1>8

-------------------------------------------------------------------------------
(* The numbers of the events *)

\* An event in a pipe has a number that its thread has used.
Counts(m, g, threads) ==
    m.kind \in Sequenced =>
        /\ m.id \in Jobs /\ threads[m.id].worker = g
        /\ m.kind = "progress" => m.seq < threads[m.id].seq
        /\ m.kind # "progress" => m.seq = threads[m.id].seq /\ threads[m.id].phase = "over"

LEMMA NumbersAre ==
    Numbers <=> /\ \A g \in Generations : \A i \in DOMAIN stdout[g] : Counts(stdout[g][i], g, exec)
                /\ \A j \in Jobs : exec[j].phase # "over" => lastSeq[j] < exec[j].seq
BY DEF Numbers, Counts

LEMMA NumbersNext ==
    ASSUME \A g \in Generations : \A i \in DOMAIN stdout'[g] : Counts(stdout'[g][i], g, exec'),
           \A j \in Jobs : exec'[j].phase # "over" => lastSeq'[j] < exec'[j].seq
    PROVE  Numbers'
BY DEF Numbers, Counts

\* A frame that is sent is the last one, and all others are where they were.
LEMMA SendFrames ==
    ASSUME TypeOK, NEW g \in Generations, NEW e \in Frames, Send(g, e)
    PROVE  \A h \in Generations : \A i \in DOMAIN stdout'[h] :
              \/ i \in DOMAIN stdout[h] /\ stdout'[h][i] = stdout[h][i]
              \/ h = g /\ stdout'[h][i] = e
<1>1. stdout[g] \in Seq(Frames)
  BY Typed
<1>2. \A i \in DOMAIN Append(stdout[g], e) :
         \/ i \in DOMAIN stdout[g] /\ Append(stdout[g], e)[i] = stdout[g][i]
         \/ Append(stdout[g], e)[i] = e
  BY <1>1, Appended
<1> QED
  BY <1>2, SendDoes

\* The main thread sends no event that is numbered.
LEMMA MainSends ==
    ASSUME SupervisorInv, NEW g \in Generations, MainStep(g)
    PROVE  \/ stdout' = stdout
           \/ \E e \in Frames : e.kind \in {"hello", "fault", "response"} /\ Send(g, e)
                                /\ (e.kind = "hello" => SayHello(g))
<1> USE DEF SupervisorInv
<1>1. CASE SayHello(g)
  <2>1. Frame("hello", None, 0) \in Frames /\ Frame("hello", None, 0).kind = "hello"
    BY FramesAre, Numbered
  <2> QED
    BY <1>1, <2>1 DEF SayHello
<1>2. CASE Confirm(g)
  <2>1. Frame("fault", None, 0) \in Frames /\ Frame("fault", None, 0).kind = "fault"
    BY FramesAre, Numbered DEF Events
  <2> QED
    BY <1>2, <2>1 DEF Confirm
<1>3. CASE Serve(g)
  <2> DEFINE m == Head(stdin[g])
  <2>1. m.id \in Nat
    BY <1>3, Served DEF Frames
  <2>2. \/ stdout' = stdout
        \/ \E kind \in {"response", "fault"} : Send(g, Frame(kind, m.id, 0))
    BY <1>3, Served, StartJobDoes
  <2> HIDE DEF m
  <2>3. \A kind \in {"response", "fault"} :
            Frame(kind, m.id, 0) \in Frames /\ Frame(kind, m.id, 0).kind = kind
    <3>1. \A n \in Nat :
             /\ Frame("response", n, 0) \in Frames /\ Frame("response", n, 0).kind = "response"
             /\ Frame("fault", n, 0) \in Frames /\ Frame("fault", n, 0).kind = "fault"
      BY FramesAre DEF Events
    <3> QED
      BY <2>1, <3>1
  <2>4. ASSUME NEW kind \in {"response", "fault"}, Send(g, Frame(kind, m.id, 0))
        PROVE  \E e \in Frames : e.kind \in {"hello", "fault", "response"} /\ Send(g, e)
                                 /\ (e.kind = "hello" => SayHello(g))
    <3>1. Frame(kind, m.id, 0) \in Frames /\ Frame(kind, m.id, 0).kind \in {"response", "fault"}
      BY <2>3
    <3> QED
      BY <2>4, <3>1
  <2> QED
    BY <2>2, <2>4
<1>4. CASE EndOfInput(g) \/ Exit(g)
  BY <1>4 DEF EndOfInput, Exit, pipes
<1> QED
  BY <1>1, <1>2, <1>3, <1>4 DEF MainStep

LEMMA MainNumbers ==
    ASSUME SupervisorInv, NEW g \in Generations, MainStep(g), lastSeq' = lastSeq
    PROVE  Numbers'
<1> USE DEF SupervisorInv
<1>1. \A h \in Generations : \A i \in DOMAIN stdout'[h] :
         \/ i \in DOMAIN stdout[h] /\ stdout'[h][i] = stdout[h][i]
         \/ stdout'[h][i].kind \notin Sequenced
  BY MainSends, SendFrames DEF Sequenced
<1>2. \A i \in Jobs : exec[i].phase # "none" =>
         exec'[i].phase = exec[i].phase /\ exec'[i].worker = exec[i].worker /\ exec'[i].seq = exec[i].seq
  BY MainExec DEF JobFrames, JobAt
<1>3. \A i \in Jobs : exec[i].phase = "none" => exec'[i].phase # "over" /\ exec'[i].seq = 1
  <2> SUFFICES ASSUME NEW i \in Jobs, exec[i].phase = "none"
               PROVE  exec'[i].phase # "over" /\ exec'[i].seq = 1
    OBVIOUS
  <2>1. exec[i].seq = 1
    BY DEF FirstNumber
  <2> QED
    BY <2>1, MainExec
<1>4. ASSUME NEW h \in Generations, NEW i \in DOMAIN stdout'[h]
      PROVE  Counts(stdout'[h][i], h, exec')
  <2>1. CASE stdout'[h][i].kind \notin Sequenced
    BY <2>1 DEF Counts
  <2>2. CASE i \in DOMAIN stdout[h] /\ stdout'[h][i] = stdout[h][i] /\ stdout[h][i].kind \in Sequenced
    <3> DEFINE m == stdout[h][i]
    <3>1. Counts(m, h, exec) /\ stdout'[h][i] = m
      BY <2>2, NumbersAre
    <3>2. m.id \in Jobs /\ exec[m.id].phase # "none"
      BY <2>2, <3>1, Numbered DEF Counts, Threads
    <3> HIDE DEF m
    <3> QED
      BY <1>2, <3>1, <3>2 DEF Counts
  <2> QED
    BY <1>1, <2>1, <2>2
<1>5. \A j \in Jobs : exec'[j].phase # "over" => lastSeq'[j] < exec'[j].seq
  BY <1>2, <1>3, NumbersAre DEF FirstNumber
<1> QED
  BY <1>4, <1>5, NumbersNext

LEMMA ThreadNumbers ==
    ASSUME SupervisorInv, TypeOK', NEW j \in Jobs, ReportStep(j) \/ Compute(j), lastSeq' = lastSeq
    PROVE  Numbers'
<1> USE DEF SupervisorInv
<1> DEFINE w == exec[j].worker
<1>0. exec[j] \in Execs /\ exec'[j] \in Execs
  BY DEF TypeOK, WorkerTypeOK, Execs
<1>1. /\ w \in Generations /\ exec'[j].worker = w /\ exec[j].phase # "over"
      /\ exec'[j].worker = exec[j].worker
      /\ \A i \in Jobs : i # j => exec'[i] = exec[i]
      /\ exec'[j].seq \in Nat /\ exec[j].seq \in Nat /\ exec[j].seq <= exec'[j].seq
  BY <1>0, Threaded, ThreadToDoes, ComputesDoes DEF Execs
<1>2. \A h \in Generations : \A i \in DOMAIN stdout'[h] :
         \/ i \in DOMAIN stdout[h] /\ stdout'[h][i] = stdout[h][i]
         \/ h = w /\ Counts(stdout'[h][i], h, exec')
  <2>1. \A kind \in Events : \A n \in 0 .. 2 :
           /\ Frame(kind, j, n) \in Frames /\ Frame(kind, j, n).kind = kind
           /\ Frame(kind, j, n).id = j /\ Frame(kind, j, n).seq = n
    BY FramesAre, Numbered
  <2>2. exec[j].seq \in 0 .. 2 /\ 0 \in 0 .. 2 /\ 1 \in 0 .. 2
    BY <1>0 DEF Execs
  <2> HIDE DEF w
  <2>3. ASSUME Send(w, Frame("accepted", j, 0))
        PROVE  \A h \in Generations : \A i \in DOMAIN stdout'[h] :
                  \/ i \in DOMAIN stdout[h] /\ stdout'[h][i] = stdout[h][i]
                  \/ h = w /\ Counts(stdout'[h][i], h, exec')
    <3>1. Frame("accepted", j, 0) \in Frames /\ Frame("accepted", j, 0).kind \notin Sequenced
      BY <2>1, <2>2 DEF Events, Sequenced
    <3> QED
      BY <1>1, <2>3, <3>1, SendFrames DEF Counts
  <2>4. ASSUME Send(w, Frame("progress", j, 1)), exec'[j].seq = 2
        PROVE  \A h \in Generations : \A i \in DOMAIN stdout'[h] :
                  \/ i \in DOMAIN stdout[h] /\ stdout'[h][i] = stdout[h][i]
                  \/ h = w /\ Counts(stdout'[h][i], h, exec')
    <3> DEFINE e == Frame("progress", j, 1)
    <3>1. e \in Frames /\ e.kind = "progress" /\ e.id = j /\ e.seq = 1
      BY <2>1, <2>2 DEF Events, Sequenced
    <3> HIDE DEF e
    <3>2. \A h \in Generations : \A i \in DOMAIN stdout'[h] :
              \/ i \in DOMAIN stdout[h] /\ stdout'[h][i] = stdout[h][i]
              \/ h = w /\ stdout'[h][i] = e
      BY <1>1, <2>4, <3>1, SendFrames DEF e
    <3> QED
      BY <1>1, <2>4, <3>1, <3>2 DEF Counts
  <2>5. ASSUME NEW kind \in {"cancelled", "completed", "failed"}, exec'[j].phase = "over",
               exec'[j].seq = exec[j].seq, Send(w, Frame(kind, j, exec[j].seq))
        PROVE  \A h \in Generations : \A i \in DOMAIN stdout'[h] :
                  \/ i \in DOMAIN stdout[h] /\ stdout'[h][i] = stdout[h][i]
                  \/ h = w /\ Counts(stdout'[h][i], h, exec')
    <3> DEFINE e == Frame(kind, j, exec[j].seq)
    <3>1. e \in Frames /\ e.kind = kind /\ e.id = j /\ e.seq = exec[j].seq
      BY <2>1, <2>2 DEF Events, Sequenced
    <3> HIDE DEF e
    <3>2. \A h \in Generations : \A i \in DOMAIN stdout'[h] :
              \/ i \in DOMAIN stdout[h] /\ stdout'[h][i] = stdout[h][i]
              \/ h = w /\ stdout'[h][i] = e
      BY <1>1, <2>5, <3>1, SendFrames DEF e
    <3> QED
      BY <1>1, <2>5, <3>1, <3>2 DEF Counts
  <2>6. \/ Send(w, Frame("accepted", j, 0)) \/ stdout' = stdout
        \/ Send(w, Frame("progress", j, 1)) /\ exec'[j].seq = 2
        \/ /\ exec'[j].phase = "over" /\ exec'[j].seq = exec[j].seq
           /\ \E kind \in {"cancelled", "completed", "failed"} : Send(w, Frame(kind, j, exec[j].seq))
    BY Threaded, ThreadToDoes, ComputesDoes DEF w
  <2> QED
    BY <2>3, <2>4, <2>5, <2>6
<1> HIDE DEF w
<1>3. ASSUME NEW h \in Generations, NEW i \in DOMAIN stdout[h]
      PROVE  Counts(stdout[h][i], h, exec')
  <2> DEFINE m == stdout[h][i]
  <2>1. m \in Frames
    BY Typed
  <2>2. m.seq \in Nat
    BY <2>1 DEF Frames
  <2>3. Counts(m, h, exec)
    BY NumbersAre
  <2> HIDE DEF m
  <2> SUFFICES Counts(m, h, exec')
    BY DEF m
  <2>4. CASE m.id # j
    <3>1. m.id \in Jobs => exec'[m.id] = exec[m.id]
      BY <1>1, <2>4
    <3> QED
      BY <2>3, <3>1 DEF Counts
  <2>5. CASE m.id = j
    BY <1>1, <2>2, <2>3, <2>5 DEF Counts
  <2> QED
    BY <2>4, <2>5
<1>4. ASSUME NEW h \in Generations, NEW i \in DOMAIN stdout'[h]
      PROVE  Counts(stdout'[h][i], h, exec')
  <2>1. CASE i \in DOMAIN stdout[h] /\ stdout'[h][i] = stdout[h][i]
    BY <1>3, <2>1
  <2> QED
    BY <1>2, <2>1
<1>5. \A i \in Jobs : exec'[i].phase # "over" => lastSeq'[i] < exec'[i].seq
  <2>0. lastSeq[j] \in 0 .. 2
    BY Typed
  <2>1. lastSeq[j] < exec[j].seq /\ lastSeq[j] \in Nat
    BY <1>1, <2>0, NumbersAre
  <2>2. lastSeq[j] < exec'[j].seq
    BY <1>1, <2>1
  <2> QED
    BY <1>1, <2>2, NumbersAre
<1> QED
  BY <1>4, <1>5, NumbersNext

\* The frame that is read is the first one, and the others move up.
LEMMA ReadFrameDoes ==
    ASSUME SupervisorInv, NEW g \in Generations, ReadFrame(g)
    PROVE  LET m == stdout[g][1] IN
           /\ 1 \in DOMAIN stdout[g] /\ m = Head(stdout[g]) /\ m \in Frames
           /\ Counts(m, g, exec)
           /\ stdout'[g] = Tail(stdout[g])
           /\ \A i \in DOMAIN stdout'[g] :
                 i + 1 \in DOMAIN stdout[g] /\ i + 1 # 1 /\ stdout'[g][i] = stdout[g][i + 1]
           /\ \A i \in DOMAIN stdout[g] :
                 i = 1 \/ (i - 1 \in DOMAIN stdout'[g] /\ stdout'[g][i - 1] = stdout[g][i])
           /\ \A h \in Generations : h # g => stdout'[h] = stdout[h]
           /\ reader[g] = "reading" /\ reader' = [reader EXCEPT ![g] = "top"]
           /\ lastSeq' = lastSeq \/
                (m.kind \in Sequenced /\ lastSeq' = [lastSeq EXCEPT ![m.id] = m.seq])
           /\ worker' = worker /\ stdin' = stdin /\ exec' = exec
<1> USE DEF SupervisorInv
<1>1. stdout[g] \in Seq(Frames) /\ stdout[g] # << >>
  BY Typed DEF ReadFrame
<1>2. /\ stdout'[g] = Tail(stdout[g]) /\ \A h \in Generations : h # g => stdout'[h] = stdout[h]
  BY <1>1, Typed DEF ReadFrame
<1>3. 1 \in DOMAIN stdout[g] /\ stdout[g][1] = Head(stdout[g]) /\ stdout[g][1] \in Frames
  BY <1>1, Taken
<1>4. Counts(stdout[g][1], g, exec)
  BY <1>3, NumbersAre
<1>5. /\ \A i \in DOMAIN Tail(stdout[g]) :
            i + 1 \in DOMAIN stdout[g] /\ i + 1 # 1 /\ Tail(stdout[g])[i] = stdout[g][i + 1]
      /\ \A i \in DOMAIN stdout[g] :
            i = 1 \/ (i - 1 \in DOMAIN Tail(stdout[g]) /\ Tail(stdout[g])[i - 1] = stdout[g][i])
  BY <1>1, Taken
<1>6. lastSeq' = lastSeq \/ (/\ stdout[g][1].kind \in Sequenced
                             /\ lastSeq' = [lastSeq EXCEPT ![stdout[g][1].id] = stdout[g][1].seq])
  BY <1>3 DEF ReadFrame
<1>7. /\ reader[g] = "reading" /\ reader' = [reader EXCEPT ![g] = "top"]
      /\ worker' = worker /\ stdin' = stdin /\ exec' = exec
  BY DEF ReadFrame
<1> QED
  BY <1>2, <1>3, <1>4, <1>5, <1>6, <1>7

LEMMA NumbersKept ==
    ASSUME SupervisorInv, Next
    PROVE  Numbers'
<1> USE DEF SupervisorInv
<1>0. TypeOK'
  BY TypesKept
<1>1. CASE UNCHANGED <<stdout, exec, lastSeq>>
  BY <1>1 DEF Numbers
<1>2. ASSUME NEW g \in Generations, Start(g)
      PROVE  Numbers'
  <2>1. stdout' = stdout /\ exec' = exec /\ \A j \in Jobs : lastSeq'[j] = 0
    BY <1>2 DEF Start, pipes
  <2>2. \A j \in Jobs : exec[j].seq \in Nat /\ exec[j].seq # 0
    <3>1. \A t \in Execs : t.seq \in Nat /\ t.seq # 0
      BY DEF Execs
    <3> QED
      BY <3>1, Typed
  <2>3. \A j \in Jobs : lastSeq'[j] < exec'[j].seq
    BY <2>1, <2>2
  <2> QED
    BY <2>1, <2>3 DEF Numbers
<1>3. ASSUME NEW g \in Generations, ReadFrame(g)
      PROVE  Numbers'
  <2> DEFINE m == stdout[g][1]
  <2>1. Counts(m, g, exec) /\ exec' = exec
    BY <1>3, ReadFrameDoes
  <2>2. lastSeq' = lastSeq \/ (m.kind \in Sequenced /\ lastSeq' = [lastSeq EXCEPT ![m.id] = m.seq])
    BY <1>3, ReadFrameDoes
  <2>3. \A h \in Generations : \A i \in DOMAIN stdout'[h] : Counts(stdout'[h][i], h, exec)
    BY <1>3, ReadFrameDoes, NumbersAre
  <2> HIDE DEF m
  <2>4. \A j \in Jobs : exec[j].phase # "over" => lastSeq'[j] < exec[j].seq
    <3> SUFFICES ASSUME NEW j \in Jobs, exec[j].phase # "over"
                 PROVE  lastSeq'[j] < exec[j].seq
      OBVIOUS
    <3>1. lastSeq[j] < exec[j].seq
      BY NumbersAre
    <3>2. lastSeq'[j] = lastSeq[j] \/ (m.kind \in Sequenced /\ j = m.id /\ lastSeq'[j] = m.seq)
      BY <2>2, Typed
    <3> QED
      BY <2>1, <3>1, <3>2 DEF Counts
  <2> QED
    BY <2>1, <2>3, <2>4, NumbersNext
<1>4. CASE WorkerStep
  <2>1. lastSeq' = lastSeq
    BY <1>4 DEF WorkerStep
  <2>2. ASSUME NEW g \in Generations, Crash(g)
        PROVE  Numbers'
    BY <2>1, <2>2 DEF Crash, pipes, Numbers
  <2> QED
    BY <1>0, <1>4, <2>1, <2>2, MainNumbers, ThreadNumbers DEF WorkerStep
<1>5. \/ WorkerStep \/ UNCHANGED <<stdout, exec, lastSeq>>
      \/ \E g \in Generations : Start(g) \/ ReadFrame(g)
  <2>1. CASE ManagerStep
    BY <2>1 DEF ManagerStep, Handshake, HandshakeTimeout, StopBegin, StopEnd, workerVars, pipes
  <2>2. CASE \E g \in Generations : ReaderStep(g)
    BY <2>2 DEF ReaderStep, ReaderLooks, ReaderEnds, workerVars, pipes
  <2>3. CASE \E v \in Validations : Validate(v) \/ ValidationTimeout(v) \/ IssueReceipt(v)
    BY <2>3 DEF Validate, ValidationTimeout, IssueReceipt, workerVars, pipes
  <2>4. CASE \E j \in Jobs, broken \in BOOLEAN : Dispatch(j, broken)
    BY <2>4 DEF Dispatch
  <2>5. CASE \E j \in Jobs : CallerStep(j) \/ Deadline(j)
    BY <2>5, CallersGoOn
  <2>6. CASE \E j \in Jobs : RequestCancel(j) \/ Cancel(j) \/ TimerStep(j)
    BY <2>6 DEF RequestCancel, Cancel, TimerStep, TimerFires, ForceKill, workerVars, pipes
  <2> QED
    BY <2>1, <2>2, <2>3, <2>4, <2>5, <2>6 DEF Next
<1> QED
  BY <1>1, <1>2, <1>3, <1>4, <1>5

-------------------------------------------------------------------------------
(* The grace timers *)

\* A timer that is due is one that cancel has set.
LEMMA DueIsSet ==
    ASSUME SupervisorInv, NEW j \in Jobs
    PROVE  /\ timers[j].due \/ fired[j].due => cancel[j] = "done"
           /\ timers[j] \in Timer /\ fired[j] \in Timer /\ NoTimer.due = FALSE
BY Typed, NoTimerType DEF SupervisorInv, Timers

\* The timers of a job may be removed once its thread has left.
LEMMA TimersStay ==
    ASSUME SupervisorInv, Next,
           UNCHANGED <<cancel, fired, sentTo, process, sessionId, lock>>,
           \A j \in Jobs :
               \/ timers'[j] = timers[j] /\ (Waiting(j)' => Waiting(j))
               \/ timers'[j] = NoTimer /\ ~ Waiting(j)'
    PROVE  Timers'
<1> USE DEF SupervisorInv
<1>1. \A g \in Generations : Doomed(g) => Doomed(g)'
  BY WorkersKept
<1>2. process # None => process \in Generations
  BY Typed
<1>3. process # None /\ Doomed(process) => Doomed(process)'
  BY <1>1, <1>2 DEF Doomed
<1> SUFFICES ASSUME NEW j \in Jobs
             PROVE  /\ cancel'[j] # "done" => timers'[j] = NoTimer /\ fired'[j] = NoTimer
                    /\ Captures(j, timers[j])' /\ Captures(j, fired[j])'
                    /\ cancel'[j] = "done" /\ Waiting(j)' /\ lock' = "free"
                          /\ sentTo'[j] = process' /\ process' # None
                       => timers'[j].due \/ fired'[j].due \/ Doomed(process)'
  BY DEF Timers
<1>4. cancel[j] # "done" => timers[j] = NoTimer /\ fired[j] = NoTimer
  BY DEF Timers
<1>5. Captures(j, timers[j]) /\ Captures(j, fired[j])
  BY DEF Timers
<1>6. cancel[j] = "done" /\ Waiting(j) /\ lock = "free" /\ sentTo[j] = process /\ process # None
      => timers[j].due \/ fired[j].due \/ Doomed(process)
  BY DEF Timers
<1>7. Captures(j, timers[j])' /\ Captures(j, fired[j])'
  BY <1>3, <1>5, NoTimerType DEF Captures
<1> QED
  BY <1>3, <1>4, <1>6, <1>7

LEMMA StartTimers ==
    ASSUME SupervisorInv, NEW g \in Generations, Start(g)
    PROVE  Timers'
<1> USE DEF SupervisorInv
<1>1. /\ process' = g /\ worker[g].state = "none"
      /\ cancel' = cancel /\ timers' = timers /\ fired' = fired /\ sentTo' = sentTo
  BY StartKeeps, TypesKept DEF Start, Spawned, control
<1>2. \A j \in Jobs : sentTo'[j] # process'
  BY <1>1, Numbered DEF Process, Unspawned
<1> QED
  BY <1>1, <1>2 DEF Timers, Captures

LEMMA HandshakeTimers ==
    ASSUME SupervisorInv, Next, Handshake
    PROVE  Timers'
<1> USE DEF SupervisorInv
<1>1. /\ manager = "greeting" /\ lock' = lock /\ process' = process
      /\ cancel' = cancel /\ timers' = timers /\ fired' = fired /\ sentTo' = sentTo
      /\ caller' = caller
  BY DEF Handshake, control
<1>2. process \in Generations
  BY <1>1, Typed DEF Process
<1>3. \A j \in Jobs : sentTo[j] = process => Doomed(process)
  BY <1>1 DEF Unconfirmed
<1>4. Doomed(process) => Doomed(process)'
  <2>1. \A g \in Generations : Doomed(g) => Doomed(g)'
    BY WorkersKept
  <2> QED
    BY <1>1, <1>2, <2>1 DEF Doomed
<1>5. \A j \in Jobs : Captures(j, timers[j])' /\ Captures(j, fired[j])'
  BY <1>1, <1>3, <1>4 DEF Timers, Captures
<1> QED
  BY <1>1, <1>3, <1>4, <1>5 DEF Timers

LEMMA StopTimers ==
    ASSUME SupervisorInv, Next, StopBegin \/ StopEnd
    PROVE  Timers'
<1> USE DEF SupervisorInv
<1>1. CASE StopBegin
  <2>1. /\ lock' = "stop" /\ process' = process /\ sessionId' = sessionId
        /\ cancel' = cancel /\ fired' = fired /\ sentTo' = sentTo
        /\ \A j \in Jobs : timers'[j] = NoTimer
    BY <1>1 DEF StopBegin
  <2>2. process \in Generations
    BY <1>1, Typed DEF StopBegin
  <2>3. Doomed(process) => Doomed(process)'
    <3>1. \A g \in Generations : Doomed(g) => Doomed(g)'
      BY WorkersKept
    <3> QED
      BY <2>1, <2>2, <3>1 DEF Doomed
  <2>4. \A j \in Jobs : Captures(j, timers[j])' /\ Captures(j, fired[j])'
    BY <2>1, <2>3, NoTimerType DEF Timers, Captures
  <2> QED
    BY <2>1, <2>4 DEF Timers
<1>2. CASE StopEnd
  <2>1. /\ process' = None /\ cancel' = cancel /\ fired' = fired /\ timers' = timers
    BY <1>2 DEF StopEnd, control
  <2> QED
    BY <2>1 DEF Timers, Captures
<1> QED
  BY <1>1, <1>2

LEMMA SentTimers ==
    ASSUME SupervisorInv, Next, NEW j \in Jobs, Sent(j)
    PROVE  Timers'
<1> USE DEF SupervisorInv
<1>1. /\ cancel' = cancel /\ timers' = timers /\ fired' = fired /\ lock' = lock
      /\ process' = process /\ sessionId' = sessionId /\ cancel[j] = "none"
  BY DEF Sent, control, connection
<1>2. \A i \in Jobs : i # j => sentTo'[i] = sentTo[i] /\ (Waiting(i)' => Waiting(i))
  <2>1. \A i \in Jobs : i # j => sentTo'[i] = sentTo[i]
    BY Typed DEF Sent
  <2>2. \A i \in Jobs : i # j => caller'[i] = caller[i]
    BY SentDoes
  <2> QED
    BY <2>1, <2>2 DEF Waiting
<1>3. timers[j] = NoTimer /\ fired[j] = NoTimer
  BY <1>1 DEF Timers
<1>4. process \in Generations
  BY SentDoes
<1>5. Doomed(process) => Doomed(process)'
  <2>1. \A g \in Generations : Doomed(g) => Doomed(g)'
    BY WorkersKept
  <2> QED
    BY <1>1, <1>4, <2>1 DEF Doomed
<1>6. \A i \in Jobs : Captures(i, timers[i])' /\ Captures(i, fired[i])'
  <2>1. Captures(j, timers[j])' /\ Captures(j, fired[j])'
    BY <1>1, <1>3, NoTimerType DEF Captures
  <2>2. \A i \in Jobs : i # j => Captures(i, timers[i])' /\ Captures(i, fired[i])'
    BY <1>1, <1>2, <1>5 DEF Timers, Captures
  <2> QED
    BY <2>1, <2>2
<1> QED
  BY <1>1, <1>2, <1>3, <1>5, <1>6 DEF Timers

\* A worker that has been spawned and does not run is dead.
LEMMA NotRunning ==
    ASSUME SupervisorInv, process # None, ~ Running(process)
    PROVE  Doomed(process)
BY DEF SupervisorInv, Process, Running, Alive, Unspawned, Doomed

LEMMA CancelTimers ==
    ASSUME SupervisorInv, Next, NEW j \in Jobs, RequestCancel(j) \/ Cancel(j)
    PROVE  Timers'
<1> USE DEF SupervisorInv
<1>1. /\ fired' = fired /\ lock' = lock /\ process' = process /\ sessionId' = sessionId
      /\ sentTo' = sentTo /\ caller' = caller
      /\ cancel[j] # "done" /\ \A i \in Jobs : i # j => cancel'[i] = cancel[i]
  BY Typed DEF RequestCancel, Cancel, connection
<1>2. timers[j] = NoTimer /\ fired[j] = NoTimer
  BY <1>1 DEF Timers
<1>3. process # None /\ Doomed(process) => Doomed(process)'
  <2>1. \A g \in Generations : Doomed(g) => Doomed(g)'
    BY WorkersKept
  <2> QED
    BY <1>1, <2>1, Typed DEF Doomed
<1>4. CASE timers' = timers
  <2>1. \A i \in Jobs : Captures(i, timers[i])' /\ Captures(i, fired[i])'
    BY <1>1, <1>3, <1>4 DEF Timers, Captures
  <2>2. cancel'[j] = "done" /\ Waiting(j) /\ process # None => Doomed(process)
    <3>1. SUFFICES ASSUME cancel'[j] = "done", Waiting(j), process # None
                   PROVE  ~ Running(process)
      BY NotRunning
    <3>2. j \in activeJobs
      BY <3>1 DEF Process
    <3>3. Cancel(j)
      BY <3>1, Typed DEF RequestCancel
    <3>4. CASE Running(process)
      <4>1. timers' = [timers EXCEPT ![j] = Captured]
        BY <1>2, <3>2, <3>3, <3>4 DEF Cancel
      <4>2. timers'[j] = Captured /\ Captured.due = TRUE
        BY <4>1, Typed DEF Captured
      <4> QED
        BY <1>2, <1>4, <4>2, NoTimerType
    <3> QED
      BY <3>4
  <2>3. \A i \in Jobs : Waiting(i)' <=> Waiting(i)
    BY <1>1 DEF Waiting
  <2>4. ASSUME NEW i \in Jobs, i # j
        PROVE  /\ cancel'[i] # "done" => timers'[i] = NoTimer /\ fired'[i] = NoTimer
               /\ cancel'[i] = "done" /\ Waiting(i)' /\ lock' = "free"
                     /\ sentTo'[i] = process' /\ process' # None
                  => timers'[i].due \/ fired'[i].due \/ Doomed(process)'
    BY <1>1, <1>3, <1>4, <2>3, <2>4 DEF Timers
  <2>5. /\ cancel'[j] # "done" => timers'[j] = NoTimer /\ fired'[j] = NoTimer
        /\ cancel'[j] = "done" /\ Waiting(j)' /\ lock' = "free"
              /\ sentTo'[j] = process' /\ process' # None
           => timers'[j].due \/ fired'[j].due \/ Doomed(process)'
    BY <1>1, <1>2, <1>3, <1>4, <2>2, <2>3
  <2> QED
    BY <2>1, <2>4, <2>5 DEF Timers
<1>5. CASE timers' # timers
  <2>1. Cancel(j) /\ timers' = [timers EXCEPT ![j] = Captured]
    BY <1>5 DEF RequestCancel, Cancel
  <2>2. /\ timers'[j] = Captured /\ cancel'[j] = "done"
        /\ \A i \in Jobs : i # j => timers'[i] = timers[i]
    BY <2>1, Typed DEF Cancel
  <2>3. Captured.due = TRUE /\ Captured.process = process /\ Captured.session = sessionId
    BY DEF Captured
  <2>4. Captures(j, timers[j])' /\ Captures(j, fired[j])'
    BY <1>1, <1>2, <2>2, <2>3, NoTimerType DEF Captures
  <2>5. \A i \in Jobs : i # j => Captures(i, timers[i])' /\ Captures(i, fired[i])'
    BY <1>1, <1>3, <2>2 DEF Timers, Captures
  <2>6. \A i \in Jobs : Waiting(i)' <=> Waiting(i)
    BY <1>1 DEF Waiting
  <2>7. ASSUME NEW i \in Jobs, i # j
        PROVE  /\ cancel'[i] # "done" => timers'[i] = NoTimer /\ fired'[i] = NoTimer
               /\ cancel'[i] = "done" /\ Waiting(i)' /\ lock' = "free"
                     /\ sentTo'[i] = process' /\ process' # None
                  => timers'[i].due \/ fired'[i].due \/ Doomed(process)'
    BY <1>1, <1>3, <2>2, <2>6, <2>7 DEF Timers
  <2>8. \A i \in Jobs : Captures(i, timers[i])' /\ Captures(i, fired[i])'
    BY <2>4, <2>5
  <2> QED
    BY <2>2, <2>3, <2>7, <2>8 DEF Timers
<1> QED
  BY <1>4, <1>5

LEMMA FiresTimers ==
    ASSUME SupervisorInv, Next, NEW j \in Jobs, TimerFires(j)
    PROVE  Timers'
<1> USE DEF SupervisorInv
<1>1. /\ cancel' = cancel /\ lock' = lock /\ process' = process /\ sessionId' = sessionId
      /\ sentTo' = sentTo /\ caller' = caller /\ timers[j].due
  BY DEF TimerFires, connection
<1>2. fired'[j] = timers[j] /\ \A i \in Jobs : i # j => fired'[i] = fired[i]
  BY Typed DEF TimerFires
<1>3. timers'[j].due = FALSE /\ \A i \in Jobs : i # j => timers'[i] = timers[i]
  BY TimerMoves, Typed DEF TimerFires
<1>4. cancel[j] = "done"
  BY <1>1, DueIsSet
<1>5. process # None /\ Doomed(process) => Doomed(process)'
  <2>1. \A g \in Generations : Doomed(g) => Doomed(g)'
    BY WorkersKept
  <2> QED
    BY <1>1, <2>1, Typed DEF Doomed
<1>6. \A i \in Jobs : Captures(i, timers[i]) /\ Captures(i, fired[i])
  BY DEF Timers
<1>7. \A i \in Jobs : Captures(i, timers[i])' /\ Captures(i, fired[i])'
  <2>1. Captures(j, timers[j])' /\ Captures(j, fired[j])'
    BY <1>1, <1>2, <1>3, <1>5, <1>6 DEF Captures
  <2>2. \A i \in Jobs : i # j => Captures(i, timers[i])' /\ Captures(i, fired[i])'
    BY <1>1, <1>2, <1>3, <1>5, <1>6 DEF Captures
  <2> QED
    BY <2>1, <2>2
<1>8. \A i \in Jobs : Waiting(i)' <=> Waiting(i)
  BY <1>1 DEF Waiting
<1>9. ASSUME NEW i \in Jobs
      PROVE  /\ cancel'[i] # "done" => timers'[i] = NoTimer /\ fired'[i] = NoTimer
             /\ cancel'[i] = "done" /\ Waiting(i)' /\ lock' = "free"
                   /\ sentTo'[i] = process' /\ process' # None
                => timers'[i].due \/ fired'[i].due \/ Doomed(process)'
  <2>1. CASE i = j
    BY <1>1, <1>2, <1>4, <2>1
  <2>2. CASE i # j
    BY <1>1, <1>2, <1>3, <1>5, <1>8, <2>2 DEF Timers
  <2> QED
    BY <2>1, <2>2
<1> QED
  BY <1>7, <1>9 DEF Timers

\* A timer that finds its job not running any more has found a worker that will not serve.
LEMMA KillTimers ==
    ASSUME SupervisorInv, Next, NEW j \in Jobs, ForceKill(j)
    PROVE  Timers'
<1> USE DEF SupervisorInv
<1>1. /\ cancel' = cancel /\ timers' = timers /\ lock' = lock /\ process' = process
      /\ sessionId' = sessionId /\ sentTo' = sentTo /\ caller' = caller /\ fired[j].due
      /\ stdin' = stdin
  BY DEF ForceKill, connection, pipes
<1>2. fired'[j] = NoTimer /\ \A i \in Jobs : i # j => fired'[i] = fired[i]
  BY Typed DEF ForceKill
<1>3. cancel[j] = "done"
  BY <1>1, DueIsSet
<1>4. process # None /\ Doomed(process) => Doomed(process)'
  <2>1. \A g \in Generations : Doomed(g) => Doomed(g)'
    BY WorkersKept
  <2> QED
    BY <1>1, <2>1, Typed DEF Doomed
<1>5. \A i \in Jobs : Captures(i, timers[i]) /\ Captures(i, fired[i])
  BY DEF Timers
<1>6. \A i \in Jobs : Captures(i, timers[i])' /\ Captures(i, fired[i])'
  <2>1. Captures(j, timers[j])' /\ Captures(j, fired[j])'
    BY <1>1, <1>2, <1>4, <1>5, NoTimerType DEF Captures
  <2>2. \A i \in Jobs : i # j => Captures(i, timers[i])' /\ Captures(i, fired[i])'
    BY <1>1, <1>2, <1>4, <1>5 DEF Captures
  <2> QED
    BY <2>1, <2>2
<1>7. \A i \in Jobs : Waiting(i)' <=> Waiting(i)
  BY <1>1 DEF Waiting
<1>8. Waiting(j) /\ sentTo[j] = process /\ process # None => Doomed(process)'
  <2> SUFFICES ASSUME Waiting(j), sentTo[j] = process, process # None
               PROVE  Doomed(process)'
    OBVIOUS
  <2>1. CASE StillRunning(j)
    <3>1. worker'[process].state = "dead"
      BY <2>1, RunningIs, KillDoes DEF ForceKill, StillRunning
    <3> QED
      BY <1>1, <3>1 DEF Doomed
  <2>2. CASE ~ StillRunning(j)
    <3>1. j \in activeJobs
      BY DEF Process
    <3>2. fired[j].process = process /\ (fired[j].session = sessionId \/ Doomed(process))
      BY <1>1, <1>5 DEF Captures
    <3>3. Doomed(process)
      BY <2>2, <3>1, <3>2, NotRunning DEF StillRunning
    <3> QED
      BY <1>4, <3>3
  <2> QED
    BY <2>1, <2>2
<1>9. ASSUME NEW i \in Jobs
      PROVE  /\ cancel'[i] # "done" => timers'[i] = NoTimer /\ fired'[i] = NoTimer
             /\ cancel'[i] = "done" /\ Waiting(i)' /\ lock' = "free"
                   /\ sentTo'[i] = process' /\ process' # None
                => timers'[i].due \/ fired'[i].due \/ Doomed(process)'
  <2>1. CASE i = j
    BY <1>1, <1>3, <1>7, <1>8, <2>1
  <2>2. CASE i # j
    BY <1>1, <1>2, <1>4, <1>7, <2>2 DEF Timers
  <2> QED
    BY <2>1, <2>2
<1> QED
  BY <1>6, <1>9 DEF Timers

LEMMA TimersKept ==
    ASSUME SupervisorInv, Next
    PROVE  Timers'
<1> USE DEF SupervisorInv
<1>1. CASE /\ UNCHANGED <<cancel, fired, sentTo, process, sessionId, lock>>
           /\ timers' = timers /\ caller' = caller
  BY <1>1, TimersStay DEF Waiting
<1>2. ASSUME NEW j \in Jobs, NotSent(j)
      PROVE  Timers'
  <2>1. UNCHANGED <<cancel, fired, sentTo, process, sessionId, lock>> /\ timers' = timers
    BY <1>2 DEF NotSent, connection, control
  <2>2. \A i \in Jobs : Waiting(i)' => Waiting(i)
    BY <1>2, CalmNotSent DEF Waiting
  <2> QED
    BY <2>1, <2>2, TimersStay
<1>3. ASSUME NEW j \in Jobs, CallerStep(j) \/ Deadline(j)
      PROVE  Timers'
  <2>1. UNCHANGED <<cancel, fired, sentTo, process, sessionId, lock>>
    BY <1>3, CallersGoOn DEF connection
  <2>2. \A i \in Jobs : i # j => (Waiting(i)' => Waiting(i))
    BY <1>3, CallersGoOn DEF Waiting
  <2>3. \/ caller'[j].pc = "over" /\ timers'[j] = NoTimer
           /\ \A i \in Jobs : i # j => timers'[i] = timers[i]
        \/ Waiting(j) /\ timers' = timers
    BY <1>3, CallersGoOn, FinallyDoes
  <2>4. \A i \in Jobs : \/ timers'[i] = timers[i] /\ (Waiting(i)' => Waiting(i))
                        \/ timers'[i] = NoTimer /\ ~ Waiting(i)'
    BY <2>2, <2>3 DEF Waiting
  <2> QED
    BY <2>1, <2>4, TimersStay
<1>4. CASE WorkerStep
  BY <1>1, <1>4 DEF WorkerStep, connection, control
<1>5. CASE ManagerStep
  <2>1. CASE HandshakeTimeout
    BY <1>1, <2>1 DEF HandshakeTimeout, control
  <2> QED
    BY <1>5, <2>1, StartTimers, HandshakeTimers, StopTimers DEF ManagerStep
<1>6. CASE \E g \in Generations : ReaderStep(g)
  BY <1>1, <1>6 DEF ReaderStep, ReaderLooks, ReaderEnds, ReadFrame, connection, control
<1>7. CASE \E v \in Validations : Validate(v) \/ ValidationTimeout(v) \/ IssueReceipt(v)
  BY <1>1, <1>7 DEF Validate, ValidationTimeout, IssueReceipt, connection, control
<1>8. CASE \E j \in Jobs, broken \in BOOLEAN : Dispatch(j, broken)
  BY <1>2, <1>8, Dispatched, SentTimers
<1>9. CASE \E j \in Jobs : RequestCancel(j) \/ Cancel(j) \/ TimerStep(j)
  BY <1>9, CancelTimers, FiresTimers, KillTimers DEF TimerStep
<1> QED
  BY <1>3, <1>4, <1>5, <1>6, <1>7, <1>8, <1>9 DEF Next

-------------------------------------------------------------------------------
(* The invariant, and what it gives *)

LEMMA InitHolds == Init => SupervisorInv
<1> SUFFICES ASSUME Init PROVE SupervisorInv
  OBVIOUS
<1>1. TypeOK
  BY InitTypes
<1>2. FirstNumber /\ Threads
  <2>1. \A j \in Jobs : exec[j].phase = "none" /\ exec[j].worker = None /\ exec[j].seq = 1
    BY DEF Init, WorkerInit
  <2> QED
    BY <2>1 DEF FirstNumber, Threads, UnderWay
<1>3. Queues
  BY DEF Init, Queues
<1>4. \A g \in Generations : /\ stdin[g] = << >> /\ stdout[g] = << >>
                             /\ worker[g].state = "none" /\ reader[g] = "none"
  BY DEF Init, WorkerInit
<1>5. Untouched
  BY <1>4 DEF Untouched
<1>6. JobFrames
  BY <1>4 DEF JobFrames
<1>7. process = None /\ manager = "idle" /\ stopping = FALSE /\ lock = "free"
      /\ \A j \in Jobs : sentTo[j] = None /\ caller[j].pc = "idle" /\ lastSeq[j] = 0
  BY DEF Init
<1>8. Process
  BY <1>4, <1>7 DEF Process, Waiting, Unspawned
<1>9. Unconfirmed /\ Readers
  BY <1>7 DEF Unconfirmed, Readers
<1>10. Timers
  <2>1. \A j \in Jobs : timers[j] = NoTimer /\ fired[j] = NoTimer
    BY DEF Init
  <2> QED
    BY <1>7, <2>1 DEF Timers, Captures
<1>11. Numbers
  <2>1. \A j \in Jobs : exec[j].seq = 1
    BY DEF Init, WorkerInit
  <2> QED
    BY <1>4, <1>7, <2>1 DEF Numbers
<1> QED
  BY <1>1, <1>2, <1>3, <1>5, <1>6, <1>8, <1>9, <1>10, <1>11 DEF SupervisorInv

LEMMA NextKeeps ==
    ASSUME SupervisorInv, [Next]_vars
    PROVE  SupervisorInv'
<1>1. CASE Next
  BY <1>1, WorkersKept, QueuesKept, ProcessKept, UnconfirmedKept, TimersKept, NumbersKept, ReadersKept
     DEF SupervisorInv, WorkersInv
<1>2. CASE UNCHANGED vars
  <2> USE <1>2 DEF vars, workerVars, pipes, connection, control, SupervisorInv
  <2>1. TypeOK' /\ FirstNumber' /\ Queues' /\ Untouched'
    BY DEF TypeOK, WorkerTypeOK, FirstNumber, Queues, Untouched, Unspawned
  <2>2. JobFrames' /\ Threads'
    BY DEF JobFrames, JobAt, Threads, UnderWay
  <2>3. Process' /\ Readers' /\ Numbers'
    BY DEF Process, Unspawned, Waiting, Readers, Alive, Numbers
  <2>4. Unconfirmed' /\ Timers'
    BY DEF Unconfirmed, Doomed, Timers, Captures, Waiting
  <2> QED
    BY <2>1, <2>2, <2>3, <2>4
<1> QED
  BY <1>1, <1>2

\* Every reachable state of the supervisor and its workers has the invariant, whether
\* workers are slow or not, and whether writes to them fail or not.
THEOREM SupervisorInvariant == Spec => []SupervisorInv
<1>1. Init => SupervisorInv
  BY InitHolds
<1>2. SupervisorInv /\ [Next]_vars => SupervisorInv'
  BY NextKeeps
<1> QED
  BY <1>1, <1>2, PTL DEF Spec

\* Every variable of the supervisor and of the workers keeps its type.
THEOREM TypeCorrect == Spec => []TypeOK
<1>1. SupervisorInv => TypeOK
  BY DEF SupervisorInv
<1> QED
  BY <1>1, SupervisorInvariant, PTL

\* A worker never has two jobs under way, however often execute_job gives up on one and
\* sends the next (worker/entry.py answers "busy").
THEOREM OneJobAtATime == Spec => []OneJobPerWorker
<1>1. SupervisorInv => OneJobPerWorker
  BY DEF SupervisorInv, Threads, OneJobPerWorker
<1> QED
  BY <1>1, SupervisorInvariant, PTL

\* A job whose cancellation has been asked for is bounded by a grace timer while the worker
\* it was sent to serves, whatever the order of execute_job, cancel_run and stop.
THEOREM CancellationIsBounded == Spec => []CancelIsBounded
<1>1. SupervisorInv => CancelIsBounded
  BY DEF SupervisorInv, Timers, CancelIsBounded, Doomed
<1> QED
  BY <1>1, SupervisorInvariant, PTL

-------------------------------------------------------------------------------
(* Workers that answer within the handshake timeout *)

\* The handshake and the pipes that start reads are left alone, and no worker starts.
LEMMA HellosStay ==
    ASSUME SupervisorInv, Hellos,
           UNCHANGED <<process, sessionId, manager, handshake, stdout>>,
           \A g \in Generations : worker'[g].state \in {worker[g].state, "dead"}
    PROVE  Hellos'
<1> USE DEF SupervisorInv
<1>1. process # None => process \in Generations
  BY Typed
<1>2. manager = "aborting" => process # None
  BY DEF Process
<1>3. manager = "aborting" => ~ Alive(process)'
  BY <1>1, <1>2 DEF Hellos, Alive
<1>4. \A g \in Generations : worker'[g].state = "starting" => worker[g].state = "starting"
  OBVIOUS
<1> QED
  BY <1>3, <1>4 DEF Hellos

LEMMA CalmHellos ==
    ASSUME SupervisorInv, Hellos, Calm,
           UNCHANGED <<process, sessionId, manager, handshake, stdout>>
    PROVE  Hellos'
<1>1. \A g \in Generations : worker'[g].state \in {worker[g].state, "dead"}
  BY DEF Calm
<1> QED
  BY <1>1, HellosStay

LEMMA StartHellos ==
    ASSUME SupervisorInv, Hellos, NEW g \in Generations, Start(g)
    PROVE  Hellos'
<1> USE DEF SupervisorInv
<1>1. /\ worker[g].state = "none" /\ worker'[g].state = "starting"
      /\ \A h \in Generations : h # g => worker'[h] = worker[h]
  BY StartKeeps, StartTypes
<1>2. /\ manager = "idle" /\ process' = g /\ sessionId' = None /\ manager' = "greeting"
      /\ handshake'.hello = None /\ stdout' = stdout
  BY DEF Start, pipes
<1>3. stdout[g] = << >>
  BY <1>1 DEF Untouched, Unspawned
<1>4. \A h \in Generations : h # g => worker'[h].state # "starting"
  BY <1>1, <1>2 DEF Hellos
<1>5. \A h \in Generations : \A i \in DOMAIN stdout[h] : stdout[h][i].kind # "hello"
  BY <1>2 DEF Hellos
<1> QED
  BY <1>1, <1>2, <1>3, <1>4, <1>5 DEF Hellos

LEMMA ManagerHellos ==
    ASSUME SupervisorInv, Hellos, ~ SlowStart,
           Handshake \/ HandshakeTimeout \/ StopBegin \/ StopEnd
    PROVE  Hellos'
<1> USE DEF SupervisorInv
<1>0. /\ Calm
      /\ \A g \in Generations : worker'[g].state = "starting" => worker[g].state = "starting"
  <2>1. Calm
    BY CalmManager
  <2> QED
    BY <2>1 DEF Calm
<1>1. CASE Handshake
  <2>1. /\ process' = process /\ sessionId' = handshake.hello /\ handshake.hello # None
        /\ handshake'.hello = None /\ manager' = "idle" /\ stdout' = stdout
    BY <1>1 DEF Handshake, NoHandshake
  <2> QED
    BY <1>0, <2>1 DEF Hellos
<1>2. CASE HandshakeTimeout
  <2>1. /\ manager = "greeting" /\ ~ Running(process) /\ stdout[process] = << >>
        /\ manager' = "aborting" /\ handshake.hello = None
        /\ UNCHANGED <<worker, stdout, process, sessionId, handshake>>
    BY <1>2 DEF HandshakeTimeout, workerVars, pipes
  <2>2. process # None /\ ~ Alive(process)
    BY <2>1 DEF Process, Running
  <2>3. \A g \in Generations : worker[g].state # "starting"
    BY <2>2 DEF Hellos, Alive
  <2>4. \A g \in Generations : \A i \in DOMAIN stdout[g] : stdout[g][i].kind # "hello"
    BY <2>1 DEF Hellos
  <2> QED
    BY <2>1, <2>2, <2>3, <2>4 DEF Hellos, Alive
<1>3. CASE StopBegin
  <2>1. UNCHANGED <<process, sessionId, manager, handshake, stdout>>
    BY <1>3 DEF StopBegin
  <2> QED
    BY <1>0, <2>1, CalmHellos
<1>4. CASE StopEnd
  <2>1. /\ process' = None /\ sessionId' = None /\ handshake'.hello = None /\ manager' = "idle"
        /\ lock = "stop" /\ stdout' = stdout
    BY <1>4 DEF StopEnd, NoHandshake, pipes
  <2>2. manager # "greeting"
    BY <2>1 DEF Process
  <2> QED
    BY <1>0, <2>1, <2>2 DEF Hellos
<1> QED
  BY <1>1, <1>2, <1>3, <1>4

\* The hello that the reader takes is the one of the worker that start waits for.
LEMMA ReadHellos ==
    ASSUME SupervisorInv, Hellos, NEW g \in Generations, ReadFrame(g)
    PROVE  Hellos'
<1> USE DEF SupervisorInv
<1> DEFINE m == stdout[g][1]
<1>1. /\ 1 \in DOMAIN stdout[g] /\ m = Head(stdout[g])
      /\ \A i \in DOMAIN stdout'[g] : i + 1 \in DOMAIN stdout[g] /\ i + 1 # 1 /\ stdout'[g][i] = stdout[g][i + 1]
      /\ \A h \in Generations : h # g => stdout'[h] = stdout[h]
      /\ worker' = worker
  BY ReadFrameDoes
<1>2. process' = process /\ sessionId' = sessionId /\ manager' = manager
  BY DEF ReadFrame
<1>3. handshake' = handshake \/ (m.kind = "hello" /\ handshake'.hello = g)
  BY <1>1, Typed DEF ReadFrame, Deliver
<1>4. m.kind = "hello" => process = g /\ manager = "greeting" /\ handshake.hello = None
  BY <1>1 DEF Hellos
<1>5. \A i \in DOMAIN stdout'[g] : stdout'[g][i].kind # "hello"
  BY <1>1 DEF Hellos
<1>6. \A h \in Generations : worker[h].state = "starting" => h # g
  BY <1>1 DEF Hellos
<1>7. manager = "aborting" => process # None /\ ~ Alive(process) /\ stdout[process] = << >>
                              /\ process # g /\ process \in Generations
  <2>1. process # None => process \in Generations
    BY Typed
  <2> QED
    BY <1>1, <2>1 DEF Hellos, Process
<1> HIDE DEF m
<1>8. CASE handshake' = handshake
  <2>1. manager' = "aborting" => ~ Alive(process)' /\ stdout'[process] = << >>
    BY <1>1, <1>2, <1>7 DEF Alive
  <2>2. ASSUME NEW h \in Generations
        PROVE  /\ worker'[h].state = "starting" =>
                    process' = h /\ manager' = "greeting" /\ handshake'.hello = None /\ stdout'[h] = << >>
               /\ \A i \in DOMAIN stdout'[h] : stdout'[h][i].kind = "hello" =>
                    i = 1 /\ process' = h /\ manager' = "greeting" /\ handshake'.hello = None
    BY <1>1, <1>2, <1>5, <1>6, <1>8 DEF Hellos
  <2> QED
    BY <1>2, <1>8, <2>1, <2>2 DEF Hellos
<1>9. CASE m.kind = "hello" /\ handshake'.hello = g
  <2>1. \A h \in Generations : worker'[h].state # "starting"
    BY <1>1, <1>4, <1>6, <1>9 DEF Hellos
  <2>2. \A h \in Generations : \A i \in DOMAIN stdout'[h] : stdout'[h][i].kind # "hello"
    BY <1>1, <1>4, <1>5, <1>9 DEF Hellos
  <2> QED
    BY <1>2, <1>4, <1>9, <2>1, <2>2 DEF Hellos
<1> QED
  BY <1>3, <1>8, <1>9

LEMMA MainHellos ==
    ASSUME SupervisorInv, Hellos, NEW g \in Generations, MainStep(g),
           UNCHANGED <<process, sessionId, manager, handshake>>
    PROVE  Hellos'
<1> USE DEF SupervisorInv
<1>1. /\ \A h \in Generations : h # g => worker'[h] = worker[h] /\ stdout'[h] = stdout[h]
      /\ worker[g].state \notin {"none", "dead"} /\ worker'[g].state # "starting"
  BY MainGoesOn
<1>2. manager = "aborting" => process # None /\ ~ Alive(process) /\ stdout[process] = << >>
                              /\ process # g /\ process \in Generations
  <2>1. process # None => process \in Generations
    BY Typed
  <2> QED
    BY <1>1, <2>1 DEF Hellos, Process, Alive
<1>3. manager' = "aborting" => ~ Alive(process)' /\ stdout'[process] = << >>
  BY <1>1, <1>2 DEF Alive
<1>4. \A h \in Generations : worker'[h].state = "starting" => h # g /\ worker[h].state = "starting"
  BY <1>1
<1>5. \A h \in Generations : \A i \in DOMAIN stdout'[h] :
         \/ i \in DOMAIN stdout[h] /\ stdout'[h][i] = stdout[h][i]
         \/ stdout'[h][i].kind = "hello" =>
               SayHello(g) /\ h = g /\ stdout'[g] = Append(stdout[g], stdout'[h][i])
  <2>1. CASE stdout' = stdout
    BY <2>1
  <2>2. ASSUME NEW e \in Frames, Send(g, e), e.kind = "hello" => SayHello(g)
        PROVE  \A h \in Generations : \A i \in DOMAIN stdout'[h] :
                 \/ i \in DOMAIN stdout[h] /\ stdout'[h][i] = stdout[h][i]
                 \/ stdout'[h][i].kind = "hello" =>
                       SayHello(g) /\ h = g /\ stdout'[g] = Append(stdout[g], stdout'[h][i])
    BY <2>2, SendFrames, SendDoes
  <2> QED
    BY <2>1, <2>2, MainSends
<1>6. SayHello(g) => process = g /\ manager = "greeting" /\ handshake.hello = None /\ stdout[g] = << >>
  BY DEF SayHello, Hellos
<1>7. ASSUME NEW h \in Generations, NEW i \in DOMAIN stdout'[h], stdout'[h][i].kind = "hello"
      PROVE  i = 1 /\ process = h /\ manager = "greeting" /\ handshake.hello = None
  <2>1. CASE i \in DOMAIN stdout[h] /\ stdout'[h][i] = stdout[h][i]
    BY <1>7, <2>1 DEF Hellos
  <2>2. CASE SayHello(g) /\ h = g /\ stdout'[g] = Append(stdout[g], stdout'[h][i])
    <3>1. DOMAIN stdout'[g] = {1}
      BY <1>6, <2>2
    <3> QED
      BY <1>6, <2>2, <3>1
  <2> QED
    BY <1>5, <1>7, <2>1, <2>2
<1>8. \A h \in Generations : worker'[h].state = "starting" =>
         process = h /\ manager = "greeting" /\ handshake.hello = None /\ stdout'[h] = << >>
  BY <1>1, <1>4 DEF Hellos
<1> QED
  BY <1>3, <1>7, <1>8 DEF Hellos

LEMMA ThreadHellos ==
    ASSUME SupervisorInv, Hellos, NEW j \in Jobs, ReportStep(j) \/ Compute(j),
           UNCHANGED <<process, sessionId, manager, handshake>>
    PROVE  Hellos'
<1> USE DEF SupervisorInv
<1> DEFINE w == exec[j].worker
<1>1. w \in Generations /\ Alive(w) /\ worker' = worker
  BY Threaded
<1>2. worker[w].state # "starting"
  BY <1>1, Numbered DEF Threads
<1>3. stdout' = stdout \/ \E e \in Frames : e.kind # "hello" /\ Send(w, e)
  <2>1. \A kind \in Events : \A n \in 0 .. 2 :
           Frame(kind, j, n) \in Frames /\ Frame(kind, j, n).kind = kind
    BY FramesAre, Numbered
  <2>2. exec[j].seq \in 0 .. 2 /\ 0 \in 0 .. 2 /\ 1 \in 0 .. 2
    BY Typed DEF Execs
  <2>3. /\ Frame("accepted", j, 0) \in Frames /\ Frame("accepted", j, 0).kind # "hello"
        /\ Frame("progress", j, 1) \in Frames /\ Frame("progress", j, 1).kind # "hello"
        /\ \A kind \in {"cancelled", "completed", "failed"} :
              /\ Frame(kind, j, exec[j].seq) \in Frames
              /\ Frame(kind, j, exec[j].seq).kind # "hello"
    BY <2>1, <2>2 DEF Events, Sequenced
  <2> QED
    BY <2>3, Threaded
<1> HIDE DEF w
<1>4. CASE stdout' = stdout
  BY <1>1, <1>4, HellosStay
<1>5. ASSUME NEW e \in Frames, e.kind # "hello", Send(w, e)
      PROVE  Hellos'
  <2>1. /\ \A h \in Generations : h # w => stdout'[h] = stdout[h]
        /\ \A h \in Generations : \A i \in DOMAIN stdout'[h] :
              stdout'[h][i].kind = "hello" => i \in DOMAIN stdout[h] /\ stdout'[h][i] = stdout[h][i]
    BY <1>1, <1>5, SendFrames, SendDoes
  <2>2. manager = "aborting" => /\ process # None /\ ~ Alive(process) /\ stdout[process] = << >>
                                /\ process # w /\ process \in Generations
    <3>1. process # None => process \in Generations
      BY Typed
    <3> QED
      BY <1>1, <3>1 DEF Hellos, Process
  <2>3. manager' = "aborting" => ~ Alive(process)' /\ stdout'[process] = << >>
    BY <1>1, <2>1, <2>2 DEF Alive
  <2>4. \A h \in Generations : worker'[h].state = "starting" =>
           process = h /\ manager = "greeting" /\ handshake.hello = None /\ stdout'[h] = << >>
    BY <1>1, <1>2, <2>1 DEF Hellos
  <2> QED
    BY <2>1, <2>3, <2>4 DEF Hellos
<1> QED
  BY <1>3, <1>4, <1>5

LEMMA HellosKept ==
    ASSUME SupervisorInv, Hellos, ~ SlowStart, Next
    PROVE  Hellos'
<1> USE DEF SupervisorInv
<1>1. CASE WorkerStep
  <2>1. caller' = caller /\ UNCHANGED <<process, sessionId, manager, handshake>>
    BY <1>1 DEF WorkerStep, connection
  <2>2. ASSUME NEW g \in Generations, Crash(g)
        PROVE  Hellos'
    <3>1. stdout' = stdout /\ Calm
      BY <2>1, <2>2, CalmCrash DEF Crash, pipes
    <3> QED
      BY <2>1, <3>1, CalmHellos
  <2> QED
    BY <1>1, <2>1, <2>2, MainHellos, ThreadHellos DEF WorkerStep
<1>2. CASE ManagerStep
  BY <1>2, StartHellos, ManagerHellos DEF ManagerStep
<1>3. ASSUME NEW g \in Generations, ReaderStep(g)
      PROVE  Hellos'
  <2>1. CASE ReadFrame(g)
    BY <2>1, ReadHellos
  <2>2. CASE ReaderLooks(g) \/ ReaderEnds(g)
    BY <2>2, HellosStay DEF ReaderLooks, ReaderEnds, workerVars, pipes, connection
  <2> QED
    BY <1>3, <2>1, <2>2 DEF ReaderStep
<1>4. ASSUME NEW v \in Validations, Validate(v) \/ ValidationTimeout(v) \/ IssueReceipt(v)
      PROVE  Hellos'
  <2>1. UNCHANGED <<connection, stdout>>
    BY <1>4 DEF Validate, ValidationTimeout, IssueReceipt, workerVars, pipes
  <2> QED
    BY <1>4, <2>1, CalmValidation, CalmHellos DEF connection
<1>5. ASSUME NEW j \in Jobs, Sent(j) \/ NotSent(j)
      PROVE  Hellos'
  <2>1. UNCHANGED <<connection, stdout>> /\ (worker' = worker \/ Calm)
    BY <1>5, CalmNotSent DEF Sent, NotSent
  <2> QED
    BY <2>1, HellosStay, CalmHellos DEF connection
<1>6. ASSUME NEW j \in Jobs, CallerStep(j) \/ Deadline(j)
      PROVE  Hellos'
  BY <1>6, CallersGoOn, CalmCaller, CalmHellos DEF connection
<1>7. ASSUME NEW j \in Jobs, RequestCancel(j) \/ Cancel(j) \/ TimerStep(j)
      PROVE  Hellos'
  <2>1. UNCHANGED <<connection, stdout>>
    BY <1>7 DEF RequestCancel, Cancel, TimerStep, TimerFires, ForceKill, workerVars, pipes
  <2> QED
    BY <1>7, <2>1, CalmCancel, CalmHellos DEF connection
<1> QED
  BY <1>1, <1>2, <1>3, <1>4, <1>5, <1>6, <1>7, Dispatched DEF Next

-------------------------------------------------------------------------------
(* No terminal event is lost *)

Terminal(m, j) == m.id = j /\ m.kind \in Sequenced \ {"progress"}

LEMMA TerminalAppended ==
    ASSUME NEW s \in Seq(Frames), NEW e \in Frames, NEW j \in Jobs,
           TerminalIn(s, j) \/ Terminal(e, j)
    PROVE  TerminalIn(Append(s, e), j)
<1>1. CASE TerminalIn(s, j)
  <2>1. PICK i \in DOMAIN s : s[i].id = j /\ s[i].kind \in Sequenced \ {"progress"}
    BY <1>1 DEF TerminalIn
  <2>2. i \in DOMAIN Append(s, e) /\ Append(s, e)[i] = s[i]
    BY Appended
  <2> QED
    BY <2>1, <2>2 DEF TerminalIn
<1>2. CASE Terminal(e, j)
  <2>1. Len(s) + 1 \in DOMAIN Append(s, e) /\ Append(s, e)[Len(s) + 1] = e
    BY Appended
  <2> QED
    BY <1>2, <2>1 DEF TerminalIn, Terminal
<1> QED
  BY <1>1, <1>2

LEMMA TerminalLeft ==
    ASSUME NEW s \in Seq(Frames), s # << >>, NEW j \in Jobs, TerminalIn(s, j), ~ Terminal(Head(s), j)
    PROVE  TerminalIn(Tail(s), j)
<1>1. PICK i \in DOMAIN s : s[i].id = j /\ s[i].kind \in Sequenced \ {"progress"}
  BY DEF TerminalIn
<1>2. i # 1
  BY <1>1, Taken DEF Terminal
<1>3. i - 1 \in DOMAIN Tail(s) /\ Tail(s)[i - 1] = s[i]
  BY <1>2, Taken
<1> QED
  BY <1>1, <1>3 DEF TerminalIn

\* What Delivery says of one job.
Delivered(j) ==
    \/ TerminalIn(queue[j], j)
    \/ TerminalIn(stdout[process], j) /\ reader[process] # "over" /\ lastSeq[j] < exec[j].seq

Awaited(j) == Waiting(j) /\ exec[j].phase = "over" /\ exec[j].worker = process /\ lock = "free"

LEMMA DeliveryIs ==
    /\ Delivery <=> \A j \in Jobs : Awaited(j) => Delivered(j)
    /\ Delivery' <=> \A j \in Jobs : Awaited(j)' => Delivered(j)'
BY DEF Delivery, Delivered, Awaited

\* A step that leaves the way of the event alone.
LEMMA DeliveryStays ==
    ASSUME SupervisorInv, Delivery,
           UNCHANGED <<stdout, exec, process, lock, reader, lastSeq, queue>>,
           \A j \in Jobs : Waiting(j)' => Waiting(j) \/ exec[j].phase # "over"
    PROVE  Delivery'
BY DEF Delivery

LEMMA StartDelivery ==
    ASSUME SupervisorInv, NEW g \in Generations, Start(g)
    PROVE  Delivery'
<1> USE DEF SupervisorInv
<1>1. worker[g].state = "none" /\ exec' = exec /\ process' = g
  BY StartKeeps, StartTypes DEF Start
<1>2. \A j \in Jobs : exec'[j].worker # process'
  BY <1>1, Numbered DEF Threads
<1> QED
  BY <1>2 DEF Delivery

LEMMA StopDelivery ==
    ASSUME SupervisorInv, StopBegin \/ StopEnd
    PROVE  Delivery'
<1> USE DEF SupervisorInv
<1>1. CASE StopBegin
  BY <1>1 DEF StopBegin, Delivery
<1>2. CASE StopEnd
  <2>1. exec' = exec /\ process' = None
    BY <1>2 DEF StopEnd
  <2>2. \A j \in Jobs : exec[j].phase = "over" => exec[j].worker # None
    BY DEF Threads
  <2> QED
    BY <2>1, <2>2 DEF Delivery
<1> QED
  BY <1>1, <1>2

\* The reader is over when the worker is dead and all it wrote was read, or after stop.
LEMMA ReaderDelivery ==
    ASSUME SupervisorInv, Delivery, NEW g \in Generations, ReaderLooks(g) \/ ReaderEnds(g)
    PROVE  Delivery'
<1> USE DEF SupervisorInv
<1>1. UNCHANGED <<stdout, exec, process, lock, lastSeq, queue, caller, stopping>>
  BY DEF ReaderLooks, ReaderEnds, workerVars, pipes, connection
<1>2. \A h \in Generations : h # g => reader'[h] = reader[h]
  BY Typed DEF ReaderLooks, ReaderEnds
<1>3. reader'[g] = "over" => stopping \/ stdout[g] = << >>
  BY Typed DEF ReaderLooks, ReaderEnds
<1> SUFFICES ASSUME NEW j \in Jobs, Awaited(j)'
             PROVE  Delivered(j)'
  BY DeliveryIs
<1>4. Awaited(j)
  BY <1>1 DEF Awaited, Waiting
<1>5. Delivered(j)
  BY <1>4, DeliveryIs
<1>6. process # None /\ process \in Generations /\ ~ stopping
  <2>1. process # None
    BY <1>4 DEF Awaited, Threads
  <2> QED
    BY <1>4, <2>1, Typed DEF Awaited, Process
<1>7. CASE TerminalIn(queue[j], j)
  BY <1>1, <1>7 DEF Delivered, TerminalIn
<1>8. CASE TerminalIn(stdout[process], j) /\ reader[process] # "over" /\ lastSeq[j] < exec[j].seq
  <2>1. stdout[process] # << >>
    BY <1>8 DEF TerminalIn
  <2>2. reader'[process] # "over"
    BY <1>2, <1>3, <1>6, <1>8, <2>1
  <2> QED
    BY <1>1, <1>8, <2>2 DEF Delivered, TerminalIn
<1> QED
  BY <1>5, <1>7, <1>8 DEF Delivered

\* A terminal event that is read is put into the queue of its job: its session is not
\* refused, its number is new, and the job is registered.
LEMMA ReadDelivery ==
    ASSUME SupervisorInv, Hellos, Delivery, NEW g \in Generations, ReadFrame(g)
    PROVE  Delivery'
<1> USE DEF SupervisorInv
<1> DEFINE m == stdout[g][1]
<1>1. /\ m = Head(stdout[g]) /\ m \in Frames /\ Counts(m, g, exec)
      /\ stdout'[g] = Tail(stdout[g])
      /\ \A h \in Generations : h # g => stdout'[h] = stdout[h]
      /\ reader' = [reader EXCEPT ![g] = "top"]
      /\ lastSeq' = lastSeq \/
           (m.kind \in Sequenced /\ lastSeq' = [lastSeq EXCEPT ![m.id] = m.seq])
      /\ exec' = exec
  BY ReadFrameDoes
<1>2. stdout[g] \in Seq(Frames) /\ stdout[g] # << >>
  BY Typed DEF ReadFrame
<1>3. UNCHANGED <<process, sessionId, lock, caller, activeJobs>>
  BY DEF ReadFrame
<1>4. \/ queue' = queue
      \/ m.kind \in Events /\ m.id \in activeJobs /\ Arrives(m.id, m)
  BY <1>1 DEF ReadFrame, Deliver, Arrives
<1>5. ~ Quarantined(m, g) /\ ~ Repeated(m) /\ m.kind \in Events /\ m.id \in activeJobs => Arrives(m.id, m)
  BY <1>1 DEF ReadFrame, Deliver, Arrives
<1> HIDE DEF m
<1>6. \A i \in Jobs : TerminalIn(queue[i], i) => TerminalIn(queue'[i], i)
  <2> SUFFICES ASSUME NEW i \in Jobs, TerminalIn(queue[i], i)
               PROVE  TerminalIn(queue'[i], i)
    OBVIOUS
  <2>1. queue'[i] = queue[i] \/ queue'[i] = Append(queue[i], m)
    BY <1>1, <1>4, ArrivesDoes, Typed
  <2>2. m \in Frames /\ queue[i] \in Seq(Frames)
    BY <1>1, Typed
  <2>3. TerminalIn(Append(queue[i], m), i)
    BY <2>2, TerminalAppended
  <2> QED
    BY <2>1, <2>3
<1> SUFFICES ASSUME NEW j \in Jobs, Awaited(j)'
             PROVE  Delivered(j)'
  BY DeliveryIs
<1>7. Awaited(j)
  BY <1>1, <1>3 DEF Awaited, Waiting
<1>8. process # None /\ process \in Generations /\ j \in activeJobs
  <2>1. process # None
    BY <1>7 DEF Awaited, Threads
  <2> QED
    BY <1>7, <2>1, Typed DEF Awaited, Process
<1>9. CASE TerminalIn(queue[j], j)
  BY <1>6, <1>9 DEF Delivered
<1>10. CASE TerminalIn(stdout[process], j) /\ reader[process] # "over" /\ lastSeq[j] < exec[j].seq
  <2>1. reader'[process] # "over"
    BY <1>1, <1>8, <1>10, Typed
  <2>2. lastSeq[j] \in Nat /\ exec[j].seq \in Nat
    <3>1. lastSeq[j] \in 0 .. 2 /\ exec[j] \in Execs
      BY Typed
    <3> QED
      BY <3>1 DEF Execs
  <2>3. CASE Terminal(m, j)
    <3>1. process = g /\ m.seq = exec[j].seq /\ m.kind \in Sequenced /\ m.id = j
      BY <1>1, <1>7, <2>3 DEF Terminal, Counts, Awaited
    <3>2. ~ Quarantined(m, g)
      BY <3>1 DEF Quarantined, Hellos
    <3>3. ~ Repeated(m)
      BY <1>10, <2>2, <3>1 DEF Repeated
    <3>4. Arrives(j, m)
      BY <1>5, <1>8, <3>1, <3>2, <3>3 DEF Events
    <3>5. queue'[j] = Append(queue[j], m) /\ queue[j] \in Seq(Frames)
      BY <1>1, <3>4, ArrivesDoes, Typed
    <3>6. TerminalIn(queue'[j], j)
      BY <1>1, <2>3, <3>5, TerminalAppended
    <3> QED
      BY <3>6 DEF Delivered
  <2>4. CASE ~ Terminal(m, j)
    <3>1. TerminalIn(stdout'[process], j)
      <4>1. CASE process = g
        BY <1>1, <1>2, <1>10, <2>4, <4>1, TerminalLeft
      <4>2. CASE process # g
        BY <1>1, <1>8, <1>10, <4>2
      <4> QED
        BY <4>1, <4>2
    <3>2. lastSeq'[j] < exec'[j].seq
      <4>1. lastSeq'[j] = lastSeq[j] \/ (m.kind \in Sequenced /\ m.id = j /\ lastSeq'[j] = m.seq)
        BY <1>1, Typed
      <4>2. m.kind \in Sequenced /\ m.id = j => m.seq < exec[j].seq
        BY <1>1, <2>4 DEF Terminal, Counts
      <4> QED
        BY <1>1, <1>10, <4>1, <4>2
    <3> QED
      BY <1>3, <2>1, <3>1, <3>2 DEF Delivered
  <2> QED
    BY <2>3, <2>4
<1> QED
  BY <1>7, <1>9, <1>10, DeliveryIs DEF Delivered

\* What execute_job takes from its queue while it goes on is no terminal event.
LEMMA CallerQueues ==
    ASSUME TypeOK, Queues, NEW j \in Jobs, CallerStep(j) \/ Deadline(j)
    PROVE  \/ queue' = queue
           \/ /\ queue[j] # << >> /\ queue' = [queue EXCEPT ![j] = Tail(@)]
              /\ Waiting(j)' => Head(queue[j]).kind \in {"accepted", "progress"}
<1>1. CASE TakeFirst(j)
  <2>1. Returns(j, "fault") => ~ Waiting(j)'
    BY ReturnsDoes DEF Waiting
  <2> QED
    BY <1>1, <2>1 DEF TakeFirst
<1>2. CASE TakeEvent(j)
  <2>1. queue[j] # << >> /\ queue[j] \in Seq(Frames)
    BY <1>2, Typed DEF TakeEvent
  <2>2. Head(queue[j]).kind \in Events
    BY <2>1, Taken DEF Queues
  <2>3. CASE Head(queue[j]).kind \in {"accepted", "progress"}
    BY <1>2, <2>3 DEF TakeEvent
  <2>4. CASE Head(queue[j]).kind \notin {"accepted", "progress"}
    <3>1. Head(queue[j]).kind \in {"completed", "failed", "cancelled", "fault"}
      BY <2>2, <2>4 DEF Events, Sequenced
    <3>2. Returns(j, Head(queue[j]).kind)
      BY <1>2, <2>4 DEF TakeEvent
    <3>3. ~ Waiting(j)'
      BY <3>1, <3>2, ReturnsDoes DEF Waiting
    <3> QED
      BY <1>2, <3>3 DEF TakeEvent
  <2> QED
    BY <2>3, <2>4
<1>3. CASE AdmissionTimeout(j) \/ PollBegins(j) \/ PollEnds(j) \/ Deadline(j)
  BY <1>3 DEF AdmissionTimeout, PollBegins, PollEnds, Deadline
<1> QED
  BY <1>1, <1>2, <1>3 DEF CallerStep

LEMMA CallerDelivery ==
    ASSUME SupervisorInv, Delivery, NEW j \in Jobs, CallerStep(j) \/ Deadline(j)
    PROVE  Delivery'
<1> USE DEF SupervisorInv
<1>1. UNCHANGED <<stdout, exec, process, lock, reader, lastSeq>>
  BY CallersGoOn DEF connection
<1>2. \A i \in Jobs : Waiting(i)' => Waiting(i)
  <2>1. \A i \in Jobs : i # j => (Waiting(i)' <=> Waiting(i))
    BY CallersGoOn DEF Waiting
  <2>2. Waiting(j)' => Waiting(j)
    BY CallersGoOn DEF Waiting
  <2> QED
    BY <2>1, <2>2
<1>3. ASSUME NEW i \in Jobs, Waiting(i)', TerminalIn(queue[i], i)
      PROVE  TerminalIn(queue'[i], i)
  <2>1. CASE queue'[i] = queue[i]
    BY <1>3, <2>1
  <2>2. CASE queue'[i] # queue[i]
    <3>1. /\ i = j /\ queue[j] # << >> /\ queue'[j] = Tail(queue[j])
          /\ Head(queue[j]).kind \in {"accepted", "progress"}
      BY <1>3, <2>2, CallerQueues, TakesDoes
    <3>2. ~ Terminal(Head(queue[j]), j)
      BY <3>1 DEF Terminal, Sequenced
    <3> QED
      BY <1>3, <3>1, <3>2, TerminalLeft, Typed
  <2> QED
    BY <2>1, <2>2
<1> SUFFICES ASSUME NEW i \in Jobs, Awaited(i)'
             PROVE  Delivered(i)'
  BY DeliveryIs
<1>4. Delivered(i) /\ Waiting(i)'
  BY <1>1, <1>2, DeliveryIs DEF Awaited
<1> QED
  BY <1>1, <1>3, <1>4 DEF Delivered

\* A step that adds frames to what the workers wrote.
LEMMA WrittenDelivery ==
    ASSUME SupervisorInv, Delivery,
           UNCHANGED <<process, lock, reader, lastSeq, queue, caller>>,
           \A h \in Generations :
               stdout'[h] = stdout[h] \/ \E e \in Frames : stdout'[h] = Append(stdout[h], e),
           \A j \in Jobs : Awaited(j)' =>
               \/ exec[j].phase = "over" /\ exec[j].worker = exec'[j].worker
                  /\ exec[j].seq = exec'[j].seq
               \/ Delivered(j)'
    PROVE  Delivery'
<1> USE DEF SupervisorInv
<1> SUFFICES ASSUME NEW j \in Jobs, Awaited(j)', exec[j].phase = "over",
                    exec[j].worker = exec'[j].worker, exec[j].seq = exec'[j].seq
             PROVE  Delivered(j)'
  BY DeliveryIs
<1>1. Awaited(j) /\ Delivered(j)
  BY DeliveryIs DEF Awaited, Waiting
<1>2. process \in Generations
  <2>1. process # None
    BY <1>1 DEF Awaited, Threads
  <2> QED
    BY <2>1, Typed
<1>3. TerminalIn(stdout[process], j) => TerminalIn(stdout'[process], j)
  <2>1. ASSUME NEW e \in Frames, TerminalIn(stdout[process], j)
        PROVE  TerminalIn(Append(stdout[process], e), j)
    BY <1>2, <2>1, TerminalAppended, Typed
  <2> QED
    BY <1>2, <2>1
<1> QED
  BY <1>1, <1>3 DEF Delivered

LEMMA MainDelivery ==
    ASSUME SupervisorInv, Delivery, NEW g \in Generations, MainStep(g),
           UNCHANGED <<process, lock, reader, lastSeq, queue, caller>>
    PROVE  Delivery'
<1> USE DEF SupervisorInv
<1>1. \A h \in Generations :
         stdout'[h] = stdout[h] \/ \E e \in Frames : stdout'[h] = Append(stdout[h], e)
  BY MainSends, SendDoes
<1>2. ASSUME NEW j \in Jobs, exec'[j].phase = "over"
      PROVE  exec[j].phase = "over" /\ exec[j].worker = exec'[j].worker
             /\ exec[j].seq = exec'[j].seq
  BY <1>2, MainExec
<1> QED
  BY <1>1, <1>2, WrittenDelivery DEF Awaited

\* The terminal event of a job is the last frame its worker wrote, and nobody has read its
\* number; the reader is there, because the worker is alive.
LEMMA ThreadDelivery ==
    ASSUME SupervisorInv, Delivery, NEW j \in Jobs, ReportStep(j) \/ Compute(j),
           UNCHANGED <<process, lock, reader, lastSeq, queue, caller>>
    PROVE  Delivery'
<1> USE DEF SupervisorInv
<1> DEFINE w == exec[j].worker
<1>1. /\ w \in Generations /\ Alive(w) /\ exec'[j].worker = w
      /\ \A i \in Jobs : i # j => exec'[i] = exec[i]
      /\ exec[j].seq \in 0 .. 2
  <2>1. exec[j].seq \in 0 .. 2
    BY Typed DEF Execs
  <2> QED
    BY <2>1, Threaded, ThreadToDoes, ComputesDoes
<1>2. \A kind \in Events : \A n \in 0 .. 2 :
         /\ Frame(kind, j, n) \in Frames /\ Frame(kind, j, n).kind = kind
         /\ Frame(kind, j, n).id = j
  BY FramesAre, Numbered
<1>3. stdout' = stdout \/ \E e \in Frames : Send(w, e)
  <2>1. /\ Frame("accepted", j, 0) \in Frames /\ Frame("progress", j, 1) \in Frames
        /\ \A kind \in {"cancelled", "completed", "failed"} : Frame(kind, j, exec[j].seq) \in Frames
    BY <1>1, <1>2 DEF Events, Sequenced
  <2> QED
    BY <2>1, Threaded
<1>4. exec'[j].phase = "over" =>
         /\ exec'[j].seq = exec[j].seq /\ exec[j].phase # "over"
         /\ \E kind \in {"cancelled", "completed", "failed"} : Send(w, Frame(kind, j, exec[j].seq))
  BY Threaded, ThreadToDoes, ComputesDoes
<1> HIDE DEF w
<1>5. \A h \in Generations :
         stdout'[h] = stdout[h] \/ \E e \in Frames : stdout'[h] = Append(stdout[h], e)
  BY <1>1, <1>3, SendDoes
<1>6. ASSUME Awaited(j)'
      PROVE  Delivered(j)'
  <2>1. process = w /\ process' = w /\ lock = "free" /\ exec'[j].phase = "over"
    BY <1>1, <1>6 DEF Awaited
  <2>2. PICK kind \in {"cancelled", "completed", "failed"} : Send(w, Frame(kind, j, exec[j].seq))
    BY <1>4, <2>1
  <2> DEFINE e == Frame(kind, j, exec[j].seq)
  <2>3. e \in Frames /\ Terminal(e, j)
    BY <1>1, <1>2 DEF Events, Sequenced, Terminal
  <2>4. Send(w, e)
    BY <2>2
  <2> HIDE DEF e
  <2>5. TerminalIn(stdout'[w], j)
    <3>1. stdout'[w] = Append(stdout[w], e) /\ stdout[w] \in Seq(Frames)
      BY <1>1, <2>3, <2>4, SendDoes, Typed
    <3>2. TerminalIn(Append(stdout[w], e), j)
      BY <2>3, <3>1, TerminalAppended
    <3> QED
      BY <3>1, <3>2
  <2>6. reader'[w] # "over"
    BY <1>1, <2>1, Numbered DEF Readers
  <2>7. lastSeq'[j] < exec'[j].seq
    BY <1>4, <2>1 DEF Numbers
  <2> QED
    BY <2>1, <2>5, <2>6, <2>7 DEF Delivered
<1>7. ASSUME NEW i \in Jobs, Awaited(i)'
      PROVE  \/ exec[i].phase = "over" /\ exec[i].worker = exec'[i].worker
                /\ exec[i].seq = exec'[i].seq
             \/ Delivered(i)'
  BY <1>1, <1>6, <1>7 DEF Awaited
<1> QED
  BY <1>5, <1>7, WrittenDelivery

LEMMA SentDelivery ==
    ASSUME SupervisorInv, Delivery, NEW j \in Jobs, Sent(j) \/ NotSent(j)
    PROVE  Delivery'
<1> USE DEF SupervisorInv
<1>1. exec[j].phase = "none"
  BY DEF Threads, Sent, NotSent
<1>2. \A i \in Jobs : i # j => (Waiting(i)' <=> Waiting(i))
  BY SentDoes, CalmNotSent DEF Waiting
<1>3. \A i \in Jobs : Waiting(i)' => Waiting(i) \/ exec[i].phase # "over"
  BY <1>1, <1>2
<1>4. UNCHANGED <<stdout, exec, process, lock, reader, lastSeq, queue>>
  BY DEF Sent, NotSent, connection
<1> QED
  BY <1>3, <1>4, DeliveryStays

LEMMA DeliveryKept ==
    ASSUME SupervisorInv, Hellos, Delivery, Next
    PROVE  Delivery'
<1> USE DEF SupervisorInv
<1>1. CASE WorkerStep
  <2>1. UNCHANGED <<process, lock, reader, lastSeq, queue, caller>>
    BY <1>1 DEF WorkerStep, connection
  <2>2. ASSUME NEW g \in Generations, Crash(g)
        PROVE  Delivery'
    BY <2>1, <2>2, DeliveryStays DEF Crash, pipes, Waiting
  <2> QED
    BY <1>1, <2>1, <2>2, MainDelivery, ThreadDelivery DEF WorkerStep
<1>2. CASE ManagerStep
  <2>1. CASE Handshake \/ HandshakeTimeout
    BY <2>1, DeliveryStays DEF Handshake, HandshakeTimeout, workerVars, pipes, Waiting
  <2> QED
    BY <1>2, <2>1, StartDelivery, StopDelivery DEF ManagerStep
<1>3. ASSUME NEW g \in Generations, ReaderStep(g)
      PROVE  Delivery'
  BY <1>3, ReaderDelivery, ReadDelivery DEF ReaderStep
<1>4. ASSUME NEW v \in Validations, Validate(v) \/ ValidationTimeout(v) \/ IssueReceipt(v)
      PROVE  Delivery'
  <2>1. UNCHANGED <<stdout, exec, process, lock, reader, lastSeq, queue, caller>>
    BY <1>4 DEF Validate, ValidationTimeout, IssueReceipt, workerVars, pipes, connection
  <2> QED
    BY <2>1, DeliveryStays DEF Waiting
<1>5. ASSUME NEW j \in Jobs, RequestCancel(j) \/ Cancel(j) \/ TimerStep(j)
      PROVE  Delivery'
  <2>1. UNCHANGED <<stdout, exec, process, lock, reader, lastSeq, queue, caller>>
    BY <1>5 DEF RequestCancel, Cancel, TimerStep, TimerFires, ForceKill, workerVars, pipes, connection
  <2> QED
    BY <2>1, DeliveryStays DEF Waiting
<1> QED
  BY <1>1, <1>2, <1>3, <1>4, <1>5, SentDelivery, CallerDelivery, Dispatched DEF Next

-------------------------------------------------------------------------------
(* The invariant of workers that are in time, and what it gives *)

LEMMA InitPunctual == Init => PunctualInv
<1> SUFFICES ASSUME Init
             PROVE  Hellos /\ Delivery
  BY DEF PunctualInv
<1>1. Hellos
  BY Numbered DEF Init, WorkerInit, NoHandshake, Hellos
<1>2. Delivery
  BY DEF Init, WorkerInit, Delivery
<1> QED
  BY <1>1, <1>2

LEMMA PunctualKept ==
    ASSUME SupervisorInv, PunctualInv, ~ SlowStart, [Next]_vars
    PROVE  PunctualInv'
<1>1. CASE Next
  BY <1>1, HellosKept, DeliveryKept DEF PunctualInv
<1>2. CASE UNCHANGED vars
  <2>1. UNCHANGED <<worker, stdout, exec, process, sessionId, lock, manager, handshake, reader,
                    lastSeq, queue, caller>>
    BY <1>2 DEF vars, workerVars, pipes, connection
  <2>2. Hellos'
    BY <2>1, HellosStay DEF PunctualInv
  <2>3. Delivery'
    BY <2>1, DeliveryStays DEF PunctualInv, Waiting
  <2> QED
    BY <2>2, <2>3 DEF PunctualInv
<1> QED
  BY <1>1, <1>2

\* When every worker answers within the handshake timeout, every reachable state has the
\* invariant of the handshake and of the delivery, too.
THEOREM PunctualInvariant ==
    ASSUME ~ SlowStart
    PROVE  Spec => [](SupervisorInv /\ PunctualInv)
<1>1. Init => SupervisorInv /\ PunctualInv
  BY InitHolds, InitPunctual
<1>2. SupervisorInv /\ PunctualInv /\ [Next]_vars => (SupervisorInv /\ PunctualInv)'
  BY NextKeeps, PunctualKept
<1> QED
  BY <1>1, <1>2, PTL DEF Spec

\* The terminal event of a job the application waits for is neither dropped by the reader's
\* sequence check nor quarantined, and the reader that has to deliver it is there.
THEOREM TerminalsArrive ==
    ASSUME ~ SlowStart
    PROVE  Spec => []NoTerminalLost
<1>1. SupervisorInv /\ PunctualInv => NoTerminalLost
  BY DEF PunctualInv, Delivery, NoTerminalLost
<1> QED
  BY <1>1, PunctualInvariant, PTL

\* The session the frames are checked against is the one of the worker that is there.
THEOREM SessionsMatch ==
    ASSUME ~ SlowStart
    PROVE  Spec => []SessionIsProcess
<1>1. SupervisorInv /\ PunctualInv => SessionIsProcess
  BY DEF PunctualInv, Hellos, SessionIsProcess
<1> QED
  BY <1>1, PunctualInvariant, PTL

\* The hello that start accepts is the one of the worker it spawned.
THEOREM HellosOfTheStarted ==
    ASSUME ~ SlowStart
    PROVE  Spec => StartedWorkerAnswers
<1>1. SupervisorInv /\ PunctualInv /\ [Next]_vars => [Handshake => sessionId' = process]_vars
  BY DEF PunctualInv, Hellos, Handshake
<1> QED
  BY <1>1, PunctualInvariant, PTL DEF Spec, StartedWorkerAnswers
===============================================================================
