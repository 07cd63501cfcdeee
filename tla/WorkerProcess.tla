----------------------------- MODULE WorkerProcess ----------------------------
(***************************************************************************)
(* src/bh_sim/worker/entry.py: the worker processes an application spawns, *)
(* one generation after the other, seen from their two pipes.  The main    *)
(* thread reads control frames; one execution thread per job computes and  *)
(* reports.  A job is known by its run id and is sent at most once.        *)
(*                                                                         *)
(* Both sides have the one protocol version of this build.  What a frame   *)
(* carries besides its kind, its run or request and its sequence number is *)
(* left out, so is the verdict of a validation.                            *)
(***************************************************************************)
EXTENDS Naturals, Sequences

CONSTANTS
    MaxGenerations,     \* bound on the worker processes ever spawned
    MaxJobs,            \* bound on the jobs
    MaxValidations      \* bound on the validation requests

Generations == 1 .. MaxGenerations
Jobs == 1 .. MaxJobs
Validations == 1 .. MaxValidations
None == 0

ASSUME WorkerAssumption ==
    MaxGenerations \in Nat /\ MaxJobs \in Nat /\ MaxValidations \in Nat

VARIABLES
    worker,     \* per generation: where the main thread is, and active_run_id
    stdin,      \* per generation: frames written to it and not read
    stdinOpen,  \* per generation: the application's end of the pipe is open
    stdout,     \* per generation: frames it wrote and the application has not read
    exec        \* per job: its execution thread, its worker, cancellation event, sequence

pipes == <<stdin, stdinOpen, stdout>>
workerVars == <<worker, pipes, exec>>

Frame(kind, id, seq) == [kind |-> kind, id |-> id, seq |-> seq]
Control == {"ready", "validate", "job", "cancel", "shutdown"}
Sequenced == {"progress", "completed", "failed", "cancelled"}
Events == {"accepted", "fault"} \cup Sequenced
Frames == [kind : Control \cup Events \cup {"hello", "response"},
           id : Nat, seq : 0 .. 2]

Alive(g) == worker[g].state \notin {"none", "dead"}
Send(g, frame) == stdout' = [stdout EXCEPT ![g] = Append(@, frame)]
MainThread(g, state) == worker' = [worker EXCEPT ![g].state = state]

\* mutant: the flag is set when the worker accepts, not when it is done
FinishedOnAccept(j) == exec[j].phase # "started"
\* finished.is_set(): set before the terminal event is sent
Finished(j) == exec[j].phase \in {"none", "withdrawn", "computed", "raised", "over"}
Busy(g) == worker[g].run # None /\ ~ Finished(worker[g].run)

-------------------------------------------------------------------------------
(* The main thread *)

SayHello(g) ==
    /\ worker[g].state = "starting"
    /\ MainThread(g, "greeted")
    /\ Send(g, Frame("hello", None, 0))
    /\ UNCHANGED <<stdin, stdinOpen, exec>>

\* Anything but the supervisor's confirmation, or a closed pipe, ends the worker.
Confirm(g) ==
    /\ worker[g].state = "greeted"
    /\ stdin[g] # << >> \/ ~ stdinOpen[g]
    /\ LET confirmed == stdin[g] # << >> /\ Head(stdin[g]).kind = "ready"
       IN  \/ MainThread(g, IF confirmed THEN "serving" ELSE "joining") /\ UNCHANGED stdout
           \/ /\ confirmed                  \* ENGINE_INIT_FAILED, of no run
              /\ MainThread(g, "joining") /\ Send(g, Frame("fault", None, 0))
    /\ stdin' = [stdin EXCEPT ![g] = IF @ = << >> THEN @ ELSE Tail(@)]
    /\ UNCHANGED <<stdinOpen, exec>>

\* Starting a job replaces the thread, the cancellation event and the finished flag.
StartJob(g, j) ==
    /\ worker' = [worker EXCEPT ![g].run = j]
    /\ exec' = [exec EXCEPT ![j] =
                  [phase |-> "started", worker |-> g, cancelled |-> FALSE, seq |-> 1]]
    /\ UNCHANGED stdout

\* One frame of the control loop.
Serve(g) ==
    /\ worker[g].state = "serving" /\ stdin[g] # << >>
    /\ stdin' = [stdin EXCEPT ![g] = Tail(@)]
    /\ LET m == Head(stdin[g])
       IN  \/ /\ m.kind = "cancel"
              /\ exec' = IF Busy(g) /\ m.id = worker[g].run
                         THEN [exec EXCEPT ![m.id].cancelled = TRUE] ELSE exec
              /\ UNCHANGED <<worker, stdout>>
           \/ m.kind = "shutdown" /\ MainThread(g, "joining") /\ UNCHANGED <<stdout, exec>>
           \/ /\ m.kind = "validate"        \* valid, invalid, raising or WORKER_BUSY
              /\ Send(g, Frame("response", m.id, 0)) /\ UNCHANGED <<worker, exec>>
           \/ /\ m.kind = "job" /\ Busy(g)  \* WORKER_BUSY
              /\ Send(g, Frame("fault", m.id, 0)) /\ UNCHANGED <<worker, exec>>
           \/ m.kind = "job" /\ ~ Busy(g) /\ StartJob(g, m.id)
    /\ UNCHANGED stdinOpen

\* EOF, or a frame that cannot be read.
EndOfInput(g) ==
    /\ worker[g].state = "serving" /\ stdin[g] = << >> /\ ~ stdinOpen[g]
    /\ MainThread(g, "joining")
    /\ UNCHANGED <<pipes, exec>>

\* The execution threads keep the process until they end.
Exit(g) ==
    /\ worker[g].state = "joining"
    /\ \A j \in Jobs : exec[j].worker = g => exec[j].phase = "over"
    /\ MainThread(g, "dead")
    /\ UNCHANGED <<pipes, exec>>

-------------------------------------------------------------------------------
(* The execution thread of job j *)

Runs(j, phase) == exec[j].phase = phase /\ Alive(exec[j].worker)
ThreadTo(j, phase) == exec' = [exec EXCEPT ![j].phase = phase]

Acknowledge(j) ==
    /\ Runs(j, "started")
    /\ ThreadTo(j, "accepted")
    /\ Send(exec[j].worker, Frame("accepted", j, 0))
    /\ UNCHANGED <<worker, stdin, stdinOpen>>

\* mutant: the terminal event reuses the number of the progress event
BeginSameNumber(j) ==
    /\ Runs(j, "accepted")
    /\ \/ exec[j].cancelled /\ ThreadTo(j, "withdrawn") /\ UNCHANGED stdout
       \/ /\ ~ exec[j].cancelled
          /\ Send(exec[j].worker, Frame("progress", j, exec[j].seq))
          /\ exec' = [exec EXCEPT ![j].phase = "computing"]
    /\ UNCHANGED <<worker, stdin, stdinOpen>>

\* The cancellation event is looked at before and after the evaluation.
Begin(j) ==
    /\ Runs(j, "accepted")
    /\ \/ exec[j].cancelled /\ ThreadTo(j, "withdrawn") /\ UNCHANGED stdout
       \/ /\ ~ exec[j].cancelled
          /\ Send(exec[j].worker, Frame("progress", j, exec[j].seq))
          /\ exec' = [exec EXCEPT ![j].phase = "computing", ![j].seq = @ + 1]
    /\ UNCHANGED <<worker, stdin, stdinOpen>>

\* prepare, run, the second look, and the staged file.
Compute(j) ==
    /\ Runs(j, "computing")
    /\ \/ ThreadTo(j, IF exec[j].cancelled THEN "withdrawn" ELSE "computed")
       \/ ThreadTo(j, "raised")
    /\ UNCHANGED <<worker, pipes>>

TerminalOf(phase) ==
    CASE phase = "withdrawn" -> "cancelled" [] phase = "computed" -> "completed"
      [] phase = "raised" -> "failed"

Report(j) ==
    /\ exec[j].phase \in {"withdrawn", "computed", "raised"} /\ Alive(exec[j].worker)
    /\ Send(exec[j].worker, Frame(TerminalOf(exec[j].phase), j, exec[j].seq))
    /\ ThreadTo(j, "over")
    /\ UNCHANGED <<worker, stdin, stdinOpen>>

-------------------------------------------------------------------------------
\* The process is killed, or dies of itself; what it wrote can still be read.
Kill(g) == MainThread(g, "dead")

Crash(g) == Alive(g) /\ Kill(g) /\ UNCHANGED <<pipes, exec>>

WorkerInit ==
    /\ worker = [g \in Generations |-> [state |-> "none", run |-> None]]
    /\ stdin = [g \in Generations |-> << >>]
    /\ stdinOpen = [g \in Generations |-> TRUE]
    /\ stdout = [g \in Generations |-> << >>]
    /\ exec = [j \in Jobs |-> [phase |-> "none", worker |-> None,
                               cancelled |-> FALSE, seq |-> 1]]

MainStep(g) == SayHello(g) \/ Confirm(g) \/ Serve(g) \/ EndOfInput(g) \/ Exit(g)
ReportStep(j) == Acknowledge(j) \/ Begin(j) \/ Report(j)

WorkerTypeOK ==
    /\ worker \in [Generations ->
         [state : {"none", "starting", "greeted", "serving", "joining", "dead"},
          run : Jobs \cup {None}]]
    /\ stdin \in [Generations -> Seq(Frames)]
    /\ stdinOpen \in [Generations -> BOOLEAN]
    /\ stdout \in [Generations -> Seq(Frames)]
    /\ exec \in [Jobs ->
         [phase : {"none", "started", "accepted", "computing", "withdrawn", "computed",
                   "raised", "over"},
          worker : Generations \cup {None}, cancelled : BOOLEAN, seq : 1 .. 2]]
===============================================================================
