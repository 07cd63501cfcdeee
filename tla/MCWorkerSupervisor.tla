-------------------------- MODULE MCWorkerSupervisor --------------------------
(* The supervisor and its workers, for TLC: the constants are numbers and flags. *)
EXTENDS WorkerSupervisor

\* Bounds of the run of two jobs: they differ by nothing but their numbers and are called in
\* the order of these; of two jobs and a validation two are asked for in a behaviour.
JobsInOrder == \A i, j \in Jobs : i < j /\ caller[i].pc = "idle" => caller'[j].pc = "idle"
TwoCalls ==
    Cardinality({j \in Jobs : caller'[j].pc # "idle"})
        + Cardinality({v \in Validations : request'[v].pc # "idle"}) <= 2
TwoCallsSpec == Init /\ [][Next /\ JobsInOrder /\ TwoCalls]_vars

\* Bounds of the liveness run: a worker is replaced only once a job was sent to it, no evaluation
\* raises, which is reported as its end would be, and a behaviour is followed until no job is
\* left that could hang.
ReplacedOnceSent == \A j \in Jobs : sentTo'[j] = None => process' \in {None, 1}
NoneRaises == \A j \in Jobs : exec'[j].phase # "raised"
JobToCome == \E j \in Jobs : caller[j].pc # "over"
BoundedSpec ==
    Init /\ [][Next /\ ReplacedOnceSent /\ NoneRaises /\ JobToCome]_vars /\ Fairness
===============================================================================
