---------------------------- MODULE CommandRegistry ----------------------------
(***************************************************************************)
(* src/bh_sim/application/commands.py: the dispatcher all adapters share.  *)
(* It admits a request under its lock, performs the use case outside of    *)
(* it, and records what came of it under the lock again, so that a repeat  *)
(* of the request in the same process gets the recorded outcome.           *)
(*                                                                         *)
(* A request is a record; "body" stands for everything of its content that *)
(* the checks do not look at, and equal requests have equal encodings.     *)
(***************************************************************************)
EXTENDS Naturals, FiniteSets

CONSTANTS
    Callers,        \* threads inside dispatch
    Requests,       \* requests they may present
    Results,        \* what use cases may return, as sets of documents
    PortCodes,      \* the codes use cases reject with
    Registries,     \* how the registry may be composed: [services, pfd, history, unavailable]
    NoEntry,
    MaxSessions     \* bound on the processes in a row, each with a registry of its own

NoId == ""
CommandVersion == "bh-command-v1alpha"

VARIABLES
    registry,       \* how this registry is composed
    session,        \* number of the process
    completed,      \* _completed: per id the encoding and its outcome, or NoEntry
    inFlight,       \* _in_flight
    performed,      \* ids whose use case has come to its end in this session
    call            \* per caller: where its thread is, its request and its outcome

regVars == <<registry, session>>
vars == <<regVars, completed, inFlight, performed, call>>

-------------------------------------------------------------------------------
(* The commands and the parameters each takes.                              *)

PfdParameters ==
    [n \in {"pfd.catalog", "pfd.list", "pfd.import", "pfd.open", "pfd.save", "pfd.restore",
            "pfd.edit", "quantity.display"} |->
        CASE n \in {"pfd.catalog", "pfd.list"} -> "ListDrafts"
          [] n \in {"pfd.save", "pfd.restore"} -> "PfdDocument"
          [] n = "pfd.import" -> "Draft" [] n = "pfd.open" -> "OpenDraft"
          [] n = "pfd.edit" -> "PfdEdit" [] n = "quantity.display" -> "QuantityDisplay"]

HistoryParameters ==
    [n \in {"history.start", "history.list", "history.open", "history.view", "history.edit",
            "history.undo", "history.redo", "history.save", "history.snapshot", "history.branch",
            "history.compare"} |->
        CASE n = "history.start" -> "PfdDocument" [] n = "history.list" -> "ListDrafts"
          [] n = "history.edit" -> "HistoryEdit" [] n = "history.compare" -> "CompareHistory"
          [] OTHER -> "HistoryTarget"]

ServiceParameters ==
    [n \in {"draft.create", "draft.list", "draft.save", "draft.open", "draft.validate", "run.start",
            "run.cancel", "run.inspect", "run.inspect_attempt", "run.list_attempts",
            "run.select_last_valid", "run.compare", "demo.evaluate", "workbook.inspect",
            "result.select_display", "result.overlays", "graph.plot"} |->
        CASE n = "draft.create" -> "CreateDraft" [] n = "draft.list" -> "ListDrafts"
          [] n \in {"draft.save", "draft.validate"} -> "Draft" [] n = "draft.open" -> "OpenDraft"
          [] n = "run.start" -> "StartRun" [] n = "run.cancel" -> "CancelRun"
          [] n = "run.inspect" -> "InspectRun" [] n = "run.inspect_attempt" -> "InspectAttempt"
          [] n = "run.list_attempts" -> "ListAttempts" [] n = "run.select_last_valid" -> "LastValid"
          [] n = "run.compare" -> "CompareRuns" [] n = "demo.evaluate" -> "Demonstration"
          [] n = "workbook.inspect" -> "InspectWorkbook" [] n = "graph.plot" -> "PlotData"
          [] n = "result.select_display" -> "SelectDisplayRun"
          [] n = "result.overlays" -> "GetOverlays"]

Parameters ==
    [n \in DOMAIN ServiceParameters \cup DOMAIN PfdParameters \cup DOMAIN HistoryParameters |->
        IF n \in DOMAIN ServiceParameters THEN ServiceParameters[n]
        ELSE IF n \in DOMAIN PfdParameters THEN PfdParameters[n] ELSE HistoryParameters[n]]

\* The commands a registry advertises.
CommandNames(g) ==
    ((IF g.services = "demonstration" THEN {"demo.evaluate"} ELSE DOMAIN ServiceParameters)
     \cup (IF g.pfd THEN DOMAIN PfdParameters ELSE {})
     \cup (IF g.history THEN DOMAIN HistoryParameters ELSE {}))
    \ g.unavailable

\* The use case a request of this name and type of parameters reaches, or a rejection.
UseCase(g, name, type) ==
    IF name \in DOMAIN HistoryParameters /\ g.history THEN <<"history", name>>
    ELSE IF name \in {"pfd.catalog", "pfd.list"} /\ g.pfd THEN <<"pfd", name>>
    ELSE IF name \in {"pfd.save", "pfd.restore"} /\ g.pfd /\ type = "PfdDocument"
         THEN <<"pfd", name>>
    ELSE IF /\ name \in DOMAIN PfdParameters /\ g.pfd
            /\ type \in {"Draft", "OpenDraft", "PfdEdit", "QuantityDisplay"} THEN <<"pfd", type>>
    ELSE IF type = "Demonstration" THEN <<"services", type>>
    ELSE IF g.services = "demonstration" THEN <<"rejected", "CAPABILITY_UNAVAILABLE">>
    ELSE IF name \in {"draft.save", "draft.validate"} /\ type = "Draft" THEN <<"services", name>>
    ELSE IF type \in {"CreateDraft", "ListDrafts", "OpenDraft", "StartRun", "CancelRun",
                      "InspectRun", "InspectAttempt", "ListAttempts", "LastValid", "CompareRuns",
                      "InspectWorkbook", "SelectDisplayRun", "GetOverlays", "PlotData"}
         THEN <<"services", type>>
    ELSE <<"rejected", "INVALID_COMMAND">>

-------------------------------------------------------------------------------
(* Outcomes and the checks before admission.                                *)

OwnCodes == {"INVALID_COMMAND", "VERSION_MISMATCH", "CAPABILITY_UNAVAILABLE",
             "PROFILE_UNAVAILABLE", "REQUEST_ID_CONFLICT", "REQUEST_IN_FLIGHT"}
Codes == OwnCodes \cup PortCodes

Rejected(code) == [disposition |-> "REJECTED", code |-> code, data |-> {}]
Completed(data) == [disposition |-> "COMPLETED", code |-> "", data |-> data]
Outcomes ==
    [disposition : {"REJECTED"}, code : Codes, data : {{}}]
    \cup [disposition : {"COMPLETED"}, code : {""}, data : Results]
NoOutcome == [disposition |-> "NONE", code |-> "", data |-> {}]

Ids == {r.id : r \in Requests} \ {NoId}
Entries == [request : Requests, outcome : Outcomes]

ASSUME RegistryAssumption ==
    Requests # {} /\ NoEntry \notin Entries /\ MaxSessions \in Nat \ {0}

\* What is wrong with a request by itself; "OK" when nothing is.
Verdict(r) ==
    CASE ~r.wellFormed \/ r.id = NoId \/ r.actor = NoId -> "INVALID_COMMAND"
      [] r.version # CommandVersion -> "VERSION_MISMATCH"
      [] r.command \notin CommandNames(registry) -> "CAPABILITY_UNAVAILABLE"
      [] r.parameters # Parameters[r.command] -> "INVALID_COMMAND"
      [] r.profile # "REVIEW" -> "PROFILE_UNAVAILABLE"
      [] OTHER -> "OK"

Idle == [pc |-> "idle", request |-> CHOOSE r \in Requests : TRUE, outcome |-> NoOutcome]
At(c, pc) == call[c].pc = pc
IdOf(c) == call[c].request.id
GoTo(c, pc, r, o) == call' = [call EXCEPT ![c] = [pc |-> pc, request |-> r, outcome |-> o]]
Answer(c, r, o) == GoTo(c, "answered", r, o)
Refuse(c, code) == Answer(c, Idle.request, Rejected(code))    \* no use case: the request is let go

-------------------------------------------------------------------------------
(* dispatch                                                                 *)

\* mutant: the test for a request under way is left out
AdmitsRunning(r) == completed[r.id] = NoEntry

\* Neither recorded nor under way.
Admits(r) == completed[r.id] = NoEntry /\ r.id \notin inFlight

\* The first section under the lock: reject, replay or admit.
Dispatch(c, r) ==
    /\ At(c, "idle")
    /\ \/ /\ Verdict(r) # "OK"
          /\ Refuse(c, Verdict(r))
          /\ UNCHANGED inFlight
       \/ /\ Verdict(r) = "OK" /\ completed[r.id] # NoEntry
          /\ IF completed[r.id].request = r THEN Answer(c, r, completed[r.id].outcome)
             ELSE Refuse(c, "REQUEST_ID_CONFLICT")
          /\ UNCHANGED inFlight
       \/ /\ Verdict(r) = "OK" /\ completed[r.id] = NoEntry /\ ~Admits(r)
          /\ Refuse(c, "REQUEST_IN_FLIGHT")
          /\ UNCHANGED inFlight
       \/ /\ Verdict(r) = "OK" /\ Admits(r)
          /\ inFlight' = inFlight \cup {r.id}
          /\ GoTo(c, "invoking", r, NoOutcome)
    /\ UNCHANGED <<regVars, completed, performed>>

\* The use case ends, by returning or by an exception that is turned into a rejection.
Invoke(c, o) ==
    /\ At(c, "invoking")
    /\ performed' = performed \cup {IdOf(c)}
    /\ GoTo(c, "recording", call[c].request, o)
    /\ UNCHANGED <<regVars, completed, inFlight>>

\* The thread is interrupted (an exception that is no Exception): nothing is recorded.
Interrupt(c) ==
    /\ At(c, "invoking")
    /\ inFlight' = inFlight \ {IdOf(c)}
    /\ call' = [call EXCEPT ![c] = Idle]
    /\ UNCHANGED <<regVars, completed, performed>>

\* The last section under the lock.
Record(c) ==
    /\ At(c, "recording")
    /\ completed' = [completed EXCEPT ![IdOf(c)] =
                        [request |-> call[c].request, outcome |-> call[c].outcome]]
    /\ inFlight' = inFlight \ {IdOf(c)}
    /\ Answer(c, call[c].request, call[c].outcome)
    /\ UNCHANGED <<regVars, performed>>

Return(c) ==
    /\ At(c, "answered")
    /\ call' = [call EXCEPT ![c] = Idle]
    /\ UNCHANGED <<regVars, completed, inFlight, performed>>

-------------------------------------------------------------------------------

Init ==
    /\ registry \in Registries /\ session = 1
    /\ completed = [i \in Ids |-> NoEntry]
    /\ inFlight = {} /\ performed = {}
    /\ call = [c \in Callers |-> Idle]

\* The process ends at any point and another one starts: nothing of the registry survives.
Restart ==
    /\ session < MaxSessions
    /\ session' = session + 1
    /\ completed' = [i \in Ids |-> NoEntry]
    /\ inFlight' = {} /\ performed' = {}
    /\ call' = [c \in Callers |-> Idle]
    /\ UNCHANGED registry

Next ==
    \/ \E c \in Callers :
          \/ \E r \in Requests : Dispatch(c, r)
          \/ \E o \in Outcomes : Invoke(c, o)
          \/ Interrupt(c) \/ Record(c) \/ Return(c)
    \/ Restart

Spec == Init /\ [][Next]_vars

-------------------------------------------------------------------------------
(* Properties                                                               *)

Call == [pc : {"idle", "invoking", "recording", "answered"}, request : Requests,
         outcome : Outcomes \cup {NoOutcome}]

\* The registry and its callers hold what their types allow.
TypeOK ==
    /\ registry \in Registries /\ session \in 1 .. MaxSessions
    /\ completed \in [Ids -> Entries \cup {NoEntry}]
    /\ inFlight \subseteq Ids /\ performed \subseteq Ids
    /\ call \in [Callers -> Call]

\* dispatch implements OnceLedger: whatever callers repeat, and whenever, the use case of
\* an id comes to its end once per session and its outcome is recorded once; only an
\* interrupted thread leaves an id to be tried again.
Ledger == INSTANCE OnceLedger WITH running <- inFlight, decided <- completed
ImplementsOnce == Ledger!Spec

\* A caller that gets an outcome of a use case gets the one that is recorded for its own
\* request, unless the request was rejected before it could be recorded.
AnswersAreRecorded ==
    \A c \in Callers :
        At(c, "answered") =>
            \/ call[c].outcome \in {Rejected(k) : k \in OwnCodes}
            \/ completed[IdOf(c)] = [request |-> call[c].request, outcome |-> call[c].outcome]

\* Every command a registry advertises reaches a use case, and no two the same one.
AdvertisedIsServed ==
    LET reached == [n \in CommandNames(registry) |-> UseCase(registry, n, Parameters[n])] IN
    /\ "rejected" \notin {reached[n][1] : n \in DOMAIN reached}
    /\ Cardinality({reached[n] : n \in DOMAIN reached}) = Cardinality(DOMAIN reached)
===============================================================================
