---------------------------- MODULE FlowsheetRunner ----------------------------
(***************************************************************************)
(* AcyclicRunEngine.run of engine/runner.py: compile a case, evaluate its  *)
(* units one after the other, and balance what flowed in and out.          *)
(***************************************************************************)
EXTENDS FlowsheetCompiler

CONSTANTS
    Sheets,         \* sheets of units, as functions from their ids
    Connections(_), \* the connections that may be drawn on a sheet
    MaxConnections, \* bound on those of a case
    NoReport

\* A case has finitely many units; their ids are numbers in the order of the id strings, and
\* their parameters, but for the name of a material, are quantities.
ASSUME SheetsAssumption ==
    \A units \in Sheets :
        /\ IsFiniteSet(DOMAIN units) /\ DOMAIN units \subseteq Nat
        /\ \A u \in DOMAIN units : \A name \in DOMAIN units[u].parameters \ {"material_id"} :
              units[u].parameters[name] \in Int

VARIABLES
    pc,             \* where run is
    case,           \* the case it was given
    report,         \* what the compiler says of it
    evaluations,    \* <<unit, validity>> of the units evaluated so far, in order
    outputs,        \* values by <<unit, output port>>
    result          \* what run returned last

vars == <<pc, case, report, evaluations, outputs, result>>

Units == DOMAIN case.units
Order == report.execution_order

-------------------------------------------------------------------------------
Result(convergence, closure, physical, correlation) ==
    [convergence |-> convergence, closure |-> closure,
     physical |-> physical, correlation |-> correlation]
NoResult == Result("NOT_RUN", "NOT_CHECKED", "UNKNOWN", "UNKNOWN")

Validities == {evaluations[i][2] : i \in DOMAIN evaluations}

\* A case is drawn one connection after the other; each is a new CaseDefinition.
Connect(c) ==
    /\ pc = "drawn" /\ c \notin case.connections
    /\ Cardinality(case.connections) < MaxConnections
    /\ case' = [case EXCEPT !.connections = @ \cup {c}]
    /\ UNCHANGED <<pc, report, evaluations, outputs, result>>

Run ==
    /\ pc = "drawn" /\ pc' = "compiled"
    /\ report' = Compile(case)
    /\ UNCHANGED <<case, evaluations, outputs, result>>

Finish(r) == pc' = "returned" /\ result' = r

\* A case that is not valid is a failed result, not an error.
Validate ==
    /\ pc = "compiled"
    /\ IF report.valid THEN pc' = "evaluate" /\ UNCHANGED result
       ELSE Finish(Result("FAILED", "NOT_CHECKED", "INVALID", "UNKNOWN"))
    /\ UNCHANGED <<case, report, evaluations, outputs>>

-------------------------------------------------------------------------------
(* Evaluation of the next unit *)

Next_unit == Order[Len(evaluations) + 1]

\* mutant: an input is taken from any connection to the unit
FeedOfUnit(u, p) == CHOOSE c \in case.connections : c.target = u
\* connections_by_target
Feed(u, p) == CHOOSE c \in case.connections : c.target = u /\ c.in = p

\* The inputs of unit u, all of which the compiler has found connected.
Upstream(u, p) == LET c == Feed(u, p) IN <<c.source, c.out>>
InputPorts(u) == {p.id : p \in Inlets(case, u)}
InputValues(u) == [p \in InputPorts(u) |-> outputs[Upstream(u, p)]]

Put(u, e) ==
    /\ evaluations' = Append(evaluations, <<u, e.validity>>)
    /\ LET values == {<<u, o>> : o \in DOMAIN e.outputs}
       IN  outputs' = [k \in DOMAIN outputs \cup values |->
                          IF k \in values THEN e.outputs[k[2]] ELSE outputs[k]]

EvaluateNext ==
    /\ pc = "evaluate" /\ Len(evaluations) < Len(Order)
    /\ \E e \in Evaluate(case.units[Next_unit], InputValues(Next_unit)) : Put(Next_unit, e)
    /\ UNCHANGED <<pc, case, report, result>>

\* A unit raises: its inputs are outside its domain, or for a numerical reason that is left
\* out (emissivity, heat capacity, inversion of enthalpies).
EvaluationFails ==
    /\ pc = "evaluate" /\ Len(evaluations) < Len(Order)
    /\ Finish(Result("FAILED", "NOT_CHECKED", "INVALID", WorstValidity(Validities)))
    /\ UNCHANGED <<case, report, evaluations, outputs>>

-------------------------------------------------------------------------------
(* Balances *)

OfModel(m) == {u \in Units : case.units[u].model = m}
SourceValues == {k \in DOMAIN outputs : k[1] \in OfModel("source")}

SourceFlow == SumFunction([k \in SourceValues |-> outputs[k].flow])
SourceHeat == SumFunction([k \in SourceValues |-> outputs[k].heat])
SinkFlow == SumFunction([u \in OfModel("sink") |-> outputs[Upstream(u, "inlet")].flow])
SinkHeat == SumFunction([u \in OfModel("sink") |-> outputs[Upstream(u, "inlet")].heat])
EquipmentDuty ==
    SumFunction([k \in {k \in DOMAIN outputs : outputs[k].kind = "energy"} |-> outputs[k].duty])

MassResidual == SourceFlow - SinkFlow
EnergyResidual == SourceHeat + EquipmentDuty - SinkHeat

\* Tolerances, relative ones of 1e-8, are zero in whole numbers.
Closure == IF MassResidual = 0 /\ EnergyResidual = 0 THEN "PASSED" ELSE "FAILED"

Balance ==
    /\ pc = "evaluate" /\ Len(evaluations) = Len(Order)
    /\ LET worst == WorstValidity(Validities)
       IN  Finish(Result("CONVERGED", Closure,
                         IF worst = "INVALID" THEN "INVALID" ELSE "VALID", worst))
    /\ UNCHANGED <<case, report, evaluations, outputs>>

-------------------------------------------------------------------------------
Init ==
    /\ pc = "drawn" /\ report = NoReport
    /\ \E units \in Sheets : case = [units |-> units, connections |-> {}]
    /\ evaluations = << >> /\ outputs = << >> /\ result = NoResult

Next ==
    \/ \E c \in Connections(case.units) : Connect(c)
    \/ Run \/ Validate \/ EvaluateNext \/ EvaluationFails \/ Balance

Spec == Init /\ [][Next]_vars
-------------------------------------------------------------------------------
(* Properties *)

Statuses ==
    [convergence : {"NOT_RUN", "CONVERGED", "FAILED"},
     closure : {"NOT_CHECKED", "PASSED", "FAILED"},
     physical : DOMAIN Rank, correlation : DOMAIN Rank]

\* Outputs are those of the units evaluated, one by one of their output ports.
TypeOK ==
    /\ pc \in {"drawn", "compiled", "evaluate", "returned"}
    /\ case.units \in Sheets /\ case.connections \subseteq Connections(case.units)
    /\ evaluations \in Seq(Units \X DOMAIN Rank)
    /\ result \in Statuses
    /\ \A k \in DOMAIN outputs :
         /\ \E i \in DOMAIN evaluations : evaluations[i][1] = k[1]
         /\ \E p \in PortsOf(case, k[1]) :
              p.id = k[2] /\ p.direction = "output" /\ p.kind = outputs[k].kind

\* What the compiler calls valid is what can be evaluated: some order of all units feeds
\* every inlet once, from an outlet before it that feeds nothing else, and nothing that a
\* unit needs or that a connection refers to is missing.
CanBeOrdered ==
    \E rank \in [Units -> 1 .. Cardinality(Units)] :
        \A c \in case.connections : rank[c.source] < rank[c.target]
WellPosed ==
    /\ \A u \in Units :
         /\ case.units[u].model \in ModelIds
         /\ Required[case.units[u].model] \subseteq DOMAIN case.units[u].parameters
    /\ \A c \in case.connections :
         /\ {c.source, c.target} \subseteq Units
         /\ Out(c.out) \in PortsOf(case, c.source) /\ In(c.in) \in PortsOf(case, c.target)
    /\ \A u \in Units : \A p \in Inlets(case, u) :
         Cardinality({c \in case.connections : c.target = u /\ c.in = p.id}) = 1
    /\ \A c, d \in case.connections : c.source = d.source /\ c.out = d.out => c = d
    /\ CanBeOrdered
ValidIsWellPosed == pc = "compiled" => (report.valid <=> WellPosed)

\* One pass is enough: the outputs of a converged run solve the equations of all units at
\* once, so nothing that was evaluated early depended on what came later.
Converged == result.convergence = "CONVERGED"
SolvesTheSheet ==
    Converged => \A u \in Units :
        \E e \in Evaluate(case.units[u],
                          [p \in InputPorts(u) |->
                             LET c == CHOOSE c \in case.connections : c.target = u /\ c.in = p
                             IN  outputs[<<c.source, c.out>>]]) :
            \A o \in DOMAIN e.outputs : outputs[<<u, o>>] = e.outputs[o]

\* Balances of single units add up to those of the sheet: a converged run closes unless an
\* outlet with something in it leads nowhere.  This is for sheets whose sources put in what
\* they are given; a negative flow, which the code takes, could make up for a leak.
FlowsForward ==
    \A units \in Sheets : \A u \in DOMAIN units :
        units[u].model = "source" /\ "mass_flow" \in DOMAIN units[u].parameters =>
            units[u].parameters.mass_flow >= 0
NothingLeaks ==
    \A u \in Units : \A p \in PortsOf(case, u) :
        p.direction = "output" /\ p.kind = "material" /\ outputs[<<u, p.id>>].flow > 0 =>
            \E c \in case.connections : c.source = u /\ c.out = p.id
ClosesUnlessLeaking == Converged => (result.closure = "PASSED" <=> NothingLeaks)

\* docs/DECISIONS.md ADR-004: no stream of a run that is VALID lies outside the evidence,
\* also where the streams before and after it are inside.
ValidStreamsAreBacked ==
    Converged /\ result.correlation = "VALID" =>
        \A k \in DOMAIN outputs :
            outputs[k].kind = "material" =>
                outputs[k].temperature \in Evidence[outputs[k].material]

\* docs/DECISIONS.md:45 a model that extrapolates "must mark the result `EXTRAPOLATED`": of
\* all property data that a model asks for.  (It does not: the limits of a heat exchanger.)
ExtrapolationIsMarked ==
    Converged /\ result.correlation = "VALID" =>
        \A u \in Units :
            LET x == InputValues(u)
                own == {k \in DOMAIN outputs : k[1] = u}
            IN  \A q \in Consulted(case.units[u], x, [o \in {k[2] : k \in own} |-> outputs[<<u, o>>]]) :
                    q[2] \in Evidence[q[1]]
===============================================================================
