------------------------------ MODULE ResultViews ------------------------------
(***************************************************************************)
(* What adapters/storage.py makes of a stored run for its readers: the     *)
(* rows and balances of the workbook, and the temperature profiles of      *)
(* single units.                                                           *)
(*                                                                         *)
(* The views are functions of the run and the case it was computed from;   *)
(* they derive everything anew from the port values.  Fluids, properties,  *)
(* diagnostics, labels and the choice of the run are left out; so are the  *)
(* plot of residuals, which a run without a solver has none of, and the    *)
(* badges of the canvas, which copy the rows.                              *)
(***************************************************************************)
EXTENDS FlowsheetRunner

CONSTANT None       \* no value in a field of a row

\* unit_evals and port_values, also of a run that failed on the way.
Evaluated == {evaluations[i][1] : i \in DOMAIN evaluations}
ValidityOf(u) == LET i == CHOOSE i \in DOMAIN evaluations : evaluations[i][1] = u
                 IN  evaluations[i][2]
IsMaterial(k) == k \in DOMAIN outputs /\ outputs[k].kind = "material"
IsEnergy(k) == k \in DOMAIN outputs /\ outputs[k].kind = "energy"

-------------------------------------------------------------------------------
(* The workbook *)

\* The row of the value that port `from` puts out.
Row(id, from, to) ==
    [stream |-> id, from |-> from, to |-> to,
     mass_flow |-> IF IsMaterial(from) THEN outputs[from].flow ELSE None,
     temperature |-> IF IsMaterial(from) THEN outputs[from].temperature ELSE None,
     enthalpy_flow |-> IF IsMaterial(from) THEN outputs[from].heat ELSE None,
     duty |-> IF IsEnergy(from) THEN outputs[from].duty ELSE None]

\* Without connections there is a row for every entry of port_values, which knows each
\* value by its ids with and without their prefixes.
Spellings == {"given", "clean"} \X {"given", "clean"}
StreamRows ==
    IF case.connections # {}
    THEN {Row(c.id, <<c.source, c.out>>, <<c.target, c.in>>) : c \in case.connections}
    ELSE {Row(<<k, s>>, k, None) : k \in {k \in DOMAIN outputs : IsMaterial(k)}, s \in Spellings}

\* The metric "duty" of heaters, radiators and heat exchangers; no other unit has a duty
\* or an energy output.
Duties(u) ==
    LET p == case.units[u].parameters
    IN  CASE case.units[u].model = "heater" -> {p.duty}
          [] case.units[u].model = "radiator" -> {RadiatorDuty(p, InputValues(u))}
          [] case.units[u].model = "heat_exchanger" -> {ExchangerDuty(p, InputValues(u))}
          [] OTHER -> {}

EquipmentRow(u) ==
    IF u \in Evaluated
    THEN [unit |-> u, duties |-> Duties(u), convergence |-> result.convergence,
          closure |-> result.closure, validity |-> ValidityOf(u)]
    ELSE [unit |-> u, duties |-> {}, convergence |-> "NOT_RUN",
          closure |-> "NOT_CHECKED", validity |-> "UNKNOWN"]
EquipmentRows == {EquipmentRow(u) : u \in Units}

\* Totals of the sheet: what sources put out, and what is upstream of the sinks.
SourceKeys == {k \in DOMAIN outputs : k[1] \in OfModel("source") /\ IsMaterial(k)}
SinkConnections ==
    {c \in case.connections : c.target \in OfModel("sink") /\ IsMaterial(<<c.source, c.out>>)}
Total(field, keyOf) == SumFunction([x \in DOMAIN keyOf |-> outputs[keyOf[x]][field]])
InletTotal(field) == Total(field, [k \in SourceKeys |-> k])
OutletTotal(field) == Total(field, [c \in SinkConnections |-> <<c.source, c.out>>])
DutiesOf(keys) == Total("duty", [k \in {k \in keys : IsEnergy(k)} |-> k])

\* mutant: the duty of heaters only
DutyOfHeaters == DutiesOf({k \in DOMAIN outputs : k[1] \in OfModel("heater")})

DutyTotal == DutiesOf(DOMAIN outputs)

\* A row per balance of the run, of which a failed one has none; the residual is the run's.
Balances ==
    IF result.convergence # "CONVERGED" THEN {}
    ELSE {[balance_type |-> "MASS", inlet_total |-> InletTotal("flow"),
           outlet_total |-> OutletTotal("flow"), generation_or_duty |-> 0,
           residual |-> MassResidual],
          [balance_type |-> "ENERGY", inlet_total |-> InletTotal("heat"),
           outlet_total |-> OutletTotal("heat"), generation_or_duty |-> DutyTotal,
           residual |-> EnergyResidual]}

-------------------------------------------------------------------------------
(* Plots: each series has two points <<heat, temperature>>, or one per stream. *)

Feeds(u) == {c \in case.connections : c.target = u /\ IsMaterial(<<c.source, c.out>>)}
Temperature(c) == outputs[<<c.source, c.out>>].temperature

\* mutant: both streams end at the hot outlet
ExchangerSeriesHotTwice(u) ==
    {<<<<0, Temperature(c)>>, <<q, outputs[<<u, "hot-out">>].temperature>>>> :
        c \in Feeds(u), q \in Duties(u)}
\* Both streams are drawn from their inlets at the left.
ExchangerSeries(u) ==
    {<<<<0, Temperature(m[1])>>, <<q, outputs[<<u, m[2]>>].temperature>>>> :
        m \in {m \in Feeds(u) \X {"hot-out", "cold-out"} :
            <<m[1].in, m[2]>> \in {<<"hot-in", "hot-out">>, <<"cold-in", "cold-out">>}},
        q \in Duties(u)}
\* Radiators and heaters; other units have no duty, and their plot has no series.
ThermalSeries(u) ==
    {<<<<0, Temperature(c)>>, <<IF q < 0 THEN - q ELSE q, outputs[<<u, "outlet">>].temperature>>>> :
        c \in Feeds(u), q \in Duties(u)}

ProcessPlot == {r.temperature : r \in {r \in StreamRows : r.temperature # None}}

\* A unit that was not evaluated gets the plot of the whole process.
Plot(u) ==
    IF u \notin Evaluated THEN [unit |-> None, series |-> {}, points |-> ProcessPlot]
    ELSE [unit |-> u, points |-> {},
          series |-> IF case.units[u].model = "heat_exchanger" THEN ExchangerSeries(u)
                     ELSE ThermalSeries(u)]

-------------------------------------------------------------------------------
(* Properties *)

Returned == pc = "returned"

\* docs/native/DW5_CHANGE_RECORD.md:39 The balances of the workbook are added up again from
\* the case and its port values: what is shown accounts for the residuals of the run, and
\* closes if and only if the run says so.
BalancesAccount ==
    Returned =>
        /\ \A b \in Balances :
             b.inlet_total + b.generation_or_duty - b.outlet_total = b.residual
        /\ Converged => (result.closure = "PASSED" <=>
             \A b \in Balances : b.inlet_total + b.generation_or_duty = b.outlet_total)

\* A profile is that of one stream through the unit: it runs from the temperature at an inlet
\* to that at the outlet, over the heat which that stream gains or loses, whatever is
\* connected and wherever the run stopped.
IsOfStream(u, s) ==
    \E c \in Feeds(u), o \in {k \in DOMAIN outputs : k[1] = u /\ IsMaterial(k)} :
        LET inlet == outputs[<<c.source, c.out>>]
            gained == outputs[o].heat - inlet.heat
        IN  /\ outputs[o].material = inlet.material /\ outputs[o].flow = inlet.flow
            /\ s[1] = <<0, inlet.temperature>> /\ s[2][2] = outputs[o].temperature
            /\ s[2][1] \in {gained, - gained}
ProfilesAreStreams == Returned => \A u \in Units : \A s \in Plot(u).series : IsOfStream(u, s)

\* docs/native/DW5_CHANGE_RECORD.md:43 "Heat exchanger and radiator profiles enforce
\* non-negative temperature approach".  (They do not: the streams are drawn side by side
\* from their inlets, and a good exchanger lets the cold one leave hotter than the hot one.)
ProfilesDoNotCross ==
    Returned => \A u \in Units \cap Evaluated :
        case.units[u].model = "heat_exchanger" =>
            \E hot \in Plot(u).series : \A cold \in Plot(u).series : \A i \in 1 .. 2 :
                hot[i][2] >= cold[i][2]
===============================================================================
