---------------------------- MODULE FlowsheetModels ----------------------------
(***************************************************************************)
(* The catalogue of unit models: engine/models.py over the reference       *)
(* liquids of engine/properties.py.                                        *)
(*                                                                         *)
(* Quantities are whole numbers: the heat capacity is 1, so that a         *)
(* temperature is a specific enthalpy, and a stream carries its enthalpy   *)
(* flow ("heat") along, which stays exact when a temperature is rounded    *)
(* down.  Shares are numbers of halves of even quantities.  Pressure,      *)
(* phases, metrics, residuals and audit records are left out.              *)
(***************************************************************************)
EXTENDS Integers, FiniteSetsExt, SequencesExt

CONSTANTS
    Materials,      \* materials of the case with a property package
    Evidence,       \* per material, the temperatures its data cover
    Hard            \* per material, the temperatures its correlation is safe for

ASSUME ModelsAssumption ==
    \A m \in Materials : Evidence[m] \subseteq Hard[m] /\ Hard[m] \subseteq Nat

-------------------------------------------------------------------------------
(* Descriptors *)

Port(id, kind, direction) == [id |-> id, kind |-> kind, direction |-> direction]
In(id) == Port(id, "material", "input")
Out(id) == Port(id, "material", "output")
Duty == Port("duty", "energy", "output")

ModelPorts ==
    [source |-> {Out("outlet")},
     sink |-> {In("inlet")},
     heater |-> {In("inlet"), Out("outlet"), Duty},
     mixer |-> {In("inlet-a"), In("inlet-b"), Out("outlet")},
     splitter |-> {In("inlet"), Out("outlet-a"), Out("outlet-b")},
     heat_exchanger |-> {In("hot-in"), Out("hot-out"), In("cold-in"), Out("cold-out")},
     radiator |-> {In("inlet"), Out("outlet"), Duty}]

\* Names of the parameters and of the metadata a unit must give.
Required ==
    [source |-> {"mass_flow", "temperature", "pressure", "material_id"},
     sink |-> {}, heater |-> {"duty"}, mixer |-> {}, splitter |-> {"split_fraction"},
     heat_exchanger |-> {"effectiveness"}, radiator |-> {"outlet_temperature", "emissivity"}]

ModelIds == DOMAIN ModelPorts

\* A connection joins an output to an input of the same kind.
PortsAreCompatible(p, q) ==
    p.direction = "output" /\ q.direction = "input" /\ p.kind = q.kind

-------------------------------------------------------------------------------
(* Validity and flash *)

Rank == [UNKNOWN |-> 0, VALID |-> 1, EXTRAPOLATED |-> 2, INVALID |-> 3]
WorstValidity(S) ==
    IF S = {} THEN "UNKNOWN" ELSE CHOOSE v \in S : \A w \in S : Rank[v] >= Rank[w]

\* flash raises outside the hard domain; otherwise this is the validity it finds.
CanFlash(m, t) == t \in Hard[m]
FlashValidity(m, t) == IF t \in Evidence[m] THEN "VALID" ELSE "EXTRAPOLATED"

\* The state of flow f of material m that carries heat h.
Stream(m, f, h, t) ==
    [kind |-> "material", material |-> m, flow |-> f, heat |-> h, temperature |-> t,
     validity |-> FlashValidity(m, t)]
\* The temperature at which flow f, either way round, carries heat h.
TemperatureOf(f, h) == IF f > 0 THEN h \div f ELSE (- h) \div (- f)
\* An H-P flash; the division raises without flow.
StreamOfHeat(m, f, h) == Stream(m, f, h, TemperatureOf(f, h))
CanFlashHeat(m, f, h) == f # 0 /\ CanFlash(m, TemperatureOf(f, h))

Power(q) == [kind |-> "energy", duty |-> q]

-------------------------------------------------------------------------------
(* What each model makes of its parameters p and its input streams x: nothing when it   *)
(* raises, or else the values of its output ports and its validity.                     *)

Evaluation(outputs, validity) == {[outputs |-> outputs, validity |-> validity]}

EvaluateSource(p, x) ==
    LET m == p.material_id
        outlet == Stream(m, p.mass_flow, p.mass_flow * p.temperature, p.temperature)
    IN  IF m \notin Materials \/ ~ CanFlash(m, p.temperature) THEN {}
        ELSE Evaluation([outlet |-> outlet], outlet.validity)

EvaluateSink(p, x) == Evaluation(<< >>, x.inlet.validity)

\* mutant: the outlet is as valid as the inlet
EvaluateHeaterAsInlet(p, x) ==
    LET i == x.inlet
        outlet == StreamOfHeat(i.material, i.flow, i.heat + p.duty)
    IN  IF i.flow <= 0 \/ ~ CanFlashHeat(i.material, i.flow, i.heat + p.duty) THEN {}
        ELSE Evaluation([outlet |-> outlet, duty |-> Power(p.duty)], i.validity)
EvaluateHeater(p, x) ==
    LET i == x.inlet
        outlet == StreamOfHeat(i.material, i.flow, i.heat + p.duty)
    IN  IF i.flow <= 0 \/ ~ CanFlashHeat(i.material, i.flow, i.heat + p.duty) THEN {}
        ELSE Evaluation([outlet |-> outlet, duty |-> Power(p.duty)],
                        WorstValidity({i.validity, outlet.validity}))

\* The duty that brings the stream to the target.
RadiatorDuty(p, x) == x.inlet.flow * p.outlet_temperature - x.inlet.heat

\* mutant: the duty is reported as the heat rejected, without its sign
EvaluateRadiatorUnsigned(p, x) ==
    LET i == x.inlet
        q == RadiatorDuty(p, x)
    IN  IF ~ CanFlash(i.material, p.outlet_temperature) \/ q > 0 THEN {}
        ELSE {[e EXCEPT !.outputs.duty = Power(- q)] : e \in EvaluateHeater([duty |-> q], x)}
\* A heater with that duty, which may not heat.
EvaluateRadiator(p, x) ==
    LET i == x.inlet
        q == RadiatorDuty(p, x)
    IN  IF ~ CanFlash(i.material, p.outlet_temperature) \/ q > 0 THEN {}
        ELSE EvaluateHeater([duty |-> q], x)

EvaluateMixer(p, x) ==
    LET a == x["inlet-a"]
        b == x["inlet-b"]
        outlet == StreamOfHeat(a.material, a.flow + b.flow, a.heat + b.heat)
    IN  IF a.material # b.material \/ ~ CanFlashHeat(a.material, a.flow + b.flow, a.heat + b.heat)
        THEN {}
        ELSE Evaluation([outlet |-> outlet],
                        WorstValidity({a.validity, b.validity, outlet.validity}))

\* Both outlets keep the state of the inlet.  What has no whole half is left to EvaluationFails.
EvaluateSplitter(p, x) ==
    LET i == x.inlet
        Share(n) == [i EXCEPT !.flow = (i.flow * n) \div 2, !.heat = (i.heat * n) \div 2]
        n == p.split_fraction
    IN  IF n \notin 0 .. 2 \/ i.flow % 2 # 0 \/ i.heat % 2 # 0 THEN {}
        ELSE Evaluation([o \in {"outlet-a", "outlet-b"} |-> Share(IF o = "outlet-a" THEN n ELSE 2 - n)],
                        i.validity)

\* The heat that can pass is what either stream would exchange at the other's temperature.
ExchangerDuty(p, x) ==
    LET h == x["hot-in"]
        c == x["cold-in"]
        hotLimit == h.heat - h.flow * c.temperature
        coldLimit == c.flow * h.temperature - c.heat
    IN  (p.effectiveness * Min({hotLimit, coldLimit})) \div 2
EvaluateExchanger(p, x) ==
    LET h == x["hot-in"]
        c == x["cold-in"]
        q == ExchangerDuty(p, x)
        hot == StreamOfHeat(h.material, h.flow, h.heat - q)
        cold == StreamOfHeat(c.material, c.flow, c.heat + q)
    IN  IF \/ p.effectiveness \notin 0 .. 2 \/ h.temperature <= c.temperature
           \/ ~ CanFlash(h.material, c.temperature) \/ ~ CanFlash(c.material, h.temperature)
           \/ ~ CanFlashHeat(h.material, h.flow, h.heat - q)
           \/ ~ CanFlashHeat(c.material, c.flow, c.heat + q)
        THEN {}
        ELSE Evaluation([o \in {"hot-out", "cold-out"} |-> IF o = "hot-out" THEN hot ELSE cold],
                        WorstValidity({h.validity, c.validity, hot.validity, cold.validity}))

Evaluate(unit, x) ==
    LET p == unit.parameters
    IN  CASE unit.model = "source" -> EvaluateSource(p, x)
          [] unit.model = "sink" -> EvaluateSink(p, x)
          [] unit.model = "heater" -> EvaluateHeater(p, x)
          [] unit.model = "mixer" -> EvaluateMixer(p, x)
          [] unit.model = "splitter" -> EvaluateSplitter(p, x)
          [] unit.model = "heat_exchanger" -> EvaluateExchanger(p, x)
          [] unit.model = "radiator" -> EvaluateRadiator(p, x)

\* The temperatures at which a model asks the property data of a material.
Consulted(unit, x, outputs) ==
    {<<outputs[o].material, outputs[o].temperature>> :
        o \in {q \in DOMAIN outputs : outputs[q].kind = "material"}}
    \cup (IF unit.model # "heat_exchanger" THEN {}
          ELSE {<<x["hot-in"].material, x["cold-in"].temperature>>,
                <<x["cold-in"].material, x["hot-in"].temperature>>})
    \cup (IF unit.model # "radiator" THEN {}
          ELSE {<<x.inlet.material, unit.parameters.outlet_temperature>>})
===============================================================================
