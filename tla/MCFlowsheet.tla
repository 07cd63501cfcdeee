------------------------------ MODULE MCFlowsheet ------------------------------
(* Instances of FlowsheetRunner and ResultViews for TLC: sheets of up to five units *)
(* with every way to connect them, complete or not.                                 *)
EXTENDS ResultViews

CONSTANTS water, oil

MCMaterials == {water, oil}
MCEvidence == [m \in MCMaterials |-> IF m = water THEN 2 .. 5 ELSE 1 .. 8]
MCHard == [m \in MCMaterials |-> 0 .. 9]

Source(m, f, t) ==
    [model |-> "source",
     parameters |-> [mass_flow |-> f, temperature |-> t, pressure |-> 1, material_id |-> m]]
Sink == [model |-> "sink", parameters |-> << >>]
Mixer == [model |-> "mixer", parameters |-> << >>]
Splitter(n) == [model |-> "splitter", parameters |-> [split_fraction |-> n]]
Heater(q) == [model |-> "heater", parameters |-> [duty |-> q]]
Exchanger(n) == [model |-> "heat_exchanger", parameters |-> [effectiveness |-> n]]
Radiator(t) ==
    [model |-> "radiator", parameters |-> [outlet_temperature |-> t, emissivity |-> 1]]
Unfinished == [model |-> "heater", parameters |-> << >>]
Pump == [model |-> "pump", parameters |-> << >>]

\* The sheet is written against the order of ids and along it.
Loops == {<<Sink, Mixer, Splitter(n), Source(water, 4, 3)>> : n \in 0 .. 2}
\* One branch is heated before both meet again.
Branches == {<<Mixer, Source(water, 4, 3), Heater(4), Sink, Splitter(1)>>}
Lines == {<<Source(water, 4, 3), Heater(8), Radiator(t), Sink>> : t \in {1, 2, 9}}
         \cup {<<Radiator(2), Sink, Heater(q), Source(water, f, 3)>> : q \in {4, 40}, f \in {0, 4}}
Exchangers ==
    {<<Source(oil, 4, tn[1]), Exchanger(tn[2]), Source(water, 4, 2), Sink, Sink>> :
        tn \in {<<7, 0>>, <<7, 1>>, <<4, 2>>}}
\* One outlet more than there are inlets.
Leaks == {<<Source(water, 4, 3), Heater(16), Source(water, f, 3), Sink>> : f \in {0, 4}}
Mixtures == {<<Sink, Mixer, Source(water, 4, 2), Source(m, 4, 5)>> : m \in MCMaterials}
Broken == {<<Source(water, 4, 3), u, Sink>> : u \in {Unfinished, Pump, Heater(4)}}

Join(u, o, v, i) == [id |-> 1, source |-> u, out |-> o, target |-> v, in |-> i]
\* Every connection of an outlet to an inlet.
Possible(units) ==
    UNION {{Join(u, p.id, v, q.id) :
              p \in {r \in ModelPorts[units[u].model] : r.direction = "output" /\ r.kind = "material"},
              q \in {r \in ModelPorts[units[v].model] : r.direction = "input"}} :
           u, v \in {w \in DOMAIN units : units[w].model \in ModelIds}}
\* Connections that no compiler should accept, and one drawn twice.
Wrong ==
    {Join(2, "duty", 3, "inlet"), Join(3, "inlet", 2, "inlet"), Join(1, "vent", 3, "inlet"),
     Join(9, "outlet", 3, "inlet"), Join(1, "outlet", 2, "inlet"),
     [Join(1, "outlet", 3, "inlet") EXCEPT !.id = 2]}

\* A source with nothing to flow to.
Alone == {<<Source(water, 4, 3)>>}

MCSheets == Alone \cup Loops \cup Branches \cup Lines \cup Exchangers \cup Leaks \cup Mixtures \cup Broken
\* ClosesUnlessLeaking is for sheets like these.
ASSUME MCForward == FlowsForward

\* Units connected to themselves are among the loops, wrong connections among the broken.
MCConnections(units) ==
    {c \in Possible(units) : units \in Branches => c.source # c.target}
    \cup (IF units \in Broken THEN Wrong ELSE {})
===============================================================================
