---------------------------- MODULE ReferenceDraft ----------------------------
(***************************************************************************)
(* What becomes of a native document outside of the editor: the browser    *)
(* format (src/bh_sim/adapters/browser_format.py) and the neutral case     *)
(* the engine compiles (src/bh_sim/adapters/reference.py), both of which   *)
(* refuse what they cannot represent.                                      *)
(***************************************************************************)
EXTENDS PfdDocuments

Refused == [refused |-> TRUE]

\* from_browser gives every node a label and every edge an entry without one.
FromBrowser(nodes, streams, labels) ==
    ImportDraft(nodes, streams,
        [i \in DOMAIN nodes \cup DOMAIN streams |->
            [kind |-> IF i \in DOMAIN nodes THEN "equipment" ELSE "connection",
             label |-> IF i \in DOMAIN nodes THEN labels[i] ELSE NoTag, layout |-> 0]])

\* to_browser: an entry for an object that is not there, or of another kind, is refused.
ToBrowser(doc) ==
    LET kindOf(i) == IF i \in DOMAIN doc.nodes THEN "equipment" ELSE "connection" IN
    IF \E i \in DOMAIN doc.shown :
          i \notin DOMAIN doc.nodes \cup DOMAIN doc.streams \/ doc.shown[i].kind # kindOf(i)
    THEN Refused
    ELSE [nodes |-> doc.nodes, edges |-> doc.streams,
          labels |-> [i \in DOMAIN doc.nodes |-> IF i \in DOMAIN doc.shown THEN doc.shown[i].label ELSE NoTag]]

-------------------------------------------------------------------------------
(* draft_to_contract                                                        *)

\* The adapter's own tables: engine names of parameters and of ports, by position.
EngineParameter ==
    [massFlow |-> "mass_flow", temperature |-> "temperature", pressure |-> "pressure", duty |-> "duty",
     targetTemperature |-> "outlet_temperature", emissivity |-> "emissivity",
     splitFraction |-> "split_fraction", effectiveness |-> "effectiveness"]
Accepts(model, name) ==
    name \in CASE model = "source" -> {"massFlow", "temperature", "pressure"}
               [] model = "heater" -> {"duty"}
               [] model = "radiator" -> {"targetTemperature", "emissivity"}
               [] model = "splitter" -> {"splitFraction"}
               [] model = "heat_exchanger" -> {"effectiveness"}
               [] OTHER -> {}

InputPorts ==
    [sink |-> <<"inlet">>, heater |-> <<"inlet">>, radiator |-> <<"inlet">>, splitter |-> <<"inlet">>,
     mixer |-> <<"inlet_a", "inlet_b">>, heat_exchanger |-> <<"hot_in", "cold_in">>, source |-> << >>]
OutputPorts ==
    [source |-> <<"outlet">>, heater |-> <<"outlet">>, radiator |-> <<"outlet">>, mixer |-> <<"outlet">>,
     splitter |-> <<"outlet_a", "outlet_b">>, heat_exchanger |-> <<"hot_out", "cold_out">>, sink |-> << >>]

\* A stream's ends as the engine names them, or nothing that exists.
StreamFits(doc, s) ==
    /\ s.source \in DOMAIN doc.nodes /\ s.target \in DOMAIN doc.nodes
    /\ Or0(s.out) < Len(OutputPorts[doc.nodes[s.source].model])
    /\ Or0(s.in) < Len(InputPorts[doc.nodes[s.target].model])

Connection(doc, s) ==
    [from |-> <<s.source, OutputPorts[doc.nodes[s.source].model][Or0(s.out) + 1]>>,
     to |-> <<s.target, InputPorts[doc.nodes[s.target].model][Or0(s.in) + 1]>>]

Unit(doc, i) ==
    [kind |-> doc.nodes[i].model,
     title |-> IF i \in DOMAIN doc.shown THEN doc.shown[i].label ELSE NoTag,
     parameters |-> {<<EngineParameter[name], doc.nodes[i].inputs[name]>> : name \in DOMAIN doc.nodes[i].inputs}]

DraftToContract(doc) ==
    IF \/ \E i \in DOMAIN doc.nodes : \E name \in DOMAIN doc.nodes[i].inputs : ~Accepts(doc.nodes[i].model, name)
       \/ \E s \in DOMAIN doc.streams : ~StreamFits(doc, doc.streams[s])
    THEN Refused
    ELSE [units |-> [i \in DOMAIN doc.nodes |-> Unit(doc, i)],
          connections |-> [s \in DOMAIN doc.streams |-> Connection(doc, doc.streams[s])]]
===============================================================================
