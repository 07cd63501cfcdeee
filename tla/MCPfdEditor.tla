------------------------------ MODULE MCPfdEditor ------------------------------
EXTENDS PfdEditor, TLC

Node(model, inputs) == [model |-> model, inputs |-> inputs]
Stream(a, out, b, in) == [source |-> a, out |-> out, target |-> b, in |-> in]

\* A browser draft without handles, as it is imported.
Imported ==
    FromBrowser(1 :> Node("source", "massFlow" :> "1.0") @@ 2 :> Node("mixer", << >>),
                3 :> Stream(1, NoPort, 2, NoPort),
                1 :> Tag("feed", 0) @@ 2 :> Tag("mix", 0))

\* A heater between a source and a sink, with groups and a subsystem.
Grouped ==
    [FromBrowser(1 :> Node("source", << >>) @@ 2 :> Node("heater", "duty" :> "2.0") @@ 3 :> Node("sink", << >>),
                 4 :> Stream(1, 0, 2, 0) @@ 5 :> Stream(2, 0, 3, 0),
                 1 :> Tag("feed", 0) @@ 2 :> Tag("heat", 0) @@ 3 :> Tag("out", 0))
     EXCEPT !.groups = 6 :> {4, 5}, !.active = 6, !.settings.prompt = TRUE, !.subsystems = 7 :> {2, 4}]

\* The sheet it becomes with a split into the other inlet.
Branched == Split(Work(Imported, 4, << >>), 3, 2, 1).doc

MCStart == {Grouped, Branched}
MCClipboards == {Clip(Grouped, {1, 2, 3})}
MCSettings ==
    {[collision |-> "resolve", branchNames |-> "suffix", start |-> 5, prompt |-> TRUE, colour |-> "red"],
     [collision |-> "next-available", branchNames |-> "suffix", start |-> 1, prompt |-> FALSE, colour |-> "grey"],
     [collision |-> "next-available", branchNames |-> "independent", start |-> 1, prompt |-> FALSE, colour |-> "grey"]}
MCNames == {NoTag, Tag("S", 3)}
===============================================================================
