--------------------------- MODULE FlowsheetCompiler ---------------------------
(***************************************************************************)
(* engine/compiler.py: is a case well posed, and in which order are its    *)
(* units evaluated?                                                        *)
(*                                                                         *)
(* A case has units, a function from ids to models and parameters, and     *)
(* connections.  Ids are numbers in the order of the id strings.  The      *)
(* order of a cyclic sheet, which nothing runs by, and the list of         *)
(* variables are left out.                                                 *)
(***************************************************************************)
EXTENDS FlowsheetModels, Graphs

PortsOf(case, u) == ModelPorts[case.units[u].model]
Known(case) == {u \in DOMAIN case.units : case.units[u].model \in ModelIds}

\* Names a unit does not give.
Missing(case) ==
    {m \in UNION {{u} \X Required[case.units[u].model] : u \in Known(case)} :
        m[2] \notin DOMAIN case.units[m[1]].parameters}

-------------------------------------------------------------------------------
(* Connections, in the order the compiler refuses them *)

UnknownUnit(case) ==
    {c \in case.connections : {c.source, c.target} \ DOMAIN case.units # {}}
OfKnownModels(case) == {c \in case.connections : {c.source, c.target} \subseteq Known(case)}
PortsFound(case) ==
    {c \in OfKnownModels(case) :
        /\ \E p \in PortsOf(case, c.source) : p.id = c.out
        /\ \E q \in PortsOf(case, c.target) : q.id = c.in}
Joined(case) ==
    {c \in PortsFound(case) :
        \E p \in PortsOf(case, c.source), q \in PortsOf(case, c.target) :
            p.id = c.out /\ q.id = c.in /\ PortsAreCompatible(p, q)}

\* mutant: an outlet may be connected twice
FanoutAllowed(case) == {}
Fanout(case) ==
    {c.source : c \in {c \in Joined(case) :
        \E d \in Joined(case) : d # c /\ d.source = c.source /\ d.out = c.out}}
MultipleFeeds(case) ==
    {c.target : c \in {c \in Joined(case) :
        \E d \in Joined(case) : d # c /\ d.target = c.target /\ d.in = c.in}}

Inlets(case, u) == {p \in PortsOf(case, u) : p.direction = "input"}
Unconnected(case) ==
    {m \in UNION {{u} \X Inlets(case, u) : u \in Known(case)} :
        \A c \in Joined(case) : ~ (c.target = m[1] /\ c.in = m[2].id)}

-------------------------------------------------------------------------------
(* The graph of units *)

Sheet(case) == [node |-> DOMAIN case.units,
                edge |-> {<<c.source, c.target>> : c \in Joined(case)}]

\* A path leads from u to v when no set of units that the connections do not leave has only u.
Reaches(G, u, v) ==
    \A S \in SUBSET G.node :
        u \in S /\ (\A e \in G.edge : e[1] \in S => e[2] \in S) => v \in S

\* Strongly connected components that are a cycle.
RecycleGroups(case) ==
    LET G == Sheet(case)
        Component(u) == {v \in G.node : Reaches(G, u, v) /\ Reaches(G, v, u)}
    IN  {g \in {Component(u) : u \in G.node} :
            Cardinality(g) > 1 \/ \E u \in g : <<u, u>> \in G.edge}

\* Units that are not done, whose sources are.
Ready(G, done) == {u \in G.node \ done : Predecessors(G, u) \subseteq done}

\* nx.lexicographical_topological_sort: of the units that are ready, the first id is the next.
ExecutionOrder(case) ==
    LET G == Sheet(case)
        first[n \in 0 .. Cardinality(G.node)] ==
            IF n = 0 THEN << >>
            ELSE Append(first[n - 1], Min(Ready(G, Range(first[n - 1]))))
    IN  first[Cardinality(G.node)]

-------------------------------------------------------------------------------
\* One diagnostic of severity error per member of each of these sets.
DegreesOfFreedom(case) == Cardinality(Missing(case)) + Cardinality(Unconnected(case))

Valid(case) ==
    /\ DegreesOfFreedom(case) = 0
    /\ Known(case) = DOMAIN case.units /\ UnknownUnit(case) = {}
    /\ PortsFound(case) = OfKnownModels(case) /\ Joined(case) = PortsFound(case)
    /\ Fanout(case) = {} /\ MultipleFeeds(case) = {}
    /\ RecycleGroups(case) = {}

Compile(case) ==
    [valid |-> Valid(case), degrees_of_freedom |-> DegreesOfFreedom(case),
     recycle_groups |-> RecycleGroups(case),
     execution_order |-> IF RecycleGroups(case) = {} THEN ExecutionOrder(case) ELSE << >>]
===============================================================================
