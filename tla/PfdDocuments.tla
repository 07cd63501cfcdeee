----------------------------- MODULE PfdDocuments -----------------------------
(***************************************************************************)
(* Native PFD documents and the editing policy over them                   *)
(* (src/bh_sim/application/pfd.py).  An edit computes a new document from  *)
(* an immutable one, or a refusal; split and paste are compositions of     *)
(* other edits, each of which checks its input and its result.             *)
(*                                                                         *)
(* Objects are numbers.  A document has nodes (id -> [model, inputs]),     *)
(* streams (id -> [source, out, target, in]), their native objects (id ->  *)
(* [tag, layout, notation, parent, suffix]), what the browser format is to *)
(* show (id -> [kind, label, layout]), visual groups, layer preferences    *)
(* (the active group and a colour), engineering subsystems, settings and   *)
(* the next stream number.  "layout" stands for position, route, expansion *)
(* and pinning.                                                            *)
(***************************************************************************)
EXTENDS Naturals, SequencesExt, FiniteSetsExt

CONSTANTS Nobody    \* no active group, no parent

NoPort == 9         \* a browser handle that is not given
Or0(port) == IF port = NoPort THEN 0 ELSE port

Models == {"source", "sink", "heater", "radiator", "mixer", "splitter", "heat_exchanger"}

\* reference_catalogue: how many input and output ports a model has, and its parameters.
InPorts == [m \in Models |-> CASE m = "source" -> 0 [] m \in {"mixer", "heat_exchanger"} -> 2 [] OTHER -> 1]
OutPorts == [m \in Models |-> CASE m = "sink" -> 0 [] m \in {"splitter", "heat_exchanger"} -> 2 [] OTHER -> 1]
ModelParameters ==
    [m \in Models |-> CASE m = "source" -> {"massFlow", "temperature", "pressure"}
                        [] m = "heater" -> {"duty"}
                        [] m = "radiator" -> {"targetTemperature", "emissivity"}
                        [] m = "splitter" -> {"splitFraction"}
                        [] m = "heat_exchanger" -> {"effectiveness"}
                        [] OTHER -> {}]

Without(f, ids) == [i \in DOMAIN f \ ids |-> f[i]]
With(f, i, v) == [j \in DOMAIN f \cup {i} |-> IF j = i THEN v ELSE f[j]]

\* Tags: a name, the number an automatic tag has, and the suffixes of branches.
Tag(name, n) == [name |-> name, number |-> n, suffix |-> <<>>]
NoTag == Tag("", 0)
Suffixed(tag, suffix) == [tag EXCEPT !.suffix = Append(@, suffix)]

NewObject(tag, layout) ==
    [tag |-> tag, layout |-> layout, notation |-> << >>, parent |-> Nobody, suffix |-> ""]
Unlinked(object) == [object EXCEPT !.parent = Nobody, !.suffix = ""]

\* A document under work: ids and stream numbers handed out so far, and whether it was refused.
Work(doc, fresh, issued) == [doc |-> doc, fresh |-> fresh, issued |-> issued, code |-> "OK"]
Refuse(w, code) == [w EXCEPT !.code = code]

-------------------------------------------------------------------------------
(* recover_presentation and check                                           *)

RecoverPresentation(doc) ==
    [doc EXCEPT !.groups = [g \in DOMAIN @ |-> @[g] \cap DOMAIN doc.streams],
                !.active = IF @ \in DOMAIN doc.groups THEN @ ELSE Nobody]

StreamTagsDistinct(doc) ==
    \A i, j \in DOMAIN doc.streams : i # j => doc.objects[i].tag # doc.objects[j].tag

\* A notation is the submitted value of an input, in its own text.
NotationAgrees(doc, i) ==
    \A name \in DOMAIN doc.objects[i].notation :
        /\ name \in DOMAIN doc.nodes[i].inputs
        /\ doc.objects[i].notation[name].text = doc.nodes[i].inputs[name]

Check(doc) ==
    LET ids == DOMAIN doc.nodes \cup DOMAIN doc.streams IN
    CASE DOMAIN doc.nodes \cap DOMAIN doc.streams # {} -> "DUPLICATE_ID"
      [] DOMAIN doc.objects # ids -> "PRESENTATION_MISMATCH"
      [] \E i \in ids : doc.objects[i].tag.name = "" -> "INVALID_TAG"
      [] ~StreamTagsDistinct(doc) -> "TAG_CONFLICT"
      [] doc.active \notin DOMAIN doc.groups \cup {Nobody} -> "MISSING_GROUP"
      [] \E g \in DOMAIN doc.groups : ~(doc.groups[g] \subseteq DOMAIN doc.streams) -> "MISSING_GROUP_MEMBER"
      [] \E s \in DOMAIN doc.subsystems : ~(doc.subsystems[s] \subseteq ids) -> "MISSING_SUBSYSTEM_MEMBER"
      [] \E i \in DOMAIN doc.nodes : ~NotationAgrees(doc, i) -> "INVALID_NOTATION"
      [] OTHER -> "OK"

-------------------------------------------------------------------------------
(* Parts of edits                                                           *)

UsedTags(doc) == {doc.objects[i].tag : i \in DOMAIN doc.objects}

\* _next_tag: the first number that no object's tag has.
NextNumber(doc) ==
    LET first == Max({doc.next, doc.settings.start})
        free == {n \in first .. first + Cardinality(DOMAIN doc.objects) :
                    Tag("S", n) \notin UsedTags(doc)} IN
    Min(free)

\* mutant: the number is not taken
NumberWithoutRecord(w, n) == [w EXCEPT !.issued = Append(@, n)]

\* The next number is one greater than the one that was handed out.
TakeNumber(w, n) == [w EXCEPT !.issued = Append(@, n), !.doc.next = n + 1]

\* Streams at a port.
Occupied(doc, id, port, side) ==
    Cardinality({s \in DOMAIN doc.streams :
        \/ side = "out" /\ doc.streams[s].source = id /\ Or0(doc.streams[s].out) = port
        \/ side = "in" /\ doc.streams[s].target = id /\ Or0(doc.streams[s].in) = port})

\* _port: whether the port can take one more.
PortVerdict(doc, id, port, side) ==
    CASE id \notin DOMAIN doc.nodes -> "NOT_FOUND"
      [] port >= (IF side = "out" THEN OutPorts ELSE InPorts)[doc.nodes[id].model] -> "PORT_DIRECTION"
      [] Occupied(doc, id, port, side) >= 1 -> "PORT_OCCUPIED"
      [] OTHER -> "OK"

\* Labels and layout as the browser format will show them; what it knew of an object stays.
Presentation(before, doc) ==
    [i \in DOMAIN doc.objects |->
        [kind |-> IF i \in DOMAIN before.shown THEN before.shown[i].kind
                  ELSE IF i \in DOMAIN doc.nodes THEN "equipment" ELSE "connection",
         label |-> doc.objects[i].tag, layout |-> doc.objects[i].layout]]

\* The frame of every edit: recover, check, change, mirror, check; a refusal keeps the input.
Settled(w, changed) ==
    LET doc == RecoverPresentation(w.doc)
        result == [changed EXCEPT !.doc.shown = Presentation(doc, changed.doc)] IN
    CASE w.code # "OK" -> w
      [] Check(doc) # "OK" -> Refuse(w, Check(doc))
      [] changed.code # "OK" -> Refuse(w, changed.code)
      [] Check(result.doc) # "OK" -> Refuse(w, Check(result.doc))
      [] OTHER -> result
Edit(w, Change(_)) == Settled(w, Change([w EXCEPT !.doc = RecoverPresentation(@)]))

-------------------------------------------------------------------------------
(* The edits of objects                                                     *)

AddEquipment(w, model, layout) == Edit(w, LAMBDA x :
    LET free == {n \in 1 .. 1 + Cardinality(DOMAIN x.doc.objects) : Tag(model, n) \notin UsedTags(x.doc)} IN
    IF model \notin Models THEN Refuse(x, "NOT_FOUND")
    ELSE [x EXCEPT !.fresh = @ + 1,
                   !.doc.nodes = With(@, x.fresh, [model |-> model, inputs |-> << >>]),
                   !.doc.objects = With(@, x.fresh, NewObject(Tag(model, Min(free)), layout))])

ConnectPorts(w, source, out, target, in) == Edit(w, LAMBDA x :
    LET output == PortVerdict(x.doc, source, out, "out")
        input == PortVerdict(x.doc, target, in, "in")
        n == NextNumber(x.doc) IN
    CASE source = target -> Refuse(x, "SELF_CONNECTION")
      [] output # "OK" -> Refuse(x, output)
      [] input # "OK" -> Refuse(x, input)
      [] OTHER ->
         [TakeNumber(x, n) EXCEPT
            !.fresh = @ + 1,
            !.doc.streams = With(@, x.fresh, [source |-> source, out |-> out, target |-> target, in |-> in]),
            !.doc.objects = With(@, x.fresh, NewObject(Tag("S", n), 0))])

\* mutant: the streams attached to removed equipment stay
NoneAttached(doc, ids) == {}

Attached(doc, ids) == {s \in DOMAIN doc.streams : doc.streams[s].source \in ids \/ doc.streams[s].target \in ids}

MembersWithout(doc, gone) ==
    [doc EXCEPT !.groups = [g \in DOMAIN @ |-> @[g] \ gone],
                !.subsystems = [s \in DOMAIN @ |-> @[s] \ gone]]

\* Removed objects leave groups and subsystems; their branches become streams of their own.
RemoveObjects(w, ids, confirmed) == Edit(w, LAMBDA x :
    LET gone == ids \cup Attached(x.doc, ids)
        rest == [i \in DOMAIN x.doc.objects \ gone |->
                    IF x.doc.objects[i].parent \in gone THEN Unlinked(x.doc.objects[i]) ELSE x.doc.objects[i]] IN
    CASE ~(ids \subseteq DOMAIN x.doc.objects) -> Refuse(x, "NOT_FOUND")
      [] Attached(x.doc, ids) # {} /\ ~confirmed -> Refuse(x, "CONNECTED_DELETE")
      [] OTHER -> [x EXCEPT !.doc = [MembersWithout(x.doc, gone) EXCEPT
                        !.nodes = Without(@, gone), !.streams = Without(@, gone), !.objects = rest]])

\* Moving, routing, expanding and pinning.
SetLayout(w, ids, layout) == Edit(w, LAMBDA x :
    IF ~(ids \subseteq DOMAIN x.doc.objects) THEN Refuse(x, "NOT_FOUND")
    ELSE [x EXCEPT !.doc.objects = [i \in DOMAIN @ |-> IF i \in ids THEN [@[i] EXCEPT !.layout = layout] ELSE @[i]]])

\* A blank text removes the input; "junk" is no number.
ConfigureInput(w, id, name, text) == Edit(w, LAMBDA x :
    LET old == x.doc.objects[id].notation
        display == IF name \in DOMAIN old THEN old[name].display ELSE "" IN
    IF id \notin DOMAIN x.doc.nodes \/ name \notin ModelParameters[x.doc.nodes[id].model] THEN Refuse(x, "NOT_FOUND")
    ELSE IF text = "junk" THEN Refuse(x, "INVALID_COMMAND")
    ELSE IF text = "" THEN [x EXCEPT !.doc.nodes[id].inputs = Without(@, {name}),
                                     !.doc.objects[id].notation = Without(@, {name})]
    ELSE [x EXCEPT !.doc.nodes[id].inputs = With(@, name, text),
                   !.doc.objects[id].notation = With(@, name, [text |-> text, display |-> display])])

DisplayUnit(w, id, name, unit) == Edit(w, LAMBDA x :
    IF id \notin DOMAIN x.doc.nodes \/ name \notin DOMAIN x.doc.nodes[id].inputs THEN Refuse(x, "NOT_FOUND")
    ELSE [x EXCEPT !.doc.objects[id].notation =
            With(@, name, [text |-> x.doc.nodes[id].inputs[name], display |-> unit])])

\* Rename: a stream whose tag another stream has swaps with it, takes the next number or is
\* refused, as asked and set; its linked branches follow.
RenameObject(w, id, tag, swap, family) == Edit(w, LAMBDA x :
    LET owners == {s \in DOMAIN x.doc.streams \ {id} : x.doc.objects[s].tag = tag}
        conflict == id \in DOMAIN x.doc.streams /\ owners # {}
        numbered == conflict /\ ~swap /\ x.doc.settings.collision = "next-available"
        n == NextNumber(x.doc)
        given == IF numbered THEN Tag("S", n) ELSE tag
        old == x.doc.objects[id]
        renamed == [i \in DOMAIN x.doc.objects |->
            IF i = id THEN [Unlinked(old) EXCEPT !.tag = given]
            ELSE IF conflict /\ swap /\ i \in owners THEN [Unlinked(x.doc.objects[i]) EXCEPT !.tag = old.tag]
            ELSE IF family /\ x.doc.objects[i].parent = id
                 THEN [x.doc.objects[i] EXCEPT !.tag = Suffixed(given, x.doc.objects[i].suffix)]
            ELSE x.doc.objects[i]] IN
    CASE id \notin DOMAIN x.doc.objects -> Refuse(x, "NOT_FOUND")
      [] conflict /\ ~swap /\ ~numbered -> Refuse(x, "TAG_CONFLICT")
      [] OTHER -> [(IF numbered THEN TakeNumber(x, n) ELSE x) EXCEPT !.doc.objects = renamed])

-------------------------------------------------------------------------------
(* Settings, groups and subsystems                                          *)

\* The units of the settings must convert; numbering of existing streams stays.  The colour of
\* streams is kept with the settings and with the layers.
Settings(w, settings) == Edit(w, LAMBDA x :
    [x EXCEPT !.doc.settings = settings, !.doc.colour = settings.colour])

LayerPreferences(w, active, colour) == Edit(w, LAMBDA x :
    [x EXCEPT !.doc.active = active, !.doc.colour = colour, !.doc.settings.colour = colour])

\* A group or subsystem may be given members that do not exist; the check refuses them.
UpsertGroup(w, group, members) == Edit(w, LAMBDA x :
    [x EXCEPT !.doc.groups = With(@, group, members)])

RemoveGroup(w, group) == Edit(w, LAMBDA x :
    IF group \notin DOMAIN x.doc.groups THEN Refuse(x, "NOT_FOUND")
    ELSE [x EXCEPT !.doc.groups = Without(@, {group}), !.doc.active = IF @ = group THEN Nobody ELSE @])

UpsertSubsystem(w, subsystem, members) == Edit(w, LAMBDA x :
    [x EXCEPT !.doc.subsystems = With(@, subsystem, members)])

RemoveSubsystem(w, subsystem) == Edit(w, LAMBDA x :
    IF subsystem \notin DOMAIN x.doc.subsystems THEN Refuse(x, "NOT_FOUND")
    ELSE [x EXCEPT !.doc.subsystems = Without(@, {subsystem})])

-------------------------------------------------------------------------------
(* Compositions                                                             *)

\* The newest stream of a work, and the node before it.
Newest(w) == w.fresh - 1

Renumbered(ids, old, new) == {IF i = old THEN new ELSE i : i \in ids}

\* The object "old" is given the identity "new".
TakeIdentity(doc, old, new) ==
    [doc EXCEPT !.streams = [i \in Renumbered(DOMAIN @, old, new) |-> IF i = new THEN @[old] ELSE @[i]],
                !.objects = [i \in Renumbered(DOMAIN @, old, new) |-> IF i = new THEN @[old] ELSE @[i]]]

\* An object is made the branch of another.
Linked(w, id, parent, suffix) ==
    [w EXCEPT !.doc.objects[id].parent = parent, !.doc.objects[id].suffix = suffix]

BranchOutlet(suffix) == IF suffix = "(a)" THEN 0 ELSE 1

\* mutant: the branch is linked before it is renamed
BranchLinkedFirst(w, splitter, suffix, target, in, parent, tag) ==
    LET connected == ConnectPorts(w, splitter, BranchOutlet(suffix), target, in)
        id == Newest(connected)
        linked == Linked(connected, id, parent, suffix) IN
    IF connected.code # "OK" \/ w.doc.settings.branchNames # "suffix" THEN connected
    ELSE RenameObject(linked, id, Suffixed(tag, suffix), FALSE, TRUE)

\* One branch from the splitter, named and linked after its parent when the settings say so.
Branch(w, splitter, suffix, target, in, parent, tag) ==
    LET connected == ConnectPorts(w, splitter, BranchOutlet(suffix), target, in)
        id == Newest(connected)
        named == RenameObject(connected, id, Suffixed(tag, suffix), FALSE, TRUE) IN
    IF connected.code # "OK" \/ w.doc.settings.branchNames # "suffix" THEN connected
    ELSE IF named.code # "OK" THEN named
    ELSE Linked(named, id, parent, suffix)

\* _split: the stream is removed, a splitter added, the upstream segment connected under the
\* old name and identity, and both branches connected.
Split(w, id, target, in) ==
    LET stream == w.doc.streams[id]
        tag == w.doc.objects[id].tag
        removed == RemoveObjects(w, {id}, TRUE)
        added == AddEquipment(removed, "splitter", 0)
        splitter == Newest(added)
        upstream == ConnectPorts(added, stream.source, Or0(stream.out), splitter, 0)
        renamed == RenameObject(upstream, Newest(upstream), tag, FALSE, TRUE)
        kept == IF renamed.code # "OK" THEN renamed
                ELSE [renamed EXCEPT !.doc = TakeIdentity(@, Newest(upstream), id)]
        first == Branch(kept, splitter, "(a)", stream.target, Or0(stream.in), id, tag)
        second == Branch(first, splitter, "(b)", target, in, id, tag) IN
    CASE id \notin DOMAIN w.doc.streams -> Refuse(w, "NOT_FOUND")
      [] second.code # "OK" -> Refuse(w, second.code)
      [] Check(second.doc) # "OK" -> Refuse(w, Check(second.doc))
      [] OTHER -> second

\* The identities, in ascending order.
InOrder(ids) ==
    LET upTo[n \in 0 .. Max(ids \cup {0})] ==
            IF n = 0 THEN << >> ELSE IF n \in ids THEN Append(upTo[n - 1], n) ELSE upTo[n - 1] IN
    upTo[Max(ids \cup {0})]

PasteInputs(w, unit, texts, names) ==
    FoldSet(LAMBDA name, x : ConfigureInput(x, unit, name, texts[name]), w, names)

\* mutant: the inputs are copied whatever was asked
PasteUnitWithInputs(paste, id, source, reset) ==
    LET added == AddEquipment(paste.work, source.nodes[id].model, source.objects[id].layout)
        texts == source.nodes[id].inputs IN
    [work |-> PasteInputs(added, Newest(added), texts, DOMAIN texts),
     copies |-> With(paste.copies, id, Newest(added))]

\* One unit of the source document with its inputs; "copies" maps what was pasted.
PasteUnit(paste, id, source, reset) ==
    LET added == AddEquipment(paste.work, source.nodes[id].model, source.objects[id].layout)
        texts == source.nodes[id].inputs IN
    [work |-> PasteInputs(added, Newest(added), texts, IF reset THEN {} ELSE DOMAIN texts),
     copies |-> With(paste.copies, id, Newest(added))]

PasteStream(paste, id, source) ==
    LET s == source.streams[id] IN
    IF s.source \in DOMAIN paste.copies /\ s.target \in DOMAIN paste.copies
    THEN [paste EXCEPT !.work = ConnectPorts(@, paste.copies[s.source], Or0(s.out), paste.copies[s.target], Or0(s.in))]
    ELSE paste

PasteUnits(paste, ids, source, reset) == FoldLeft(LAMBDA p, id : PasteUnit(p, id, source, reset), paste, ids)
PasteStreams(paste, ids, source) == FoldLeft(LAMBDA p, id : PasteStream(p, id, source), paste, ids)

\* _paste: the selected units of the source, and the streams between them when asked.
PasteEquipment(w, source, ids, connections, reset) ==
    LET start == [work |-> w, copies |-> << >>]
        units == PasteUnits(start, InOrder(ids \cap DOMAIN source.nodes), source, reset)
        between == InOrder(IF connections THEN DOMAIN source.streams ELSE {}) IN
    IF Check(source) # "OK" THEN [start EXCEPT !.work = Refuse(w, Check(source))]
    ELSE PasteStreams(units, between, source)

-------------------------------------------------------------------------------
(* Imports                                                                  *)

\* import_draft: a browser draft gets tags from its labels, or new ones.
ImportDraft(nodes, streams, shown) ==
    LET ids == DOMAIN nodes \cup DOMAIN streams
        place(i, among) == Cardinality({j \in among : j <= i})
        tag(i) == IF i \in DOMAIN shown /\ shown[i].label # NoTag THEN shown[i].label
                  ELSE IF i \in DOMAIN streams THEN Tag("S", place(i, DOMAIN streams))
                  ELSE Tag(nodes[i].model, place(i, DOMAIN nodes)) IN
    [nodes |-> nodes, streams |-> streams,
     objects |-> [i \in ids |-> NewObject(tag(i), IF i \in DOMAIN shown THEN shown[i].layout ELSE 0)],
     shown |-> shown, groups |-> << >>, subsystems |-> << >>, active |-> Nobody, colour |-> "grey",
     settings |-> [collision |-> "resolve", branchNames |-> "suffix", start |-> 1, prompt |-> FALSE, colour |-> "grey"],
     next |-> Cardinality(DOMAIN streams) + 1]
===============================================================================
