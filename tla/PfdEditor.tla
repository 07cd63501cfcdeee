------------------------------- MODULE PfdEditor -------------------------------
(***************************************************************************)
(* Editing one case on the desktop: the commands of the PFD editor         *)
(* (src/bh_sim/uix/pfd_editor.py, with the canvas of uix/pfd_canvas.py and *)
(* as workstation_editor.py overrides them), each of which makes edits of  *)
(* the document from the selection.                                        *)
(*                                                                         *)
(* The selection is that of the canvas or, when it is empty, of the table  *)
(* of objects.  The canvas keeps it by identity, the table by row; both    *)
(* are rendered anew from every document the editor shows.  The clipboard  *)
(* is a snapshot of a document and may come from another window.  Refused  *)
(* edits change nothing.                                                   *)
(***************************************************************************)
EXTENDS DocumentDifferences

CONSTANTS
    StartDocuments,     \* documents an editor may open
    Clipboards,         \* what other windows may have put on the clipboard
    NewModels,          \* models that are added
    Names,              \* tags that are given
    Texts,              \* what may be typed into an input
    SettingsChoices,    \* [collision, branchNames, start, prompt, colour]
    TableRows,          \* rows that are selected in the table
    MaxEdits, MaxObjects, MaxSelected    \* bounds

-------------------------------------------------------------------------------
(* What is opened                                                           *)

Maps(f) == f = [i \in DOMAIN f |-> f[i]]
Fields(d) ==
    d = [nodes |-> d.nodes, streams |-> d.streams, objects |-> d.objects, shown |-> d.shown,
         groups |-> d.groups, subsystems |-> d.subsystems, active |-> d.active, colour |-> d.colour,
         settings |-> d.settings, next |-> d.next]

IsSettings(s) ==
    /\ s = [collision |-> s.collision, branchNames |-> s.branchNames, start |-> s.start,
            prompt |-> s.prompt, colour |-> s.colour]
    /\ s.start \in Nat

\* Units are of the catalogue; what inputs they may have is for the adapter to say.
UnitsFit(d) ==
    \A i \in DOMAIN d.nodes :
        /\ d.nodes[i] = [model |-> d.nodes[i].model, inputs |-> d.nodes[i].inputs]
        /\ d.nodes[i].model \in Models
        /\ IsFiniteSet(DOMAIN d.nodes[i].inputs)

\* A stream names its ports by number, also ports and units that are not there, or taken.
PortsNamed(d) ==
    \A s \in DOMAIN d.streams : Or0(d.streams[s].out) \in Nat /\ Or0(d.streams[s].in) \in Nat

Sound(d) ==
    /\ Fields(d) /\ Maps(d.nodes) /\ Maps(d.streams) /\ Maps(d.objects) /\ Maps(d.groups) /\ Maps(d.subsystems)
    /\ UnitsFit(d) /\ PortsNamed(d)
    /\ d.next \in Nat /\ IsSettings(d.settings)
    /\ DOMAIN d.nodes \cap DOMAIN d.streams = {}

\* A document that can be opened: it passes the check, and nothing is shown that is not there.
Full(d) == Check(d) = "OK" /\ DOMAIN d.shown \subseteq DOMAIN d.objects
Numbered(d) ==
    LET ids == DOMAIN d.objects \cup DOMAIN d.groups \cup DOMAIN d.subsystems IN
    IsFiniteSet(ids) /\ ids \subseteq Nat \ {0}

ASSUME EditorAssumption ==
    /\ \A d \in StartDocuments : Sound(d) /\ Full(d) /\ Numbered(d)
    /\ \A c \in Clipboards : Sound(c.source) /\ Numbered(c.source) /\ c.ids \subseteq DOMAIN c.source.nodes
    /\ \A settings \in SettingsChoices : IsSettings(settings)
    /\ Nobody \notin Clipboards

VARIABLES
    doc,
    fresh,      \* the next identity uuid4 gives
    issued,     \* history: the stream numbers of the document's edits, in order
    canvas,     \* selected objects
    rows,       \* selected rows of the table
    clipboard,  \* [source, ids], or Nobody
    past, future,   \* what undo and redo restore
    edits,      \* number of edits, for the bound
    last        \* history: the split or paste of the last step

shown == <<doc, issued, past, future, canvas, rows>>
vars == <<shown, fresh, clipboard, edits, last>>

Ids == DOMAIN doc.objects
Now == Work(doc, fresh, issued)
Snapshot == [doc |-> doc, issued |-> issued]
Clip(source, ids) == [source |-> source, ids |-> ids]
Other == [command |-> "other"]

-------------------------------------------------------------------------------
(* Selection                                                                *)

\* The table lists the equipment and then the streams.
Table(d) == InOrder(DOMAIN d.nodes) \o InOrder(DOMAIN d.streams)
Listed(d, selected) == {Table(d)[r] : r \in selected}

\* selected_ids
SelectedIds == IF canvas # {} THEN canvas ELSE Listed(doc, rows)

\* mutant: the canvas does not look for what it had selected
ShowAll(d, selection) == canvas' = selection /\ rows' = rows \cap 1 .. Cardinality(DOMAIN d.nodes)

\* set_document and the table of refresh, which first cuts the rows of streams off.
Show(d, selection) ==
    /\ canvas' = selection \cap DOMAIN d.objects
    /\ rows' = rows \cap 1 .. Cardinality(DOMAIN d.nodes)

Choose(selection, selectedRows) ==
    /\ edits < MaxEdits
    /\ canvas' = selection /\ rows' = selectedRows /\ last' = Other
    /\ UNCHANGED <<doc, issued, past, future, fresh, clipboard, edits>>

\* On the canvas, by the members of a group, or in the table, which the canvas follows.
SelectOnCanvas == \E ids \in SUBSET Ids : Cardinality(ids) <= MaxSelected /\ Choose(ids, rows)
SelectMembers ==
    \/ \E g \in DOMAIN doc.groups : Choose(doc.groups[g] \cap Ids, rows)
    \/ \E s \in DOMAIN doc.subsystems : Choose(doc.subsystems[s] \cap Ids, rows)
SelectRows ==
    \E selected \in SUBSET (TableRows \cap 1 .. Cardinality(Ids)) :
        Choose(Listed(doc, selected), selected)

-------------------------------------------------------------------------------
(* Edits                                                                    *)

Kept(w) == w.code = "OK" /\ Cardinality(DOMAIN w.doc.objects) <= MaxObjects

\* An entry of the history for each of the edits: "before" has the snapshots they were made of.
Edited(w, before, selection, command) ==
    /\ edits < MaxEdits /\ Kept(w)
    /\ doc' = w.doc /\ fresh' = w.fresh /\ issued' = w.issued
    /\ past' = past \o before /\ future' = << >>
    /\ edits' = edits + 1 /\ last' = command
    /\ UNCHANGED clipboard
    /\ Show(w.doc, selection)

Apply(w) == Edited(w, <<Snapshot>>, canvas, Other)

\* One edit for each of the objects, as long as none is refused.
LayoutRun(layouts) ==
    LET step(run, i) == [work |-> SetLayout(run.work, {i}, layouts[i]),
                         before |-> Append(run.before, [doc |-> run.work.doc, issued |-> run.work.issued])] IN
    FoldLeft(step, [work |-> Now, before |-> << >>], InOrder(DOMAIN layouts))
LayoutEach(layouts) ==
    LET run == LayoutRun(layouts) IN
    DOMAIN layouts # {} /\ Edited(run.work, run.before, canvas, Other)

\* The palette, or a drop of a model of the catalogue onto the canvas.
Add == \E model \in NewModels : Apply(AddEquipment(Now, model, 1))

\* The dialog offers the ports of the catalogue; a drag ends at an input port.  With the
\* prompt for names the new stream is selected, for the rename that follows.
Connect ==
    \E a, b \in DOMAIN doc.nodes :
        \E out \in 0 .. OutPorts[doc.nodes[a].model] - 1, in \in 0 .. InPorts[doc.nodes[b].model] - 1 :
            LET w == ConnectPorts(Now, a, out, b, in) IN
            Edited(w, <<Snapshot>>, IF doc.settings.prompt THEN {Newest(w)} ELSE canvas, Other)

\* Enabled by a selection of the canvas; confirmed if streams are attached.
DeleteSelection ==
    canvas # {} /\ Apply(RemoveObjects(Now, SelectedIds, Attached(doc, SelectedIds) # {}))

\* A press selects what it drags.
Move == canvas \cap DOMAIN doc.nodes # {} /\ Apply(SetLayout(Now, canvas \cap DOMAIN doc.nodes, 1))
Route == \E s \in DOMAIN doc.streams : Apply(SetLayout(Now, {s}, 1))
ResetRoutes == LayoutEach([s \in SelectedIds \cap DOMAIN doc.streams |-> 0])
ToggleDetails == LayoutEach([i \in SelectedIds |-> 1 - doc.objects[i].layout])

\* The form shows the inputs of a single unit.
Configure ==
    \E i \in DOMAIN doc.nodes, text \in Texts : \E name \in ModelParameters[doc.nodes[i].model] :
        canvas = {i} /\ Apply(ConfigureInput(Now, i, name, text))
DisplayOverride ==
    \E i \in DOMAIN doc.nodes : \E name \in DOMAIN doc.nodes[i].inputs :
        canvas = {i} /\ Apply(DisplayUnit(Now, i, name, "unit"))

\* Linked branches follow; on a conflict of tags the user is asked to swap them.
RenameSelected ==
    \E i \in Ids : \E tag \in (Names \cup {doc.objects[j].tag : j \in DOMAIN doc.streams}) \ {doc.objects[i].tag} :
        LET renamed == RenameObject(Now, i, tag, FALSE, TRUE) IN
        /\ canvas = {i}
        /\ Apply(IF renamed.code = "TAG_CONFLICT" THEN RenameObject(Now, i, tag, TRUE, TRUE) ELSE renamed)

\* Pulling a stream, which selects it, onto an input port.
SplitStream ==
    \E s \in DOMAIN doc.streams, target \in DOMAIN doc.nodes : \E in \in 0 .. InPorts[doc.nodes[target].model] - 1 :
        Edited(Split(Now, s, target, in), <<Snapshot>>, {s},
               [command |-> "split", stream |-> s, target |-> target, in |-> in])

ChangeSettings == \E settings \in SettingsChoices : Apply(Settings(Now, settings))
ChangeLayers == Apply(LayerPreferences(Now, doc.active, "red"))
ChooseGroup == \E g \in DOMAIN doc.groups \ {doc.active} : Apply(LayerPreferences(Now, g, doc.colour))

\* Groups are made of the selected streams, subsystems of whatever is selected.
Grouping == [Now EXCEPT !.fresh = @ + 1]
CreateVisualGroup ==
    LET members == SelectedIds \cap DOMAIN doc.streams IN
    members # {} /\ Apply(UpsertGroup(Grouping, fresh, members))
CreateSubsystem == SelectedIds # {} /\ Apply(UpsertSubsystem(Grouping, fresh, SelectedIds))
RemoveGrouping ==
    \/ \E g \in DOMAIN doc.groups : Apply(RemoveGroup(Now, g))
    \/ \E s \in DOMAIN doc.subsystems : Apply(RemoveSubsystem(Now, s))

-------------------------------------------------------------------------------
(* Clipboard, undo and redo                                                 *)

\* Only selected equipment is copied, with the document it is in (the bound leaves an edit
\* between it and the paste).
CopySelection ==
    LET ids == SelectedIds \cap DOMAIN doc.nodes IN
    /\ edits < MaxEdits - 1 /\ ids # {}
    /\ clipboard' = Clip(doc, ids) /\ last' = Other
    /\ UNCHANGED <<shown, fresh, edits>>

\* Units with their inputs, with the streams between them, or without inputs.
Paste ==
    \E asked \in {<<FALSE, FALSE>>, <<TRUE, FALSE>>, <<FALSE, TRUE>>} :
        /\ clipboard # Nobody
        /\ Edited(PasteEquipment(Now, clipboard.source, clipboard.ids, asked[1], asked[2]).work,
                  <<Snapshot>>, canvas,
                  [command |-> "paste", connections |-> asked[1], reset |-> asked[2]])

Restore(snapshot) ==
    /\ edits < MaxEdits
    /\ doc' = snapshot.doc /\ issued' = snapshot.issued
    /\ Show(snapshot.doc, canvas)
    /\ last' = Other
    /\ UNCHANGED <<fresh, clipboard, edits>>
Undo ==
    /\ past # << >>
    /\ past' = Front(past) /\ future' = Append(future, Snapshot)
    /\ Restore(Last(past))
Redo ==
    /\ future # << >>
    /\ future' = Front(future) /\ past' = Append(past, Snapshot)
    /\ Restore(Last(future))

Init ==
    /\ doc \in StartDocuments
    /\ fresh = 1 + Max({0} \cup Ids \cup DOMAIN doc.groups \cup DOMAIN doc.subsystems) /\ issued = << >> /\ edits = 0
    /\ canvas = {} /\ rows = {} /\ clipboard \in Clipboards \cup {Nobody}
    /\ past = << >> /\ future = << >> /\ last = Other

Next ==
    \/ SelectOnCanvas \/ SelectMembers \/ SelectRows
    \/ Add \/ Connect \/ DeleteSelection \/ Move \/ Route \/ ResetRoutes \/ ToggleDetails
    \/ Configure \/ DisplayOverride \/ RenameSelected \/ SplitStream
    \/ ChangeSettings \/ ChangeLayers \/ ChooseGroup \/ CreateVisualGroup \/ CreateSubsystem \/ RemoveGrouping
    \/ CopySelection \/ Paste \/ Undo \/ Redo

Spec == Init /\ [][Next]_vars

-------------------------------------------------------------------------------
(* Properties                                                               *)

\* A document can leave the editor: the browser format and the engine's adapter, each with tables
\* of its own, represent it, and no port of a unit has two streams.
Convertible(d) ==
    LET contract == DraftToContract(d) IN
    /\ ToBrowser(d) # Refused
    /\ contract # Refused
    /\ \A s, t \in DOMAIN contract.connections : s # t =>
          /\ contract.connections[s].from # contract.connections[t].from
          /\ contract.connections[s].to # contract.connections[t].to

\* Whatever the editor makes of documents that convert does, too, also where the edits of a split
\* or a paste went through documents in between.
DraftsConvert == Convertible(doc)

\* A command finds every object of its selection, of the canvas or of the table, in the document
\* that is there by then: after deletions, undo and redo, and those the selection was made before.
SelectionIsThere == SelectedIds \subseteq Ids

\* A split is an insertion: the stream keeps its identity, tag, source and outlet and leads into a
\* new splitter, whose outlets lead to the old and the new target; no other unit, stream or
\* tag changes, and both branches are of the family of the stream.
IsInsertion(before, after, id, target, in) ==
    LET old == before.streams[id]
        splitter == after.streams[id].target
        new == DOMAIN after.streams \ DOMAIN before.streams IN
    /\ DOMAIN after.nodes = DOMAIN before.nodes \cup {splitter}
    /\ \A i \in DOMAIN before.nodes : after.nodes[i] = before.nodes[i]
    /\ after.nodes[splitter] = [model |-> "splitter", inputs |-> << >>]
    /\ \A s \in DOMAIN before.streams \ {id} : after.streams[s] = before.streams[s]
    /\ after.streams[id] = [old EXCEPT !.out = Or0(@), !.target = splitter, !.in = 0]
    /\ {after.streams[s] : s \in new} =
          {[source |-> splitter, out |-> 0, target |-> old.target, in |-> Or0(old.in)],
           [source |-> splitter, out |-> 1, target |-> target, in |-> in]}
    /\ \A i \in DOMAIN before.objects : after.objects[i].tag = before.objects[i].tag
    /\ before.settings.branchNames = "suffix" => \A s \in new : after.objects[s].parent = id
SplitIsAnInsertion ==
    [][last'.command = "split" => IsInsertion(doc, doc', last'.stream, last'.target, last'.in)]_vars

\* A paste adds one copy per unit that was copied, as it was then, whatever was edited or undone
\* since: its model and, unless they are to be reset, its inputs, and one stream per
\* stream between the units when asked; what is there already stays as it is.
IsCopy(clip, connections, reset, before, after) ==
    LET source == clip.source
        new == InOrder(DOMAIN after.nodes \ DOMAIN before.nodes)
        old == InOrder(clip.ids)
        copyOf(i) == new[CHOOSE n \in DOMAIN old : old[n] = i]
        inside == {source.streams[s] : s \in {t \in DOMAIN source.streams :
                     connections /\ {source.streams[t].source, source.streams[t].target} \subseteq clip.ids}} IN
    /\ DOMAIN before.nodes \subseteq DOMAIN after.nodes /\ Len(new) = Len(old)
    /\ \A i \in clip.ids :
          /\ after.nodes[copyOf(i)].model = source.nodes[i].model
          /\ after.nodes[copyOf(i)].inputs = IF reset THEN << >> ELSE source.nodes[i].inputs
    /\ {after.streams[s] : s \in DOMAIN after.streams \ DOMAIN before.streams} =
          {[source |-> copyOf(s.source), out |-> Or0(s.out), target |-> copyOf(s.target), in |-> Or0(s.in)] :
             s \in inside}
    /\ \A i \in DOMAIN before.objects : after.objects[i] = before.objects[i]
PasteIsACopy ==
    [][last'.command = "paste" => IsCopy(clipboard, last'.connections, last'.reset, doc, doc')]_vars

\* docs/DECISIONS.md:145 "Presentation edits do not stale engineering validation".  Of every edit,
\* undo and redo: what the history lists as engineering changes is what makes results stale,
\* any other change (but of what is kept for the browser format) is listed as presentation,
\* and without an engineering change the hash that a validation receipt is for stays.
EditsAreClassified ==
    [][LET kind == Classification(doc, doc')
           engineering == EngineeringDifferences(doc, doc')
           presentation == PresentationDifferences(doc, doc') IN
       /\ kind = "engineering" <=> engineering # {}
       /\ doc' # [doc EXCEPT !.shown = doc'.shown] => engineering \cup presentation # {}
       /\ kind # "engineering" => EngineeringHash(doc') = EngineeringHash(doc)]_vars

\* No two streams of a document's edits are ever given the same number, also when the first one
\* was renamed or removed in between: a tag in an older record names one stream only.
NumbersIssuedOnce == IsInjective(issued)
===============================================================================
