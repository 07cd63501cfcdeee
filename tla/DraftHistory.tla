----------------------------- MODULE DraftHistory -----------------------------
(***************************************************************************)
(* The history of one draft: application/history.py over the journal and   *)
(* the checkpoints of adapters/history.py and the numbered native revisions*)
(* of adapters/pfd.py.                                                     *)
(*                                                                         *)
(* Callers are threads of one process or of several; nothing locks a draft *)
(* while a command is handled.  The journal is a directory of numbered     *)
(* files, each published once by an exclusive link.  A document stands for *)
(* its content; its revision field never changes along a journal, so       *)
(* content and checkpoint hash correspond.  Read-only commands, branch     *)
(* names, labels and corrupt files are left out.                           *)
(***************************************************************************)
EXTENDS Naturals, FiniteSets, SequencesExt

CONSTANTS
    Docs,           \* contents of documents
    NoDoc,          \* no document
    NoRequest,      \* no request
    NoEntry,        \* no entry proposed
    Actors,         \* who issues commands
    Callers,        \* threads inside HistoryService.dispatch
    LegacyRevisions, \* revisions of a browser draft of the same name, 0 for none
    MaxEntries,     \* bound on the journal
    MaxRaced,       \* bound on the journal on which two commands are in flight at once
    MaxRevisions    \* bound on the native revisions

ASSUME HistoryAssumption ==
    /\ NoDoc \notin Docs /\ Actors # {}
    /\ LegacyRevisions \subseteq Nat
    /\ IsFiniteSet(Callers)
    /\ MaxEntries \in Nat /\ MaxRaced \in Nat /\ MaxRevisions \in Nat

VARIABLES
    journal,        \* the entries, file 000000000001.json first
    checkpoints,    \* documents with a checkpoint file
    native,         \* native revisions, oldest first
    caller          \* per thread: where it is in dispatch, and its locals

vars == <<journal, checkpoints, native, caller>>

-------------------------------------------------------------------------------
(* Requests and entries *)

Ids == 1 .. (MaxEntries + Cardinality(Callers))     \* request ids
Ops == {"start", "open", "edit", "undo", "redo", "save", "snapshot", "branch"}

\* head is the target's expected_head, entry its entry_id, by sequence number.
Request == {r \in [id : Ids, op : Ops, actor : Actors, head : 0 .. MaxEntries,
                   doc : Docs \cup {NoDoc}, entry : 0 .. MaxEntries] :
              r.op \in {"start", "edit"} => r.doc \in Docs}

Entry == [request : Request, before : Docs, after : Docs,
          undo : Seq(1 .. MaxEntries), redo : Seq(1 .. MaxEntries), saved : Nat]

HeadEntry == Last(journal)
Next_sequence == Len(journal) + 1

\* _commit's entry for document d; the redo stack is emptied by edits and branches.
HistoryEntry(r, d, undo, redo, saved) ==
    [request |-> r, before |-> IF journal = << >> THEN d ELSE HeadEntry.after, after |-> d,
     undo |-> undo, redo |-> redo, saved |-> saved]

Idle == [pc |-> "idle", request |-> NoRequest, base |-> 0, entry |-> NoEntry]
\* An answer of any kind; comments name the codes.
Reply(c) == caller' = [caller EXCEPT ![c] = Idle] /\ UNCHANGED checkpoints

Enter(c, pc, r, entry) ==
    /\ Len(journal) < MaxEntries
    /\ Len(journal) <= MaxRaced \/ \A b \in Callers : caller[b].pc = "idle"
    /\ caller' = [caller EXCEPT ![c] =
         [pc |-> pc, request |-> r, base |-> Len(journal), entry |-> entry]]

\* mutant: the write of the checkpoint may be lost unnoticed
CheckpointUnsynced(d) == checkpoints' \in {checkpoints, checkpoints \cup {d}}
Checkpoint(d) == checkpoints' = checkpoints \cup {d}

\* _commit up to the link: the checkpoint is written, the entry made, the journal compared.
\* Where that comparison fails, the publication fails as well.
Propose(c, r, entry) == Enter(c, "publish", r, entry) /\ Checkpoint(entry.after)

-------------------------------------------------------------------------------
(* A client issues a request, new or again; it knows the heads it has been shown *)

IdsInUse == {journal[i].request.id : i \in DOMAIN journal}
            \cup {caller[c].request.id : c \in {b \in Callers : caller[b].pc # "idle"}}
FreshId(i) == i \notin IdsInUse /\ \A j \in Ids : j < i => j \in IdsInUse

\* The requests of clients: a new one on the head, an edit also on the head before (every
\* other head and operation is refused likewise), an old one again, and an old id for
\* something else.  Who asks matters to edits, undo and redo alone.
Requests ==
    LET ask(i, op, a, h, d, e) ==
            [id |-> i, op |-> op, actor |-> a, head |-> h, doc |-> d, entry |-> e]
        fresh == {i \in Ids : FreshId(i)}
        someone == CHOOSE a \in Actors : TRUE
        head == Len(journal)
        old == {journal[i].request : i \in DOMAIN journal}
               \cup {caller[c].request : c \in {b \in Callers : caller[b].pc # "idle"}}
    IN  {ask(i, "start", someone, 0, d, 0) : i \in fresh, d \in Docs}
        \cup {ask(i, "open", someone, 0, NoDoc, 0) : i \in fresh}
        \cup {ask(i, "edit", a, h, d, 0) : i \in fresh, a \in Actors,
                h \in {head - 1, head} \cap DOMAIN journal, d \in Docs}
        \cup {ask(i, op, a, head, NoDoc, 0) : i \in fresh, op \in {"undo", "redo"}, a \in Actors}
        \cup {ask(i, op, someone, head, NoDoc, 0) : i \in fresh, op \in {"save", "snapshot"}}
        \cup {ask(i, "branch", someone, head, NoDoc, e) : i \in fresh, e \in 0 .. head}
        \cup old \cup {[r EXCEPT !.op = "snapshot"] : r \in old}

-------------------------------------------------------------------------------
(* dispatch reads the journal and decides *)

IdRecorded(r) == \E i \in DOMAIN journal : journal[i].request.id = r.id

\* A repeat is answered with its entry; anything else is HISTORY_EXISTS.
Start(c, r) ==
    /\ r.op = "start"
    /\ IF journal = << >>
       THEN Propose(c, r, HistoryEntry(r, r.doc, << >>, << >>, 0))
       ELSE Reply(c)

\* history.open of a draft without history imports what pfd.open finds.
Open(c, r) ==
    /\ r.op = "open"
    /\ IF journal = << >> THEN Enter(c, "import", r, NoEntry) /\ UNCHANGED checkpoints
       ELSE Reply(c)

\* A repeat is answered with its entry; another request of that id is REQUEST_ID_CONFLICT.
Repeat(c, r) == r.op \notin {"start", "open"} /\ IdRecorded(r) /\ Reply(c)

\* mutant: the expected head is not compared
AnyHead(r) == TRUE
Expected(r) == r.head = Len(journal)

\* mutant: an edit keeps what could be redone
EditKeepsRedo(r) ==
    HistoryEntry(r, r.doc, Append(HeadEntry.undo, Next_sequence), HeadEntry.redo, 0)
EditEntry(r) == HistoryEntry(r, r.doc, Append(HeadEntry.undo, Next_sequence), << >>, 0)

\* An edit that changes nothing is answered with the state.
Edit(c, r) ==
    /\ r.op = "edit"
    /\ IF r.doc = HeadEntry.after THEN Reply(c) ELSE Propose(c, r, EditEntry(r))

\* The top of the stack, if there is one (HISTORY_EMPTY), is reversed by its own actor
\* (UNDO_AUTHORITY), and only where its document is still there (UNDO_CONFLICT).
Reverses(r, stack) == stack # << >> /\ journal[Last(stack)].request.actor = r.actor

Undo(c, r) ==
    LET stack == HeadEntry.undo
    IN  /\ r.op = "undo"
        /\ IF Reverses(r, stack) /\ journal[Last(stack)].after = HeadEntry.after
           THEN Propose(c, r,
                  HistoryEntry(r, journal[Last(stack)].before, Front(stack),
                               Append(HeadEntry.redo, Last(stack)), 0))
           ELSE Reply(c)

Redo(c, r) ==
    LET stack == HeadEntry.redo
    IN  /\ r.op = "redo"
        /\ IF Reverses(r, stack) /\ journal[Last(stack)].before = HeadEntry.after
           THEN Propose(c, r,
                  HistoryEntry(r, journal[Last(stack)].after,
                               Append(HeadEntry.undo, Last(stack)), Front(stack), 0))
           ELSE Reply(c)

\* Save and snapshot record the document as it is, save after its native revision.
Keep(c, r) ==
    /\ r.op \in {"save", "snapshot"}
    /\ LET entry == HistoryEntry(r, HeadEntry.after, HeadEntry.undo, HeadEntry.redo, 0)
       IN  IF r.op = "snapshot" THEN Propose(c, r, entry)
           ELSE Enter(c, "saving", r, entry) /\ UNCHANGED checkpoints

\* A branch from an entry that is not there fails.
Branch(c, r) ==
    /\ r.op = "branch"
    /\ IF r.entry \in DOMAIN journal
       THEN Propose(c, r, HistoryEntry(r, journal[r.entry].after, << >>, << >>, 0))
       ELSE Reply(c)

\* NOT_FOUND without a journal, HISTORY_CONFLICT on another head.
Mutate(c, r) ==
    /\ r.op \notin {"start", "open"} /\ ~ IdRecorded(r)
    /\ IF journal = << >> \/ ~ Expected(r) THEN Reply(c)
       ELSE Edit(c, r) \/ Undo(c, r) \/ Redo(c, r) \/ Keep(c, r) \/ Branch(c, r)

Dispatch(c, r) ==
    /\ Start(c, r) \/ Open(c, r) \/ Repeat(c, r) \/ Mutate(c, r)
    /\ UNCHANGED <<journal, native>>

\* pfd.open prefers the native revisions to a browser draft; the revision of what it finds
\* counts as saved.  Its recovery of the presentation leaves what save accepts as it is.
Imported(c, d, saved) ==
    /\ caller' = [caller EXCEPT ![c].pc = "publish", ![c].entry =
         [request |-> caller[c].request, before |-> d, after |-> d, undo |-> << >>,
          redo |-> << >>, saved |-> saved]]
    /\ Checkpoint(d)

Import(c) ==
    /\ caller[c].pc = "import"
    /\ \/ native # << >> /\ Imported(c, Last(native).doc, Last(native).revision)
       \/ /\ native = << >>
          /\ \E d \in Docs, revision \in LegacyRevisions \ {0} : Imported(c, d, revision)
       \/ native = << >> /\ 0 \in LegacyRevisions /\ Reply(c)    \* NOT_FOUND
    /\ UNCHANGED <<journal, native>>

-------------------------------------------------------------------------------
(* NativePfdRepository.save *)

\* The first native revision takes the number the document came with.
FirstRevision == IF journal = << >> \/ journal[1].saved = 0 THEN 1 ELSE journal[1].saved
NextRevision == IF native = << >> THEN FirstRevision ELSE Last(native).revision + 1

AlreadySaved(d) == native # << >> /\ Last(native).doc = d

Saved(d) == IF AlreadySaved(d) THEN native
            ELSE Append(native, [revision |-> NextRevision, doc |-> d])

\* mutant: the entry names the revision that would be next
SaveNativeNext(c) ==
    /\ caller[c].pc = "saving"
    /\ native' = Saved(caller[c].entry.after) /\ Len(native') <= MaxRevisions
    /\ caller' = [caller EXCEPT ![c].pc = "publish", ![c].entry.saved = NextRevision]
    /\ Checkpoint(caller[c].entry.after)
    /\ UNCHANGED journal
\* A call that raises with the revision in place is this step and then Fails.
SaveNative(c) ==
    /\ caller[c].pc = "saving"
    /\ native' = Saved(caller[c].entry.after) /\ Len(native') <= MaxRevisions
    /\ caller' = [caller EXCEPT ![c].pc = "publish", ![c].entry.saved = Last(native').revision]
    /\ Checkpoint(caller[c].entry.after)
    /\ UNCHANGED journal

\* The command pfd.save, past the history.
SaveOutside(d) ==
    /\ native' = Saved(d) /\ Len(native') <= MaxRevisions
    /\ UNCHANGED <<journal, checkpoints, caller>>

-------------------------------------------------------------------------------
(* append publishes the entry *)

\* mutant: the next free number is taken
PublishNext(c) ==
    /\ caller[c].pc = "publish"
    /\ journal' = Append(journal, caller[c].entry) /\ Len(journal') <= MaxEntries
    /\ Reply(c)
    /\ UNCHANGED native

\* publish links the file, unless there is one of that number; whether the fsync after it
\* or the state read for the answer raises (BOUNDARY_FAILURE) changes nothing on disk.
Publish(c) ==
    /\ caller[c].pc = "publish"
    /\ journal' = IF caller[c].base = Len(journal) THEN Append(journal, caller[c].entry)
                  ELSE journal
    /\ Reply(c)
    /\ UNCHANGED native

\* Any read or write raises (BOUNDARY_FAILURE), or the process of the thread dies.
Fails(c) ==
    /\ caller[c].pc # "idle"
    /\ Reply(c)
    /\ UNCHANGED <<journal, native>>

-------------------------------------------------------------------------------
Init ==
    /\ journal = << >> /\ checkpoints = {} /\ native = << >>
    /\ caller = [c \in Callers |-> Idle]

CallStep(c) ==
    \/ caller[c].pc = "idle" /\ \E r \in Requests : Dispatch(c, r)
    \/ Import(c) \/ SaveNative(c) \/ Publish(c) \/ Fails(c)

Next ==
    \/ \E c \in Callers : CallStep(c)
    \/ \E d \in Docs : SaveOutside(d)

Spec == Init /\ [][Next]_vars
-------------------------------------------------------------------------------
(* Properties *)

Call == [pc : {"idle", "import", "saving", "publish"},
         request : Request \cup {NoRequest}, base : 0 .. MaxEntries,
         entry : Entry \cup {NoEntry}]

TypeOK ==
    /\ journal \in Seq(Entry)
    /\ checkpoints \subseteq Docs
    /\ native \in Seq([revision : Nat, doc : Docs])
    /\ caller \in [Callers -> Call]

\* An entry that was published, and so whatever was acknowledged, is never lost or changed,
\* whoever publishes at the same time ("collision rejects a concurrent writer, never
\* overwrites it").
PublishedStays == [][IsPrefix(journal, journal')]_journal

\* No update is lost: what was decided on a head stands right behind that head, although
\* the journal is read, compared and extended in separate steps by several callers.
DecidedOnItsParent ==
    \A i \in DOMAIN journal : journal[i].request.op \notin {"start", "open"} =>
        journal[i].request.head = i - 1

\* docs/CONTRACTS.md "durably deduplicates recorded mutation requests": no request acts
\* twice, also when it is repeated while its first execution is under way.
RequestOnce ==
    \A i, j \in DOMAIN journal : journal[i].request.id = journal[j].request.id => i = j

\* Every journal that callers and crashes can leave is one that entries() accepts: each
\* entry starts from its predecessor's document, and all documents have checkpoints.
JournalReadable ==
    \A i \in DOMAIN journal :
        /\ journal[i].after \in checkpoints
        /\ i > 1 => journal[i].before = journal[i - 1].after

\* The stacks fit the document at every head, so that an undo or a redo of a whole history
\* of saves, snapshots, branches and other actors' edits never meets UNDO_CONFLICT.
ReversalsFit ==
    journal # << >> =>
        /\ HeadEntry.undo # << >> => journal[Last(HeadEntry.undo)].after = HeadEntry.after
        /\ HeadEntry.redo # << >> => journal[Last(HeadEntry.redo)].before = HeadEntry.after

\* A save names the native revision that holds the document it marks as saved, whatever
\* is saved past the history and whoever saves, fails or tries again at the same time.
SavedIsPublished ==
    \A i \in DOMAIN journal : journal[i].request.op = "save" =>
        \E k \in DOMAIN native :
            native[k] = [revision |-> journal[i].saved, doc |-> journal[i].after]

\* docs/native/DW3_2_WORKSTATION.md "A `SavedVersionReference` carries the separately
\* published native revision number": this holds of imports, too.  (It does not, see
\* README.md: the import of a browser draft names a revision of the browser store.)
ImportedIsPublished ==
    \A i \in DOMAIN journal : journal[i].saved > 0 =>
        \E k \in DOMAIN native :
            native[k] = [revision |-> journal[i].saved, doc |-> journal[i].after]

\* docs/CONTRACTS.md "Retrying does not duplicate an identical native revision".
NoDuplicateRevision ==
    \A k \in DOMAIN native : k > 1 =>
        /\ native[k].doc # native[k - 1].doc
        /\ native[k].revision = native[k - 1].revision + 1

\* What an editor sees of the journal: the document at its head, the documents that the
\* stacks of the head lead through, and all documents there have been.
HeadDoc == IF journal = << >> THEN NoDoc ELSE HeadEntry.after
PastDocs ==
    IF journal = << >> THEN << >>
    ELSE [k \in DOMAIN HeadEntry.undo |-> journal[HeadEntry.undo[k]].before]
FutureDocs ==
    IF journal = << >> THEN << >>
    ELSE [k \in DOMAIN HeadEntry.redo |-> journal[HeadEntry.redo[k]].after]
SeenDocs == {journal[i].after : i \in DOMAIN journal}

\* The commands of all callers together act as one editor's (refinement).
Editor == INSTANCE UndoEditor WITH
    doc <- HeadDoc, past <- PastDocs, future <- FutureDocs, seen <- SeenDocs
ImplementsEditor == Editor!Spec
===============================================================================
