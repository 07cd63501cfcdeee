----------------------------- MODULE DraftCommands -----------------------------
(***************************************************************************)
(* The two draft stores behind the command registry: the browser's         *)
(* (src/bh_sim/adapters/drafts.py, files written in place under a name     *)
(* that several drafts may share) and the native one (adapters/pfd.py,     *)
(* complete files published by an exclusive link), with the commands that  *)
(* reach them (application/pfd.py, application/services.py).  Each         *)
(* repository of a process has a lock of its own, and only save takes it.  *)
(* Processes end at any point; another one, which shares the directories   *)
(* and no lock, may save drafts of both kinds meanwhile.                   *)
(*                                                                         *)
(* A document is [id, revision, body]; the request's body is the document  *)
(* of a save, and one with the wanted id of an open.                       *)
(***************************************************************************)
EXTENDS CommandRegistry, FiniteSetsExt

CONSTANTS
    DraftIds, Bodies,
    SafeName,       \* the file name a draft id is normalised to
    Torn,           \* what a file holds that was opened and not yet written
    MaxRevision,    \* bound on revision numbers
    Foreign,        \* what another process may save: pairs of an id and a body
    MaxForeign      \* bound on the saves of the other process

VARIABLES
    browser,        \* files of drafts/: [name, revision, doc]
    native,         \* files of native-drafts/
    step,           \* per caller: where it is in its use case
    foreign,        \* native saves of the other process
    elsewhere,      \* where the other process is in a save of a browser draft
    contested,      \* history: names and revisions of the browser files it opened
    acknowledged,   \* history: the files whose save was answered, with their store
    known           \* history, per caller: the files its read has to show

otherVars == <<foreign, elsewhere, contested>>
draftVars == <<browser, native, step, otherVars, acknowledged, known>>
allVars == <<vars, draftVars>>

Revisions == 1 .. MaxRevision
Docs == [id : DraftIds, revision : Revisions, body : Bodies]
File == [name : DraftIds, revision : Revisions, doc : Docs \cup {Torn}]
NoStep == [at |-> "none"]

\* What was normalised stays as it is, and the use cases end in outcomes.
ASSUME DraftAssumption ==
    /\ SafeName \in [DraftIds -> DraftIds]
    /\ \A i \in DraftIds : SafeName[SafeName[i]] = SafeName[i]
    /\ \A r \in Requests : r.body \in Docs
    /\ Torn \notin Docs
    /\ SUBSET Docs \subseteq Results
    /\ {"NOT_FOUND", "BOUNDARY_FAILURE", "DRAFT_EXISTS"} \subseteq PortCodes
    /\ Foreign \subseteq DraftIds \X Bodies
    /\ MaxRevision \in Nat /\ MaxForeign \in Nat

-------------------------------------------------------------------------------
(* Files                                                                    *)

Named(store, name) == {f \in store : f.name = name}
Latest(store, name) == CHOOSE f \in Named(store, name) :
                          \A g \in Named(store, name) : g.revision <= f.revision
FileOf(doc, name) == [name |-> name, revision |-> doc.revision, doc |-> doc]
Place(f) == <<f.name, f.revision>>
Taken(store, f) == \E g \in store : Place(g) = Place(f)
Put(store, f) == {g \in store : Place(g) # Place(f)} \cup {f}

\* mutant: every save is a new revision
AlwaysNew(store, name, doc) == FALSE

\* The latest revision already holds this content.
Unchanged(store, name, doc) ==
    /\ Named(store, name) # {}
    /\ Latest(store, name).doc # Torn
    /\ Latest(store, name).doc = [doc EXCEPT !.revision = Latest(store, name).doc.revision]

Holds(c, places) == step[c].at \in places

BrowserLockFree == \A c \in Callers : ~Holds(c, {"browser", "opening", "torn"})
NativeLockFree == \A c \in Callers : ~Holds(c, {"native", "linked"})

Asked(c) == call[c].request.body
Reaches(c) == UseCase(registry, call[c].request.command, call[c].request.parameters)
Performing(c, useCases) == At(c, "invoking") /\ Reaches(c) \in useCases /\ step[c] = NoStep

\* The use case ends; a save that succeeds is acknowledged.
Finish(c, o) == Invoke(c, o) /\ step' = [step EXCEPT ![c] = NoStep]
Quietly(c, o) == Finish(c, o) /\ UNCHANGED <<browser, native, otherVars, acknowledged, known>>
Acknowledge(c, store, name, doc) ==
    /\ Finish(c, Completed({doc}))
    /\ acknowledged' = acknowledged \cup {<<store, FileOf(doc, name)>>}
    /\ UNCHANGED <<browser, otherVars, known>>
Continue(c, s) ==
    /\ step' = [step EXCEPT ![c] = s]
    /\ UNCHANGED <<vars, otherVars, acknowledged, known>>

-------------------------------------------------------------------------------
(* DraftRepository                                                          *)

\* The document of the revision after the latest, which is not torn.
Successor(name, doc) ==
    [doc EXCEPT !.revision = IF Named(browser, name) = {} THEN 1 ELSE Latest(browser, name).doc.revision + 1]
IsNew(name, doc) ==
    /\ Named(browser, name) # {} => Latest(browser, name).doc # Torn /\ ~Unchanged(browser, name, doc)
    /\ Successor(name, doc).revision <= MaxRevision

\* save up to the file: the lock is held from here on.
SaveBrowser(c) ==
    LET name == SafeName[Asked(c).id]
        last == Latest(browser, name) IN
    /\ Performing(c, {<<"services", "draft.save">>}) /\ BrowserLockFree
    /\ \/ Named(browser, name) # {} /\ last.doc = Torn /\ Quietly(c, Rejected("INVALID_COMMAND"))
       \/ /\ Unchanged(browser, name, Asked(c))
          /\ Acknowledge(c, "browser", name, last.doc) /\ UNCHANGED native
       \/ /\ IsNew(name, Asked(c))
          /\ Continue(c, [at |-> "browser", doc |-> Successor(name, Asked(c))])
          /\ UNCHANGED <<browser, native>>

Destination(c) == FileOf(step[c].doc, SafeName[Asked(c).id])

\* The existence test.
TestFile(c) ==
    /\ Holds(c, {"browser"})
    /\ \/ Taken(browser, Destination(c)) /\ Quietly(c, Rejected("BOUNDARY_FAILURE"))
       \/ /\ ~Taken(browser, Destination(c))
          /\ Continue(c, [step[c] EXCEPT !.at = "opening"]) /\ UNCHANGED <<browser, native>>

\* write_text's open leaves the file empty, whatever it held; and its write, beside one of
\* another process that opened the same file and has written, may leave a mixture of both.
Open(f) == browser' = Put(browser, [f EXCEPT !.doc = Torn])
Write(f) ==
    \/ browser' = Put(browser, f)
    \/ /\ \E g \in browser : Place(g) = Place(f) /\ g.doc # Torn
       /\ browser' = Put(browser, [f EXCEPT !.doc = Torn])

OpenFile(c) ==
    /\ Holds(c, {"opening"})
    /\ \/ Quietly(c, Rejected("BOUNDARY_FAILURE"))
       \/ /\ Open(Destination(c))
          /\ Continue(c, [step[c] EXCEPT !.at = "torn"]) /\ UNCHANGED native

WriteFile(c) ==
    /\ Holds(c, {"torn"})
    /\ \/ Quietly(c, Rejected("BOUNDARY_FAILURE"))
       \/ /\ Write(Destination(c))
          /\ acknowledged' = acknowledged \cup {<<"browser", Destination(c)>>}
          /\ Finish(c, Completed({step[c].doc}))
          /\ UNCHANGED <<native, otherVars, known>>

\* What latest gives for an id; it looks at no lock and not at the id in the file.
FromBrowser(id) ==
    LET files == Named(browser, SafeName[id]) IN
    IF files = {} THEN Rejected("NOT_FOUND")
    ELSE LET doc == Latest(browser, SafeName[id]).doc IN
         IF doc = Torn THEN Rejected("INVALID_COMMAND") ELSE Completed({doc})

OpenBrowser(c) == Performing(c, {<<"services", "OpenDraft">>}) /\ Quietly(c, FromBrowser(Asked(c).id))

\* create_draft makes an unsaved revision 1 of a name nothing is saved under.
CreateDraft(c) ==
    LET found == FromBrowser(Asked(c).id) IN
    /\ Performing(c, {<<"services", "CreateDraft">>})
    /\ Quietly(c, CASE found.disposition = "COMPLETED" -> Rejected("DRAFT_EXISTS")
                    [] found = Rejected("NOT_FOUND") -> Completed({[Asked(c) EXCEPT !.revision = 1]})
                    [] OTHER -> found)

\* The document of the greatest revision per id, whose id and revision a summary shows.
Summaries(store) ==
    {f.doc : f \in {g \in store : \A h \in store : h.doc.id = g.doc.id => h.revision <= g.revision}}
Readable(store) == \A f \in store : f.doc # Torn

ListBrowser(c) ==
    /\ Performing(c, {<<"services", "ListDrafts">>, <<"pfd", "pfd.list">>})
    /\ \/ ~Readable(browser) /\ Quietly(c, Rejected("INVALID_COMMAND"))
       \/ /\ Readable(browser) /\ Reaches(c)[1] = "services"
          /\ Quietly(c, Completed(Summaries(browser)))
       \/ /\ Readable(browser) /\ Reaches(c)[1] = "pfd"
          /\ Continue(c, [at |-> "listed", seen |-> Summaries(browser)])
          /\ UNCHANGED <<browser, native>>

-------------------------------------------------------------------------------
(* NativePfdRepository                                                      *)

SaveNative(c) ==
    LET doc == Asked(c)
        none == Named(native, doc.id) = {}
        last == Latest(native, doc.id).doc
        saved == [doc EXCEPT !.revision = IF none THEN Max({1, doc.revision}) ELSE last.revision + 1] IN
    /\ Performing(c, {<<"pfd", "pfd.save">>}) /\ NativeLockFree
    /\ \/ Unchanged(native, doc.id, doc) /\ Acknowledge(c, "native", doc.id, last) /\ UNCHANGED native
       \/ /\ ~Unchanged(native, doc.id, doc) /\ saved.revision <= MaxRevision
          /\ Continue(c, [at |-> "native", doc |-> saved]) /\ UNCHANGED <<browser, native>>

\* mutant: the finished file replaces whatever has its name
Replace(f) == native' = Put(native, f)

\* os.link: it fails when the name exists.
Link(f) == ~Taken(native, f) /\ native' = native \cup {f}

\* The temporary file is written and linked; either may fail.
PublishNative(c) ==
    LET f == FileOf(step[c].doc, step[c].doc.id) IN
    /\ Holds(c, {"native"})
    /\ \/ Quietly(c, Rejected("BOUNDARY_FAILURE"))
       \/ /\ Link(f)
          /\ Continue(c, [step[c] EXCEPT !.at = "linked"]) /\ UNCHANGED browser

\* The directory is synchronised; a failure is answered although the revision exists.
SyncNative(c) ==
    /\ Holds(c, {"linked"})
    /\ \/ Quietly(c, Rejected("BOUNDARY_FAILURE"))
       \/ Acknowledge(c, "native", step[c].doc.id, step[c].doc) /\ UNCHANGED native

\* mutant: the browser's draft is preferred when there is one
PrefersLegacy(id) == Named(native, id) # {} /\ Named(browser, SafeName[id]) = {}

HasNative(id) == Named(native, id) # {}

\* PfdService.open: the native latest, or, after the native store had none, the browser's.
OpenNative(c) ==
    LET id == Asked(c).id IN
    /\ Performing(c, {<<"pfd", "OpenDraft">>})
    /\ \/ HasNative(id) /\ Quietly(c, Completed({Latest(native, id).doc}))
       \/ ~HasNative(id) /\ Continue(c, [at |-> "missed"]) /\ UNCHANGED <<browser, native>>

ImportLegacy(c) == Holds(c, {"missed"}) /\ Quietly(c, FromBrowser(Asked(c).id))

\* PfdService.listing: native summaries take precedence.
ListNative(c) ==
    LET ours == Summaries(native)
        theirs == {s \in step[c].seen : \A o \in ours : o.id # s.id} IN
    Holds(c, {"listed"}) /\ Quietly(c, Completed(ours \cup theirs))

\* Another process saves a draft; the exclusive link orders it with ours, so that its
\* read and its link may as well be one step.
SaveElsewhere(id, body) ==
    LET doc == [id |-> id, body |-> body,
                revision |-> IF HasNative(id) THEN Latest(native, id).revision + 1 ELSE 1] IN
    /\ foreign + Cardinality(contested) < MaxForeign /\ doc.revision <= MaxRevision
    /\ ~Unchanged(native, id, doc)
    /\ native' = native \cup {FileOf(doc, id)}
    /\ foreign' = foreign + 1
    /\ acknowledged' = acknowledged \cup {<<"native", FileOf(doc, id)>>}
    /\ UNCHANGED <<vars, browser, elsewhere, contested, step, known>>

\* It saves a draft of the browser's store.  Its lock is not ours: it reads and tests, opens,
\* and writes beside the same steps of ours.  A test that fails leaves nothing behind.
BeginElsewhere(id, body) ==
    LET doc == [id |-> id, revision |-> 1, body |-> body]
        name == SafeName[id] IN
    /\ elsewhere = NoStep /\ foreign + Cardinality(contested) < MaxForeign
    /\ IsNew(name, doc)
    /\ elsewhere' = [at |-> "opening", file |-> FileOf(Successor(name, doc), name)]
    /\ UNCHANGED <<vars, browser, native, foreign, contested, step, acknowledged, known>>

OpenElsewhere ==
    /\ elsewhere.at = "opening" /\ Open(elsewhere.file)
    /\ elsewhere' = [elsewhere EXCEPT !.at = "torn"]
    /\ contested' = contested \cup {Place(elsewhere.file)}
    /\ UNCHANGED <<vars, native, foreign, step, acknowledged, known>>

WriteElsewhere ==
    /\ elsewhere.at = "torn" /\ Write(elsewhere.file)
    /\ elsewhere' = NoStep
    /\ acknowledged' = acknowledged \cup {<<"browser", elsewhere.file>>}
    /\ UNCHANGED <<vars, native, foreign, contested, step, known>>

\* Its save fails, or it ends.
FailElsewhere ==
    /\ elsewhere # NoStep /\ elsewhere' = NoStep
    /\ UNCHANGED <<vars, browser, native, foreign, contested, step, acknowledged, known>>

-------------------------------------------------------------------------------

DraftInit ==
    /\ Init
    /\ browser = {} /\ native = {} /\ foreign = 0 /\ elsewhere = NoStep /\ contested = {}
    /\ step = [c \in Callers |-> NoStep]
    /\ acknowledged = {} /\ known = [c \in Callers |-> {}]

\* The acknowledged files a read has to show.
Concerns(r, a) ==
    \/ a[1] = "native" /\ r.command = "pfd.list"
    \/ a[1] = "native" /\ r.command = "pfd.open" /\ a[2].name = r.body.id
    \/ a[1] = "browser" /\ r.command = "draft.open" /\ a[2].name = SafeName[r.body.id]

Admit(c, r) ==
    /\ Dispatch(c, r)
    /\ known' = [known EXCEPT ![c] = {a \in acknowledged : At(c, "invoking")' /\ Concerns(r, a)}]
    /\ UNCHANGED <<browser, native, step, otherVars, acknowledged>>

UseCaseStep(c) ==
    \/ SaveBrowser(c) \/ TestFile(c) \/ OpenFile(c) \/ WriteFile(c) \/ OpenBrowser(c)
    \/ CreateDraft(c) \/ ListBrowser(c) \/ SaveNative(c) \/ PublishNative(c) \/ SyncNative(c)
    \/ OpenNative(c) \/ ImportLegacy(c) \/ ListNative(c)

\* The thread is interrupted inside of its use case, whose locks are released.
Stop(c) ==
    /\ Interrupt(c)
    /\ step' = [step EXCEPT ![c] = NoStep]
    /\ known' = [known EXCEPT ![c] = {}]
    /\ UNCHANGED <<browser, native, otherVars, acknowledged>>

Leave(c) ==
    /\ Record(c) \/ Return(c)
    /\ known' = [known EXCEPT ![c] = {}]
    /\ UNCHANGED <<browser, native, step, otherVars, acknowledged>>

\* The process ends and another one starts: the files stay as they are.
RestartDrafts ==
    /\ Restart
    /\ step' = [c \in Callers |-> NoStep] /\ known' = [c \in Callers |-> {}]
    /\ UNCHANGED <<browser, native, otherVars, acknowledged>>

DraftNext ==
    \/ \E c \in Callers : (\E r \in Requests : Admit(c, r)) \/ UseCaseStep(c) \/ Stop(c) \/ Leave(c)
    \/ \E f \in Foreign : SaveElsewhere(f[1], f[2]) \/ BeginElsewhere(f[1], f[2])
    \/ OpenElsewhere \/ WriteElsewhere \/ FailElsewhere
    \/ RestartDrafts

DraftSpec == DraftInit /\ [][DraftNext]_allVars

-------------------------------------------------------------------------------
(* Properties                                                               *)

\* Whatever save was answered with success, through crashes, failed writes and concurrent
\* saves: its revision can be read as it was acknowledged.  Only where another process saved
\* the very same revision of a browser draft, whose test and open are two steps under a lock
\* of the process, may its content have been replaced; a file of that revision is there then.
AcknowledgedStay ==
    \A a \in acknowledged :
        IF a[1] = "native" THEN a[2] \in native
        ELSE Taken(browser, a[2]) /\ (Place(a[2]) \notin contested => a[2] \in browser)

\* The revisions a first native save may have that is not the first save of all: the number an
\* imported draft brings along is taken when another process published 1 in the meantime.
Imported == IF foreign = 0 THEN {} ELSE {r.body.revision : r \in Requests} \ {1}

\* Revision g is the first of its name, or the one before it is there and has other content,
\* unless that one was rewritten.
IsChange(store, rewritten, g) ==
    LET before == {f \in store : f.name = g.name /\ f.revision < g.revision} IN
    before # {} =>
        \E f \in before :
            /\ f.revision = g.revision - 1
            /\ \/ Place(f) \in rewritten
               \/ f.doc # Torn /\ (g.doc # Torn => [f.doc EXCEPT !.revision = g.revision] # g.doc)

\* Revisions of a draft follow each other without a gap, and a repeated save, also one whose
\* first answer was lost with its process or a failed directory write, adds none: no
\* revision has the content of the one before it.
RevisionsAreChanges ==
    /\ \A g \in native : g.revision \notin Imported => IsChange(native, {}, g)
    /\ \A g \in browser : IsChange(browser, contested, g)

\* An open or a list that reads the stores shows no older revision than one that was
\* acknowledged when it began, although it takes no lock and asks two stores in turn.
ReadsAreFresh ==
    \A c \in Callers :
        At(c, "recording") /\ call[c].outcome.disposition = "COMPLETED" =>
            \A a \in known[c] :
                \E d \in call[c].outcome.data :
                    d.revision >= a[2].revision /\ SafeName[d.id] = SafeName[a[2].name]
===============================================================================
