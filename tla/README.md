# A verification project for bh_sim

TLA+ models of the parts of `bh_sim` that keep state or decide what is kept, TLC runs that check them on small
instances, and proofs, checked by TLAPS, about eight of them: the artifact store, the run lifecycle, the worker supervisor, the draft
history, the command registry, the two draft stores behind it, the tabs of the desktop and the flowsheet engine with its views. Paths below are relative to `src/bh_sim/` unless they start with
`docs/` or `tests/`.

## 1. Inventory

`bh_sim` is a desktop workstation for radiator flowsheets. A document (PFD) is edited, validated, run by a
worker process, and its results are stored as immutable files.

| Component | State it keeps | Operations | Talks to | What is hard | What makes it correct |
|---|---|---|---|---|---|
| Artifact store `persistence/store.py` | immutable JSON artifacts, one manifest per run attempt, a SQLite index | `record_attempt`, `save_run`, `save_revision`, `reconcile_startup_attempts`, `rebuild_index_from_artifacts`, reads | repository adapter | two stores written one after the other; crashes, several processes, legacy file names | the first terminal disposition is kept; the index never contradicts the manifests; last-valid comes from COMPLETED attempts |
| Run lifecycle `application/services.py` | receipts, the execution slot, cancel event, pending attempt records, unsaved results | `validate_draft`, `start_run`, `_execute`, `cancel_run`, startup | store, supervisor, engine | a lock that is released while the job runs; cancellation and storage failure at every point | one run at a time; every effect has a durable trace; cancellation that wins prevents publication |
| Worker supervisor `adapters/worker_supervisor.py` | process, session, active jobs, event queues, grace timers, last sequence numbers | `start`, `stop`, `validate`, `execute_job`, `cancel`, reader threads | worker, lifecycle, launcher | threads, timers and pipes across worker generations | terminal events arrive; cancelled jobs end; one job per worker |
| Worker process `worker/entry.py` | active job, its cancel flag and sequence number | handshake, `validate`, `job`, `cancel`, `shutdown` | supervisor | main loop and job thread share stdout and the active job | one job at a time; strictly growing sequence per job |
| Draft history `application/history.py`, `adapters/history.py` | append-only journal per draft with undo and redo stacks, checkpoints | start, open, edit, undo, redo, save, snapshot, branch | native repository, command registry | several editors; publication races; failure after publication | nothing acknowledged is lost; undo restores exactly what was edited; a request acts once |
| Command registry `application/commands.py` | outcomes by request id, ids in flight | `dispatch` | every service | repeated and concurrent requests, interrupted threads | at most one execution per id and process; a repeat gets the recorded outcome |
| Native PFD and drafts `adapters/pfd.py`, `adapters/drafts.py` | numbered revisions; draft files | save, latest, list | registry, history | exclusive publication, in-place writes, identifiers that share a file name | what was acknowledged stays; revisions follow each other; reads show what was acknowledged before |
| PFD edits `application/pfd.py` | none (pure) | the kinds of edit, split, paste, import | history, editor | cross references between objects, ports, tags, groups and drafts | what the editor accepts can be exported and run; a split is an insertion, a paste is a copy; numbers are issued once |
| Flowsheet engine `engine/` | locals of one run: report, outputs, evaluations | compile a case, evaluate its units in order, balance | worker | any set of connections, complete or not; order, cycles; units that raise; verdicts made of other verdicts | valid exactly when it can be evaluated; the result solves the sheet; balances close; no verdict better than its worst part |
| Result views `adapters/storage.py` | none (pure) | workbook, plots of an artifact | desktop | tables of names of its own beside the engine's | shown balances account for the run; profiles are those of streams |
| Desktop `uix/` | tabs with document, receipt, results; half-typed input; selection and clipboard | edit, validate, run, preview, switch, close; the PFD editor's commands | registry | a run waits inside the event loop; answers that arrive for a tab that changed | what is shown unflagged was computed from what is shown; input goes to the case it was typed in |
| Web API `api/` | none | HTTP to services | services | none of its own | |
| Contracts, codecs, core | none | | all | | |
| Prototype study (`radiators.py`, `thermo.py`, ...) | none | scripts | none | floating point | |

How they interact: the desktop and the web API call the command registry or the services; `start_run`
holds the application lock in short sections and releases it while `execute_job` waits for events that a
reader thread puts into a queue; the worker answers over two pipes; results are staged by the worker and
promoted by the application; every record of an attempt goes through the store. Edits of a document are pure; the
history journals the document before and after, and the two draft stores keep numbered revisions.

## 2. Modules

| Module | Models | State | Actions |
|---|---|---|---|
| `AttemptRecords` | `boundary/contracts.py` `attempt_winner` and the record's invariants | none | |
| `AttemptLedger` | what the store promises: per attempt, an identity that stays and a first terminal disposition | `ledger` | `Advance` |
| `PersistenceStore` | `persistence/store.py` | manifests, legacy files, index rows, artifacts, SQLite's write reservation, running processes | each step of `record_attempt`, saving, crash, start, reconciliation, loss of the index, rebuild |
| `RunLifecycle` | `application/services.py` | attributes of `ApplicationServices`, durable records, and one program counter per calling thread | one action per section under the application lock and per wait outside it |
| `WorkerProcess` | `worker/entry.py` and the pipes | worker threads, FIFO pipes of frames | one per kind of frame and per step of the job thread |
| `WorkerSupervisor` (extends `WorkerProcess`) | `adapters/worker_supervisor.py` | its attributes, one reader per worker, callers of `execute_job`, timers | one per section under its lock |
| `UndoEditor` | what the draft history promises an editor | the document, what undo and redo go through, what there has been | `Start`, `Edit`, `Undo`, `Redo`, `Restore` |
| `DraftHistory` | `application/history.py`, `adapters/history.py`, the publication of native revisions in `adapters/pfd.py` | journal, checkpoints, native revisions, and one record of locals per calling thread | `Dispatch` (all commands, up to the checkpoint), `Import`, `SaveNative`, `Publish`, `Fails`, `SaveOutside` |
| `OnceLedger` | what the registry promises of a request id in a session | ids under way, ids performed, recorded entries | `Start`, `Perform`, `Decide`, `Abandon`, `Forget` |
| `CommandRegistry` | `application/commands.py`: checks, routing and the two sections of `dispatch` under its lock | outcomes by id, ids in flight, one record per calling thread | `Dispatch`, `Invoke`, `Interrupt`, `Record`, `Return`, `Restart` |
| `DraftCommands` (extends `CommandRegistry`) | `adapters/drafts.py`, `adapters/pfd.py` and the use cases of `application/pfd.py` and `services.py` that reach them | files of both stores, the step of each use case | one per access to a file |
| `PfdDocuments` | `application/pfd.py`: every edit of a document, as operators that refuse or give the next document | none | |
| `ReferenceDraft` | `reference_examples/compiler.py` and the import and export of the browser's format | none | |
| `DocumentDifferences` (extends both) | the content hash of results, the list of differences of the history, the hash of a receipt | none | |
| `PfdEditor` (extends it) | the commands of `uix/pfd_editor.py` with the selection of `uix/pfd_canvas.py` | document, selection, clipboard, undo and redo | one per command |
| `WorkstationTabs` | `uix/workstation_editor.py` and `uix/window.py`: cases in tabs | histories, tabs, receipt and results, unfinished input, the stack of open calls of `run_current` | one per handler of the event loop |
| `FlowsheetModels` | `engine/models.py`, `properties.py`, `catalog.py`: ports, validity, what each unit makes of its inputs | none | |
| `FlowsheetCompiler` | `engine/compiler.py`: diagnostics, recycle groups, execution order | none | |
| `FlowsheetRunner` (extends both) | `engine/runner.py`: one run of a case that was drawn connection by connection | program counter, case, report, evaluations, outputs, result | `Connect`, `Run`, `Validate`, `EvaluateNext`, `EvaluationFails`, `Balance` |
| `ResultViews` (extends it) | `adapters/storage.py`: the workbook and the plots made of a run's artifact | none | |

The `..._proof` modules hold the theorems; each `MC...` module instantiates its component for TLC and
each of its `.cfg` files is one run.

Composition. `WorkerSupervisor` extends `WorkerProcess`: its next-state relation is the interleaving of the application's
threads with the worker's. `DraftCommands` puts both draft stores behind the registry: a use case is performed step by
step while other threads dispatch, and the ledger of request ids is checked of the composition. `PfdEditor` runs the
editor's commands over the edits, and `ResultViews` reads what `FlowsheetRunner` computed. `RunLifecycle` sees the store
and the supervisor through what they answer: the outcomes of `record_attempt` that `PersistenceStore` shows possible, and
the terminal events, losses and timeouts that `WorkerSupervisor` shows possible. In the same way `WorkstationTabs`
sees the history through its heads and a run through its answer. These are kept apart because each fills the
bound of a run by itself.

How code becomes actions: a section under a lock, or a handler of the event loop, is one step. A call that writes durable
state twice, waits, or leaves the lock ends a step; the locals that survive it are kept per thread (`call`, `caller`,
`step`, `frames`). Calls that raise before they change anything are false guards, except where an answer is what a property
is about.

The flowsheet modules compute in whole numbers: the heat capacity is 1, so that a temperature is a specific
enthalpy, and a stream carries its heat along, which stays exact where a temperature is rounded down. Shares are halves
of even quantities; a split of others is left to the failures below. That keeps what the properties are about (which value flows where, which verdict follows, what
balances) and gives up what only floating point decides: tolerances, inversions, iteration. Such failures are the
action `EvaluationFails`, which every unit may take.

Documents have numbered identities in the order `uuid4` gives them, tags made of a name, a number and the suffixes of
branches, inputs that are texts, and one layout value for coordinates, routes and expansion.

The mutants PROJECT.json lists are definitions marked "mutant" just before the definition they alter. Each
stands for a plausible bug of the code; with it in place of the original the property it is listed for fails.

## 3. Runs, bounds and what they show

| Run | Question | Bounds, and why they are enough |
|---|---|---|
| `store_ledger` | Do JSON and index keep the first terminal disposition and agree after crashes, failed commits, index loss and rebuilds? | Two attempts (a conflict is per attempt, the selection and a rebuild range over several), two processes, two admission identities, one legacy file, one revision |
| `runs_worker` | Do slot, records, cancellation and publication fit together with a supervised worker, and is the slot always freed? (liveness) | Two callers and two runs (a run meets at most one other), two workers, one draft content and context, one receipt per process; no symmetry |
| `runs_local` | Do results, cancellation and publication fit together when the application computes by itself, its context changes, and the web API's caller presents no receipt? | Two callers, two contents, two contexts |
| `runs_replacedWorker` | Does the validating worker compute? (no) | One run, two workers |
| `supervisor_replaced` | Do events and cancellation survive the replacement of a worker? | One job, two generations; pipes are as long as their traffic |
| `supervisor_jobs` | Does a late computation of one job meet the next? | Two jobs, one worker |
| `supervisor_cancelEnds` | Does a cancelled job end though the computation hangs? (liveness) | One job, one validation, a slow start and failing writes |
| `history_editing` | Do concurrent editors lose, reorder, repeat or misplace an edit? | Two callers, two actors, two documents, four entries (start, edit, undo, redo), commands in flight together on journals of up to two entries, two native revisions, a browser draft of revision 2 or none |
| `commands_drafts` | Is every request performed once, and does no save, read or listing of the two draft stores lose or hide what was acknowledged? | Two threads, two request ids each shared by several requests, two draft ids with one file name, two bodies, one restart, one save by another process, revisions up to three |
| `editor_editing` | Do edits keep documents usable, and do selection, clipboard, undo and redo always name what is there? | Two sheets (one imported and split, one with groups and a subsystem), every command and every command after it, one selected object, the first row of the table, a clipboard of another window or filled here |
| `desktop_tabs` | Is what is shown, submitted and stored that of the right case and content? | Two cases, two contents of which one is well-posed, two runs, three openings of tabs (a relaunch, which opens all, is one), four entries and runs beyond the start |
| `flowsheet_run` | Is what the compiler accepts what can be run, does a run solve, balance and judge the sheet, and do workbook and profiles say what the run did? | Twenty-two sheets of up to five units with all seven models (loops, branches that meet, lines, exchangers, leaks, mixtures, unfinished units), ids with and against the order of flow, every set of up to five connections, right and wrong |

`MaxAttempts`, `MaxSessions`, `MaxReceipts`, `MaxGenerations`, `MaxJobs`, `MaxValidations`, `MaxEntries`,
`MaxRaced`, `MaxRevisions`, `MaxRevision`, `MaxForeign`, `MaxConnections`, `MaxEdits`, `MaxObjects`, `MaxSelected`,
`MaxWork`, `MaxRuns` and `MaxSerial` are all the bounds of counters there are; they appear as guards. Requests of
`DraftHistory` use at most `MaxEntries + |Callers|` ids, and a stale head is the one before the head. In `PfdEditor`,
undo and redo are taken while edits remain, and a copy leaves room for one edit, so that what it put on the clipboard can
be pasted into an edited document.

`CHECK_DEADLOCK FALSE` stands where the system really may stop: an application whose jobs are over and
whose worker has been stopped for the last time has nothing left to do, neither has a run that has returned, and an
editor, a window or a registry whose bound is used up waits for its user.

### Fairness

* `RunLifecycle.FairSpec`: weak fairness of `RunStep` and `IssueReceipt` of each caller. Both are threads of the
  application between two acquisitions of a lock that no thread keeps while it waits; `execute_job` returns
  within its deadline. None is assumed of users (cancel, edit), of the worker, of storage, of restarts.
* `WorkerSupervisor.FairSpec`: weak fairness of readers, callers (they poll), armed timers, and the bounded
  waits of `start` and `stop`. None is assumed of the worker's computation, which may hang, and none of the
  deadline of a job: that a cancelled job ends follows from its grace timer.

## 4. Proofs

`PersistenceStore_proof` proves, for every number of attempts, processes, revisions and identities:

* `TypeCorrect`: the type invariant;
* `IndexFollowsJson`: a terminal row of the index is what the JSON manifest says;
* `LatestValidIsCompleted`: a run that can be selected as last valid belongs to a COMPLETED, persisted attempt
  unless a rebuild was cut short;
* `StoreImplementsLedger`: the store implements `AttemptLedger`;
* `RebuildIsComplete` (`RebuildAgrees`): a rebuild that ends normally leaves every artifact indexed and every
  manifest in its row, whether the index was dropped or survived.

The assumptions are `StoreAssumption` and `NoRecordIsNone` (the constants are of the kinds the code gives them;
the absence of a record is none). All follow from `Invariant`, the inductive
`IInv == TypeOK /\ IdentityInv /\ TxInv /\ IndexNeverAhead /\ OwnerInv /\ ResultInv /\ VouchedInv`:

* `IndexNeverAhead` is not inductive: `record_attempt` commits a row it computed before it published the manifest.
  `TxInv` says what the holder of SQLite's reservation has decided, and that it stays right until the
  commit because the reservation keeps every other writer of manifests out: before the publication the winner is
  not older than a surviving terminal row, and at the commit a closed winner is what the manifest says.
* `IdentityInv`: manifest, legacy file, row and the decision in flight carry one admission identity, so that
  folding two of them is never a conflict.
* `OwnerInv`: an attempt is executed only by a running process, and only once it has a manifest and a row.
* `ResultInv`: a stored run has an attempt with a manifest, and an indexed run is stored.
* `VouchedInv`: every indexed run has its attempt's row, unless a rebuild was cut short; and while a rebuild is
  at work, no process is up and what it has still to index is what the files say.

`RebuildIsComplete` needs more, `RInv`, inductive on top of `IInv`. The rebuild folds each manifest into the row
there is, so that it may leave the row as it was: `NeverAhead` says that no row, an open one included, is then
different from its manifest (`IndexNeverAhead` says this of terminal rows only), `Decided` that the row about to be
committed keeps it so, and `Rebuilding` that what a rebuild has done and has still to do make up the files.

Each action has a lemma (`ReserveInv`, `PublishInv`, `CommitInv`, ...) with one step per conjunct; `NextInv` combines them.
`PublishedManifest` says what a publication does to the files and serves both the invariant and the refinement, where
`StepAdvances` and `OtherStepsKeepManifests` map a step to one `Advance` of the ledger or a stutter.

`DraftHistory_proof` proves, for every number of callers, actors, documents, entries and revisions, every property
the run `history_editing` checks and three it does not:

* `NoLostUpdate`, `RequestsActOnce`, `PublishedIsKept` (`PublishedStays`): an entry stands behind the head it was decided on, acts once and
  is never changed, although `dispatch` reads, compares and publishes in separate steps without a lock;
* `JournalStaysReadable`, `ReversalsAlwaysFit` (`ReversalsFit`): every journal left behind is one that `entries()` accepts, and an undo or
  redo never meets `UNDO_CONFLICT`;
* `SavesAreNamed`, `RevisionsDiffer` (`NoDuplicateRevision`): what a save names is the revision with its document, and no revision repeats the
  one before;
* `TypeCorrect`, and `HistoryImplementsEditor`: the history implements `UndoEditor`.

The assumption is `HistoryAssumption` (`NoDoc` is not in `Docs`, there is an actor, callers are finitely
many, bounds are numbers). The inductive `IInv == TypeOK /\ ProposalInv /\ StackInv /\ JournalInv /\ NoDuplicateRevision`
carries the whole argument:

* `ProposalInv`: a thread between its decision and the link has a proposal that *may stand next* (`NextEntry`) as long as
  the journal is as long as the thread saw it. Because the link fails when it is not, the checks of `dispatch` need no
  lock. `NextEntry` says that the proposal does one of five things to the head: `Edits`, `Undoes`, `Redoes`,
  `Keeps`, `Branches`.
* `StackInv`: `ReversalsFit` speaks of the tops of the stacks and is not inductive, as an undo uncovers what lies beneath.
  `UndoChain` and `RedoChain` say that each entry of a stack ends where the next one starts, down to the bottom.
* `JournalInv` and `NoDuplicateRevision`: the properties of the journal and of the native revisions.

Each command has a lemma (`EditInv`, `UndoInv`, ..., `PublishInv`). For the refinement, the documents the stacks lead
through are UndoEditor's `past` and `future`, and a publication of a `NextEntry` is one of its steps or a stutter.

`DraftCommands_proof` proves of the registry alone, for every number of callers, requests and sessions, every composition of the registry and
every set of results:

* `RegistryImplementsOnce`: `dispatch` implements `OnceLedger`; however callers repeat, overlap and interrupt their requests, the
  use case of an id comes to its end once per session and its outcome is decided once;
* `AnswersRecorded`: the answer of a use case is the recorded outcome of the caller's own request;
* `TypeCorrect`.

The assumption is `RegistryAssumption` (there is a request, the absence of an entry is none, a session is allowed). The inductive
`IInv == TypeOK /\ OneThread /\ Progress /\ Bookkeeping /\ AnswersAreRecorded`: one caller at most holds an id that is in flight
(`OneThread`), a caller between the two sections holds its id and nothing is recorded for it (`Progress`), and an id that was
performed is recorded or about to be (`Bookkeeping`). `OneThread` is why `Record`, which looks at nothing, never overwrites an outcome.

`RunLifecycle_proof` proves, for every number of callers, runs, workers, receipts, contents and contexts, supervised or not:

* `OneRunAtATime` (`SlotHeldToTheEnd`): the slot is that of the one run under way, to its `finally`;
* `EffectsDurable` (`EffectsAreDurable`): nothing is computed or published without a durable record that recovery finds, and a
  view that was returned belongs to a COMPLETED record and a listed run;
* `CancellationWins` (`CancelWins`): a run whose attempt is shown CANCELLED is never listed afterwards;
* `UnsavedKept` (`UnsavedIsKept`), `OverIsShown` (`OnlyActiveOpen`): a local result whose saving was not acknowledged stays in
  memory, and a call that is over leaves its attempt shown as closed, when storage refuses;
* `PublishedValidated` (`PublishedAsValidated`): what is published has a receipt for its content and the context it was computed in;
* `TypeCorrect`.

The assumptions are `LifecycleAssumption` (only an application without a supervised worker has legacy callers), `NoReceiptIsNone`
and `NoRecordIsNone`. The inductive `IInv` is `TypeOK`, `Apart` and, for each caller, `CallerInv`:

* `Apart`: one thread at most works on a run, and no two threads have the same run. It makes the sections under the lock, with
  everything other threads do between them, independent: `ThreadStep` shows that a step which keeps to its `Frame` (its own
  attempt, a free slot, a fresh attempt) disturbs no other thread.
* `Trace`: while a run is under way its durable record is open or cancelled, and nothing but a cancellation is shown in its
  place; between promotion and completion it is RUNNING. The three outcomes of `record_attempt` meet here (`Recorded`).
* `Slot`, `Phase`, `Told`, `Kept`, `Over` and `Validated` are the parts the theorems read off.

Each action has a lemma (`AdmitInv`, `PublishInv`, `HandleInv`, `CancelRunInv`, ...); `StepKeeps` combines them. Each lemma also
concludes that cancellations stay, from which the action property follows. The proof needed `MaxSessions` to be positive
(the first worker has session 1) and receipts to differ from their absence; both became assumptions of `RunLifecycle`.

It proves of the draft stores behind the registry, for every number of callers, requests, drafts, revisions and restarts, every property the run
`commands_drafts` checks:

* `AcknowledgedStays` (`AcknowledgedStay`): the file a save was acknowledged for holds that document for ever;
* `RevisionsChange` (`RevisionsAreChanges`): revisions have no gaps and each changes the one before, but for numbers that an
  imported draft brings along;
* `ReadsFresh` (`ReadsAreFresh`): a read, which takes no lock and asks two stores in turn, shows nothing older than what was
  acknowledged when it began;
* `DraftsImplementOnce` (`ImplementsOnce`): with the use cases performed step by step between `Invoke` and `Record`, the
  registry still implements `OnceLedger`.

The assumptions are those of the registry and `DraftAssumption`: a file name is its own file name (`_paths` replaces
each forbidden character by one that it leaves alone), bodies of requests are documents, and a torn file holds none. The inductive `DraftInv` adds to the registry's
`IInv`, which the use cases keep because a caller performs only while it is invoking:

* `BrowserFiles`, `NativeFiles`: a file holds what its name says, or is torn; no two files have one name and number, and there is a latest;
* `OneSaver`: one thread at most is between the choice of a revision and its file in each store (the registry's lock of the store);
* `BrowserSave`, `NativeSave`: the revision a save has chosen is still the one after the latest, or, for the native store, another
  process has published that number and the exclusive link will refuse it;
* `Changes`, `Knows`, `Fresh`: the parts the theorems read off, for the files and for each thread.

`WorkerSupervisor_proof` proves, for every number of worker generations, jobs and validations, slow starts and failing writes included:

* `OneJobAtATime` (`OneJobPerWorker`): a worker has one job under way at most;
* `CancellationIsBounded` (`CancelIsBounded`): a job that is waited for on a worker that serves, and whose cancellation was
  taken, has a timer that runs; it is what the liveness of `supervisor_cancelEnds` rests on;
* `TypeCorrect`.

Under the hypothesis `~ SlowStart`, that every worker answers within the handshake timeout, it proves `TerminalsArrive` (`NoTerminalLost`),
`SessionsMatch` (`SessionIsProcess`) and `HellosOfTheStarted` (`StartedWorkerAnswers`): no event a caller waits for is dropped by the checks of
session and sequence number. The hypothesis is needed: with a worker that is slower, the next `start` takes the late
hello (section 5), and its run `supervisor_cancelEnds` asks only what holds without it.

* `JobFrames`, `Threads`: a job is written once, to one worker, and started once; the worker that runs it knows it. `Unconfirmed` and `Doomed` say
  what becomes of a worker that reads something else before its confirmation: it never serves.
* `Process`, `Readers`: a worker that was spawned has a reader, which ends only with it while no one stops it.
* `Timers`: a timer that runs has captured the process and the session that were there when its job was sent.
* `Numbers`: an event on its way has a number beyond those that were read, so that the reader's check lets it through; with
  `Hellos` (no hello is left in a pipe outside its own start) this gives `Delivery`.

`WorkstationTabs_proof` proves, for every number of cases, contents, runs, tabs and nested calls of `run_current`, every property the run
`desktop_tabs` checks:

* `SubmissionsAreValidated` (`RunnableIsValidated`), `ResultsStay` (`ResultsStayWithTheirCase`), `UnflaggedAreCurrent` (`UnflaggedIsCurrent`),
  `OverlaysAreValid` (`OverlaysFromValidRuns`): what is submitted, kept and shown is that of the right case and content;
* `InputsAreKept` (`NavigationKeepsInputs`): whenever another tab comes to the front, all unfinished input has become an entry of its own case;
* `TypeCorrect`.

The assumptions say that the absence of a thing is none of its values (`NoneAssumption`, `NoneIsNoSession`), that bounds are numbers
(`BoundsAssumption`), and what the code's types give (`ContentsAssumption`). The inductive invariant is
`IInv == Good(Now, runs) /\ RunsGood(runs) /\ FramesGood(frames, runs)`. `Good` is a predicate of a window between two calls of its methods, not only
between two handlers: each method has one lemma that says what it makes of a good window (`RefreshDoes`, `AdoptDoes`, `CommitDoes`,
`FlushDoes`, `CompletedDoes`, ...), and each handler is a chain of them.

* `SessionGood`: results, sources and receipt of a session are of its case; overlays of a run of the tab itself are valid.
* `FrontReceipt`: the receipt the window holds has the content its session says was validated. It is what `Has_valid_receipt` does not
  compare, and without it a receipt handed over by a change of the tab could be of an older content.
* `OnScreen`: the screen is that of the session in front after each method that returns, so a handler may submit what is shown.
* `Form`: one input at a time is unfinished, so that the input which is flushed with another is applied to the head it was typed at.
* `FramesGood`: every open call of `run_current` has a run of its own, later calls have later runs, and a result comes once.

`Flowsheet_proof` proves, for sheets of any size, with any connections, materials and quantities, every property the run `flowsheet_run` checks:

* `CompilerDecides` (`ValidIsWellPosed`): the compiler's verdict, which is made of eight sets of diagnostics, is that the case can be evaluated: nothing
  is missing, each inlet is fed once, no outlet twice, and the units can be ordered. One direction needs that the execution order leaves no unit
  of an acyclic sheet out (`SomeReady`, `OrderIsTopological`), the other that a recycle group contradicts every order (`RankedIsAcyclic`);
* `OnePassSolves` (`SolvesTheSheet`): the outputs of a converged run solve the equations of all units at once;
* `ValidityReachesStreams` (`ValidStreamsAreBacked`): no stream of a VALID run lies outside its evidence;
* `ResidualsAreLeaks`: the residuals of a converged run are exactly what its open outlets carry, and
  `ClosureFindsLeaks` (`ClosesUnlessLeaking`): it closes if and only if none with something in it is open;
* `WorkbookBalances` (`BalancesAccount`), `ProfilesFollowStreams` (`ProfilesAreStreams`): what the views compute again is what the run found;
* `TypeCorrect`.

The assumptions are `ModelsAssumption` (the evidence of a material lies in its hard domain, temperatures are naturals) and `SheetsAssumption`
(a sheet has finitely many units, and their parameters are quantities). `ClosureFindsLeaks` has the hypothesis `FlowsForward`, that no source is given a negative
mass flow: `SourceUnit.evaluate` does not refuse one, and what is drawn at one open outlet could then make up for what leaks from another. The sheets of the run satisfy it
(`MCForward` in `MCFlowsheet`). `ResidualsAreLeaks` needs no such hypothesis.

The inductive `IInv == Setting /\ (Evaluating => Progress /\ EvaluatedAll)` was checked by TLC on the sheets of the run before it was proved:

* `Setting`: the report is that of the case, nothing is evaluated before the verdict, and a result is what the run's variables say;
* `Progress`: units are evaluated along the order, and the values are those of their outlets, no others;
* `EvaluatedAll`: for every unit evaluated so far, its outputs are what it makes of the values that are at its inlets *now*. That a later unit changes
  none of them is what the order and the single feeds are for (`FedFrom`, `InletsCarry`).

Each model has two lemmas: what an evaluation returns (`HeaterSound`, `ExchangerSound`, ...) and what it conserves (`ThermalConserves`,
`ExchangerConserves`, ...). `LocalBalance` puts the latter as sums over a unit's outlets and connections, and `SheetBalance` adds them up: every stream is
of one unit, every connection carries one stream to one unit, so that what remains is sources, sinks, duties and open outlets.

`PfdEditor_proof` proves, for documents with any number of objects, whatever is on the clipboard and any sequence of commands:

* `DraftsConverting` (`DraftsConvert`): if the documents that are opened convert, for the browser format and for the engine's adapter, each with
  tables of its own, and with one stream at a port at most, so does everything that is made of them, whatever is on the clipboard;
* `SelectionStays` (`SelectionIsThere`): the selection of the canvas or the table is in the document that is shown;
* `NumbersDiffer` (`NumbersIssuedOnce`): no two streams of a document's edits are given the same number;
* `EditsClassified` (`EditsAreClassified`): of every step, the history's classification agrees with the differences it lists, and
  without an engineering change the hash a validation receipt is for stays.

The assumption is `EditorAssumption`, on what is opened and what is on the clipboard. A document that is opened passes `check` (`Full`) and its units are of the
catalogue (`Sound`). It says nothing of where streams lead: `ConnectionDto` (`boundary/contracts.py:129`) has "invalid locators may be saved but fail
authoritative validation", and `check` leaves what was imported "visible", "not silently repaired on open" (`pfd.py:171`), so a file may have a stream at a port or a unit
that is not there, or two at a port. That every such file stays out is the hypothesis of `DraftsConverting` alone, and what the theorem adds to it is that no edit makes
one. The other theorems hold of these files, too. A clipboard may hold a document that fails `check`, which `Paste` refuses.

The inductive `IInv`, which TLC checked on the run `editor_editing` before it was proved, is `Good(Now)`, `Snapshots(past, fresh)`, `Snapshots(future, fresh)`, the selection and the
clipboard. `Good` is a predicate of a document under work (`WorkInv` and `Full`): `Sound`, `Issued`, that every identity and every stream number in use was handed out,
numbers in ascending order, and `Wiring` and `Labelling`, what makes it convert if those that are opened do. Undo and redo need it of every document on their stacks.

* Each edit has a lemma (`SetLayoutKeeps`, `ConnectPortsKeeps`, ...) with the conclusion `Keeps`: the frame of `edit`, which recovers, checks, changes, mirrors and
  checks again (`Frame`, `EditKeeps`), leaves a good document whatever the change does, provided it is `Inner`. The check sees identities and tags, but neither ports nor
  models: that connecting, removing and configuring keep those is what the lemmas show (`PortTaken`, `StreamsStay`).
* A split goes through documents that are not mirrored for the browser format: the upstream segment takes the stream's identity, branches are linked. `Composes`
  is what holds in between, `IdentityTaken` and `SameShape` are its steps, and `SplitKeeps` its end.
* A paste, and a reset of several routes, are folds over the objects in the order of their identities. `Ordered` shows that the recursive function `InOrder` lists a set,
  `FoldExists` that a fold of the community modules satisfies its equation, and `FoldKeeps` that it keeps what each step keeps. `FoldStep` names the four steps, as no lemma can
  have an operator for a parameter.

The library's induction theorems cannot be used (they take an operator as a parameter), so every induction here is the other way round:
of the counterexamples there is a smallest (`SmallestNumber`, `SmallestSubset`, from `WFMin`), and it is none. Along this line
`FirstExists` shows that the recursive function of `ExecutionOrder` exists, `SumsExist` and `SumOf` that the fold of the community modules, which chooses its next element
arbitrarily, satisfies its equation, and `SumIs` that every choice gives the same sum; `SumUnion`, `SumPlus`, `SumWhere`, `SumRenamed` and
`SumOfParts` follow. `OrderIsTopological` and `StreamsForward` are inductions over units of a sheet.

Only model-checked: that a split is an insertion and a paste a copy (`SplitIsAnInsertion`, `PasteIsACopy`), which say what a composition of edits makes of each object; and all
liveness, for which the prover has no rule (it reasons about neither fairness nor `ENABLED`): `SlotIsFreed`, `CancelledJobEnds`.

## 5. Known divergences

Each of these is a property that a document states, or that one would expect, and the code does not keep. The first is a run
that TLC ends with a counterexample; for the others, name the property in a `.cfg` of the module.

| Property | Where | What happens |
|---|---|---|
| `ComputedByValidatingWorker` (`RunLifecycle`) | `application/services.py:245` | The session is compared before the job is dispatched; a worker replaced in between computes on its predecessor's receipt |
| `OnlyOrphansInterrupted` (`PersistenceStore`) | `persistence/store.py:576` | A process that starts interrupts attempts another living process executes; nothing locks the data root |
| `FailedNeverLatestValid` (`PersistenceStore`) | `persistence/store.py:616` | A rebuild killed between the runs and the attempts leaves a FAILED attempt's run selectable (docs/FAILURE_RECOVERY.md:123) |
| `ShownDispositionStays` (`RunLifecycle`) | `application/services.py:427` | An attempt shown FAILED from memory is shown CANCELLED after a later `cancel_run` (docs/CONTRACTS.md:429) |
| `CancelledNeverListed` (`RunLifecycle`) | `application/services.py:366` | The COMPLETED record fails after the result was saved, and a cancellation comes before the handler takes the lock (docs/CONTRACTS.md:440) |
| `ReceiptOfValidatingWorker` (`WorkerSupervisor`) | `application/services.py:148` | The session of a receipt is read after the answer came |
| `TimerBelongsToProcess` (`WorkerSupervisor`) | `adapters/worker_supervisor.py:320` | `cancel` captures the process that is there, not the one the job was sent to (docs/FAILURE_RECOVERY.md:117) |
| `TimerRemovedAtCompletion` (`WorkerSupervisor`) with `BrokenWrites = TRUE` | `adapters/worker_supervisor.py:245` | A frame that cannot be written leaves its job registered; cancelling it later kills whichever worker is there |
| `StartedWorkerAnswers` (`WorkerSupervisor`) with `SlowStart = TRUE` | `adapters/worker_supervisor.py:409` | A hello that missed its start is taken by the next one |
| `ImportedIsPublished` (`DraftHistory`) | `application/history.py:186` | Importing a browser draft names its browser revision as a saved native version; the native store may later give that number to another document (docs/native/DW3_2_WORKSTATION.md) |
| `ExtrapolationIsMarked` (`FlowsheetRunner`) | `engine/models.py:367` | The heat exchanger asks each liquid for its enthalpy at the other's temperature, which may lie outside the evidence, and takes no validity from it (docs/DECISIONS.md:43) |
| `ProfilesDoNotCross` (`ResultViews`) | `adapters/storage.py:666` | Profiles are drawn side by side from the inlets, so a good counterflow exchanger shows the cold stream above the hot one (docs/native/DW5_CHANGE_RECORD.md:43) |
| `AdvertisedIsServed` (`CommandRegistry`) for the preview's composition | `application/commands.py:106` | `create_preview_gateway` (`adapters/desktop_preview.py`) advertises commands its services reject |
| `UnflaggedIsSubmitted` (`WorkstationTabs`) | `uix/workstation_editor.py:1621` | A run started from a historical view is recorded with the hash of the case's current document, and its results are shown unflagged beside that one (docs/PFD_SPECIFICATION.md:167) |

Others are visible in the shape of actions:

* `DraftHistory`, `Fails` and `Publish`: `_commit` says "failed publication cannot advance the head",
  and `publish` may raise from the directory's fsync after the entry has been linked (`adapters/history.py:40`). The
  model lets every answer be lost, so all properties hold with it; a caller that retries with the same request id
  is answered with the entry.
* `DraftCommands`, `Imported`: the first native save of an imported draft takes the revision number it brings along. When
  another process published revision 1 in the meantime, revisions have a gap (`adapters/pfd.py:85`).
* `WorkstationTabs`, `Refresh`: the refresh at the end of a run, a cancellation, a return from a preview or a branch makes the input form
  anew and loses text that was typed and not finished, which the comment at `uix/workstation_editor.py:616` excludes.
  `NavigationKeepsInputs` holds for changes of the tab.
* `WorkstationTabs`, `RunCurrent`: after a cancellation a second run may be started inside the event loop of the first; the first
  then returns last, and its older result replaces the newer one. A case that was closed and reopened while its run was under
  way gets the workbook without the hash it was submitted with, and is never flagged stale.
* `PfdEditor`, `SelectedIds`: a command whose canvas selection is empty falls back on the table's rows, which by then may show another
  object; renaming and deleting ask for a selection of the canvas.
* `PfdDocuments`: a split stream leaves its visual group (`application/pfd.py:495`); a second split of the same
  stream ends in `TAG_CONFLICT`, as its branch names are taken; swapped tags and tags taken from the next number are not followed by linked branches.
* `DocumentDifferences`: the first edit of an imported draft, a moved viewport or a subsystem saved again with
  its members in another order may leave an entry classified "presentation" that lists no difference.
* `ResultViews`, `StreamRows`: a sheet without connections shows each stream four times, under every spelling of its
  identity (`adapters/storage.py:349`); a unit that was not evaluated is shown the plot of the whole process.

## 6. Not modelled

* Verdicts and numbers: contents of validation results, of runs and of diagnostics; a validation may pass or not.
* `on_worker_lost` and diagnostic events: they change nothing that is kept.
* Numerics of `engine/`: solvers, floating-point properties, recycle convergence (a cyclic sheet is refused by `run`);
  the execution order of a cyclic sheet and the list of variables, which nothing reads there.
* Protocol negotiation between different versions: both sides are of one build.
* Files damaged by others: readers refuse them by hash.
* In `DraftHistory`, branch names, labels and read-only commands; the recovery of the presentation at import
  is the identity on documents that `save` accepts.
* In `CommandRegistry`, the gate for proposals of extensions, a pure check of fields; in `DraftCommands`, the use cases that do not reach
  a draft store, and unit conversion.
* In `PfdEditor`, drawing, zoom, the visibility of groups, a document refreshed during a drag, shortcuts and the command line; in `WorkstationTabs`,
  badges, the choice among older runs, plots, preferences.
* In `ResultViews`, metrics, comparison of runs and the loading of files.
* Web API, contracts and codecs, core values and the prototype study: no state or none of their own, see
  `components` in PROJECT.json.

## 7. Plan

1. Store and its proofs: done.
2. Run lifecycle: done, with its proofs.
3. Worker and supervisor: done, with their proofs.
4. Draft history and its proofs: done.
5. Command registry, draft stores and their proofs: done.
6. PFD edits, their conversions and differences, the editor: done, with their proofs. To prove: what splits and pastes make of each object.
7. Flowsheet and result views: done, with their proofs.
8. Tabs: done, with their proofs.
