--------------------------- MODULE PersistenceStore ---------------------------
(***************************************************************************)
(* src/bh_sim/persistence/store.py: immutable JSON artifacts, one JSON     *)
(* manifest per run attempt, and a disposable SQLite index over both.      *)
(*                                                                         *)
(* Several application processes (Instances) may open the same directory.  *)
(* A process runs its store calls one at a time (ApplicationServices holds *)
(* its lock around each), two processes interleave, and any call may raise *)
(* or its process die between the JSON write and the index commit.         *)
(*                                                                         *)
(* Each attempt has one run and a run one artifact, so Attempts also names *)
(* the runs and their artifacts.  A case row is inserted with DO NOTHING on*)
(* conflict just before its revision's, so the two are one revision here.  *)
(* Not modelled: corrupt files, artifacts of runs older than the attempts  *)
(* table, reads (they are the operators ReadManifest, GetAttempt,          *)
(* LatestValidCandidates).                                                 *)
(***************************************************************************)
EXTENDS AttemptRecords, FiniteSets

CONSTANTS
    Attempts,       \* attempt ids, each with its run and run artifact
    Instances,      \* processes that share the data directory
    Revisions,      \* draft revisions
    RevisionOf,     \* the revision an attempt's run was computed from
    Nobody,         \* no process
    Proposals,      \* records the callers of record_attempt propose
    LegacyRecords,  \* records an older build left behind
    InterruptNote   \* terminal time and reason of startup reconciliation

ASSUME StoreAssumption ==
    /\ RevisionOf \in [Attempts -> Revisions]
    /\ Nobody \notin Instances
    /\ Proposals \subseteq Record
    /\ LegacyRecords \subseteq Record
    /\ InterruptNote \in Notes

VARIABLES
    manifest,   \* attempts/<sha256 of the id>.json
    legacy,     \* attempts/<raw id>.json of an older build, read and never written
    row,        \* SQLite table attempts
    runRow,     \* SQLite table runs: ids it holds
    revRow,     \* SQLite table revisions: ids it holds
    runArt,     \* run artifacts on disk, with the verdict of their four statuses
    revArt,     \* revision artifacts on disk
    tx,         \* the holder of SQLite's write reservation
    up,         \* processes that run
    toClose,    \* per process: startup reconciliation's snapshot, still to record
    owner,      \* the process that executes the attempt's job
    rebuild,    \* progress of rebuild_index_from_artifacts
    sound       \* history: no row contradicts a file because of an older build

indexVars == <<row, runRow, revRow>>
fileVars  == <<manifest, legacy, runArt, revArt>>
procVars  == <<tx, up, toClose, owner>>
vars == <<indexVars, fileVars, procVars, rebuild, sound>>

-------------------------------------------------------------------------------
(* Reads *)

\* Both paths folded, the hashed one first; AttemptWinner(NoRecord, r) is r.
ReadManifest(a) ==
    IF legacy[a] = NoRecord THEN manifest[a] ELSE AttemptWinner(manifest[a], legacy[a])

\* JSON overrides the index, which answers alone for index-only attempts.
GetAttempt(a) == IF ReadManifest(a) # NoRecord THEN ReadManifest(a) ELSE row[a]

\* The runs among which load_latest_valid_run takes the newest: accepted on all
\* four statuses, and no attempt row that is not COMPLETED and persisted.
AcceptedRuns == {a \in runRow : runArt[a] = "accepted"}  \* mutant: attempts are ignored
LatestValidCandidates ==
    {a \in runRow : /\ runArt[a] = "accepted"
                    /\ \/ row[a] = NoRecord
                       \/ row[a].state = "COMPLETED" /\ row[a].persisted}

-------------------------------------------------------------------------------
(* record_attempt: reserve, decide, publish the JSON, commit the index row *)

NoTx == [by |-> Nobody]
Tx == [by : Instances, attempt : Attempts, winner : Record,
       phase : {"publish", "commit"}, proposed : States]

NothingToClose == [a \in Attempts |-> NoRecord]

\* INSERT ... ON CONFLICT DO UPDATE leaves the identity columns alone.
Upsert(existing, winner) ==
    IF existing = NoRecord THEN winner
    ELSE [winner EXCEPT !.identity = existing.identity]

\* mutant: the winner is decided against the index alone
ReserveFromIndex(i, a, proposal) ==
    LET winner == AttemptWinner(row[a], proposal)
    IN  /\ up[i] /\ tx = NoTx
        /\ ~ Conflict(row[a], proposal)
        /\ tx' = [by |-> i, attempt |-> a, winner |-> winner, proposed |-> proposal.state,
                  phase |-> IF ReadManifest(a) = winner THEN "commit" ELSE "publish"]
        /\ UNCHANGED <<indexVars, fileVars, up, toClose, owner, rebuild, sound>>

\* BEGIN IMMEDIATE, read the row and the manifests, decide the winner.
Reserve(i, a, proposal) ==
    LET durable == ReadManifest(a)
        base    == IF durable # NoRecord THEN durable ELSE row[a]
        winner  == AttemptWinner(base, proposal)
    IN  /\ up[i] /\ tx = NoTx
        /\ ~ Conflict(base, proposal)       \* else ValueError, and a rollback
        /\ tx' = [by |-> i, attempt |-> a, winner |-> winner,
                  phase |-> IF durable = winner THEN "commit" ELSE "publish",
                  proposed |-> proposal.state]
        /\ UNCHANGED <<indexVars, fileVars, up, toClose, owner, rebuild, sound>>

Reconciling(i) == toClose[i] # NothingToClose

\* A service call of a process whose startup reconciliation has ended.
Record_attempt(i, a, proposal) ==
    /\ ~ Reconciling(i)
    /\ Reserve(i, a, proposal)

\* reconcile_startup_attempts: the next attempt of the snapshot.
ReconcileNext(i, a) ==
    /\ toClose[i][a] # NoRecord
    /\ Reserve(i, a, [toClose[i][a] EXCEPT !.state = "INTERRUPTED", !.note = InterruptNote])

\* os.replace of the fsynced sibling file
PublishManifest(i) ==
    /\ tx.by = i /\ tx.phase = "publish"
    /\ manifest' = [manifest EXCEPT ![tx.attempt] = tx.winner]
    /\ tx' = [tx EXCEPT !.phase = "commit"]
    /\ UNCHANGED <<indexVars, legacy, runArt, revArt, up, toClose, owner, rebuild, sound>>

\* The job is executed once RUNNING was recorded and until a terminal record was.
OwnerAfter(i) ==
    CASE Reconciling(i)           -> owner
      [] tx.proposed = "RUNNING"  -> [owner EXCEPT ![tx.attempt] = i]
      [] tx.proposed \in Terminal /\ owner[tx.attempt] = i
                                  -> [owner EXCEPT ![tx.attempt] = Nobody]
      [] OTHER                    -> owner

CommitIndex(i) ==
    /\ tx.by = i /\ tx.phase = "commit"
    /\ row' = [row EXCEPT ![tx.attempt] = Upsert(@, tx.winner)]
    /\ owner' = OwnerAfter(i)
    /\ toClose' = [toClose EXCEPT ![i][tx.attempt] = NoRecord]
    /\ tx' = NoTx
    /\ UNCHANGED <<runRow, revRow, fileVars, up, rebuild, sound>>

\* The JSON write or the commit raises: rollback.  The JSON stays as it is, and an
\* exception in reconciliation ends it (ApplicationServices suppresses it).
RecordFails(i) ==
    /\ tx.by = i
    /\ tx' = NoTx
    /\ toClose' = [toClose EXCEPT ![i] = NothingToClose]
    /\ UNCHANGED <<indexVars, fileVars, up, owner, rebuild, sound>>

-------------------------------------------------------------------------------
(* save_case + save_revision, save_run *)

Ready(i) == up[i] /\ ~ Reconciling(i) /\ tx.by # i

\* `indexed' is FALSE when the index statement raises after the artifact is in place.
SaveRevision(i, r, indexed) ==
    /\ Ready(i)
    /\ revArt' = revArt \cup {r}
    /\ revRow' = IF indexed THEN revRow \cup {r} ELSE revRow
    /\ indexed => tx = NoTx                 \* the write reservation is free
    /\ UNCHANGED <<row, runRow, manifest, legacy, runArt, procVars, rebuild, sound>>

\* The executing process saves its result: the artifact, then a plain INSERT that
\* fails on a known run and, by foreign key, on an unknown revision.
SaveRun(i, a, verdict, indexed) ==
    /\ Ready(i) /\ owner[a] = i
    /\ runArt[a] \in {"none", verdict}      \* content-addressed: never overwritten
    /\ runArt' = [runArt EXCEPT ![a] = verdict]
    /\ indexed => tx = NoTx /\ a \notin runRow /\ RevisionOf[a] \in revRow
    /\ runRow' = IF indexed THEN runRow \cup {a} ELSE runRow
    /\ UNCHANGED <<row, revRow, manifest, legacy, revArt, procVars, rebuild, sound>>

-------------------------------------------------------------------------------
(* Processes start, reconcile and die *)

AllDown == \A i \in Instances : ~ up[i]

\* PersistenceStore and ApplicationServices are constructed; reconciliation lists
\* every attempt that is still ADMITTED or RUNNING.
Start(i) ==
    /\ ~ up[i] /\ ~ rebuild.busy
    /\ up' = [up EXCEPT ![i] = TRUE]
    /\ toClose' = [toClose EXCEPT ![i] =
         [a \in Attempts |-> IF Open(GetAttempt(a)) THEN GetAttempt(a) ELSE NoRecord]]
    /\ UNCHANGED <<indexVars, fileVars, tx, owner, rebuild, sound>>

\* Exit or crash: SQLite rolls the open transaction back.
Die(i) ==
    /\ up[i]
    /\ up' = [up EXCEPT ![i] = FALSE]
    /\ tx' = IF tx.by = i THEN NoTx ELSE tx
    /\ toClose' = [toClose EXCEPT ![i] = NothingToClose]
    /\ owner' = [a \in Attempts |-> IF owner[a] = i THEN Nobody ELSE owner[a]]
    /\ UNCHANGED <<indexVars, fileVars, rebuild, sound>>

-------------------------------------------------------------------------------
(* The operator's recovery: stop the application, drop the index, rebuild it *)

Idle(torn) == [busy |-> FALSE, torn |-> torn, revs |-> {}, runs |-> {},
               attempts |-> NothingToClose]

LoseIndex ==
    /\ AllDown /\ ~ rebuild.busy
    /\ row' = [a \in Attempts |-> NoRecord]
    /\ runRow' = {} /\ revRow' = {}
    /\ rebuild' = Idle(FALSE)
    /\ sound' = TRUE
    /\ UNCHANGED <<fileVars, procVars>>

\* The artifacts and the manifests are read before anything is inserted.
StartRebuild ==
    /\ AllDown /\ ~ rebuild.busy
    /\ rebuild' = [busy |-> TRUE, torn |-> rebuild.torn, revs |-> revArt,
                   runs |-> {a \in Attempts : runArt[a] # "none"},
                   attempts |-> [a \in Attempts |-> ReadManifest(a)]]
    /\ UNCHANGED <<indexVars, fileVars, procVars, sound>>

RebuildRevision(r) ==
    /\ rebuild.busy /\ r \in rebuild.revs
    /\ r \notin revRow                      \* plain INSERT
    /\ revRow' = revRow \cup {r}
    /\ rebuild' = [rebuild EXCEPT !.revs = @ \ {r}]
    /\ UNCHANGED <<row, runRow, fileVars, procVars, sound>>

\* `torn' remembers that runs were indexed whose attempts may not be.
RebuildRun(a) ==
    /\ rebuild.busy /\ rebuild.revs = {} /\ a \in rebuild.runs
    /\ a \notin runRow /\ RevisionOf[a] \in revRow
    /\ runRow' = runRow \cup {a}
    /\ rebuild' = [rebuild EXCEPT !.runs = @ \ {a}, !.torn = TRUE]
    /\ UNCHANGED <<row, revRow, fileVars, procVars, sound>>

\* index_attempt without a publisher: the row itself stands against the manifest.
RebuildAttempt(a) ==
    LET item == rebuild.attempts[a]
    IN  /\ rebuild.busy /\ rebuild.revs = {} /\ rebuild.runs = {}
        /\ item # NoRecord /\ ~ Conflict(row[a], item)
        /\ row' = [row EXCEPT ![a] = Upsert(@, AttemptWinner(@, item))]
        /\ rebuild' = [rebuild EXCEPT !.attempts[a] = NoRecord]
        /\ UNCHANGED <<runRow, revRow, fileVars, procVars, sound>>

\* mutant: a rebuild that restores the artifacts and forgets the attempts
RebuildWithoutAttempts ==
    /\ rebuild.busy /\ rebuild.revs = {} /\ rebuild.runs = {}
    /\ rebuild' = Idle(FALSE)
    /\ UNCHANGED <<indexVars, fileVars, procVars, sound>>

RebuildDone ==
    /\ rebuild.busy /\ rebuild.revs = {} /\ rebuild.runs = {}
    /\ rebuild.attempts = NothingToClose
    /\ rebuild' = Idle(FALSE)
    /\ UNCHANGED <<indexVars, fileVars, procVars, sound>>

\* An INSERT raises (a row exists, a key is foreign) or the process dies; every
\* statement already executed was committed on its own.
RebuildStops ==
    /\ rebuild.busy
    /\ rebuild' = Idle(rebuild.torn)
    /\ UNCHANGED <<indexVars, fileVars, procVars, sound>>

-------------------------------------------------------------------------------
Agree == \A a \in Attempts : row[a] # NoRecord /\ legacy[a] # NoRecord => row[a] = legacy[a]

\* What older builds left: a raw-id manifest, a row without a manifest, or both, which
\* may contradict each other.
Init ==
    /\ manifest = [a \in Attempts |-> NoRecord]
    /\ legacy \in [Attempts -> LegacyRecords \cup {NoRecord}]
    /\ row \in [Attempts -> LegacyRecords \cup {NoRecord}]
    /\ sound = Agree
    /\ runRow = {} /\ revRow = {} /\ revArt = {}
    /\ runArt = [a \in Attempts |-> "none"]
    /\ tx = NoTx
    /\ up = [i \in Instances |-> FALSE]
    /\ toClose = [i \in Instances |-> NothingToClose]
    /\ owner = [a \in Attempts |-> Nobody]
    /\ rebuild = Idle(FALSE)

InstanceStep(i) ==
    \/ \E a \in Attempts, p \in Proposals : Record_attempt(i, a, p)
    \/ \E a \in Attempts : ReconcileNext(i, a)
    \/ PublishManifest(i)
    \/ CommitIndex(i)
    \/ RecordFails(i)
    \/ \E r \in Revisions, indexed \in BOOLEAN : SaveRevision(i, r, indexed)
    \/ \E a \in Attempts, v \in {"accepted", "rejected"}, indexed \in BOOLEAN :
          SaveRun(i, a, v, indexed)
    \/ Start(i)
    \/ Die(i)

RebuildStep ==
    \/ LoseIndex
    \/ StartRebuild
    \/ \E r \in Revisions : RebuildRevision(r)
    \/ \E a \in Attempts : RebuildRun(a) \/ RebuildAttempt(a)
    \/ RebuildDone
    \/ RebuildStops

Next == (\E i \in Instances : InstanceStep(i)) \/ RebuildStep

Spec == Init /\ [][Next]_vars
-------------------------------------------------------------------------------
(* Properties *)

TypeOK ==
    /\ manifest \in [Attempts -> MaybeRecord]
    /\ legacy \in [Attempts -> MaybeRecord]
    /\ row \in [Attempts -> MaybeRecord]
    /\ runRow \subseteq Attempts
    /\ revRow \subseteq Revisions
    /\ runArt \in [Attempts -> {"none", "accepted", "rejected"}]
    /\ revArt \subseteq Revisions
    /\ tx \in Tx \cup {NoTx}
    /\ up \in [Instances -> BOOLEAN]
    /\ toClose \in [Instances -> [Attempts -> MaybeRecord]]
    /\ owner \in [Attempts -> Instances \cup {Nobody}]
    /\ rebuild \in [busy : BOOLEAN, torn : BOOLEAN, revs : SUBSET Revisions,
                    runs : SUBSET Attempts, attempts : [Attempts -> MaybeRecord]]
    /\ sound \in BOOLEAN

\* The manifests of all processes together keep the promise of AttemptLedger: first
\* terminal disposition and admission identity survive failed commits, crashes, index
\* loss, a second process and an older build's file (_attempt_winner, record_attempt).
Ledger == INSTANCE AttemptLedger WITH ledger <- [a \in Attempts |-> ReadManifest(a)]
ImplementsLedger == Ledger!Spec

\* A terminal row of the index is the disposition the JSON holds: JSON is published
\* before the row is committed, and no rebuild revives an older row (index_attempt).
\* An older build's contradictory index counts from when it is dropped.
IndexNeverAhead ==
    \A a \in Attempts :
        sound /\ Closed(row[a]) /\ ReadManifest(a) # NoRecord => row[a] = ReadManifest(a)

\* Only a run whose attempt is durably COMPLETED and persisted can be selected as last
\* valid, unless a rebuild of the index was cut short or the index contradicts the files
\* since an older build (latest_valid_artifact_hash).
LatestValidCompleted ==
    \A a \in LatestValidCandidates :
        \/ rebuild.torn \/ ~ sound
        \/ ReadManifest(a).state = "COMPLETED" /\ ReadManifest(a).persisted

\* A rebuild that ends normally leaves an index that agrees with the files: every
\* artifact indexed, every manifest in its row, on a dropped index and on a surviving one;
\* on one an older build left in contradiction to the files every artifact and a row for
\* every manifest (rebuild_index_from_artifacts).
RebuildAgrees ==
    [][RebuildDone =>
         /\ revRow' = revArt
         /\ runRow' = {a \in Attempts : runArt[a] # "none"}
         /\ \A a \in Attempts : ReadManifest(a) # NoRecord =>
              row'[a] # NoRecord /\ (sound => row'[a] = ReadManifest(a))]_vars

\* docs/FAILURE_RECOVERY.md:123 "A failed or cancelled attempt cannot select last-valid":
\* no process answers run.select_last_valid with the run of such an attempt.
FailedNeverLatestValid ==
    \A i \in Instances, a \in LatestValidCandidates :
        Ready(i) => ReadManifest(a).state \notin {"FAILED", "CANCELLED"}

\* docs/native/DW4_CHANGE_RECORD.md:86 "Any runs left in ADMITTED or RUNNING state due to
\* prior process crash/termination are automatically transitioned to INTERRUPTED": no
\* attempt is INTERRUPTED while the process that executes it runs.
OnlyOrphansInterrupted ==
    \A a \in Attempts : ReadManifest(a) # NoRecord /\ ReadManifest(a).state = "INTERRUPTED"
        => owner[a] = Nobody
===============================================================================
