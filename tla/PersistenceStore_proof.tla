------------------------ MODULE PersistenceStore_proof ------------------------
(***************************************************************************)
(* Proofs about PersistenceStore: the store implements AttemptLedger, its  *)
(* index never shows a terminal disposition the JSON lacks, only runs of   *)
(* COMPLETED attempts are candidates for the last-valid selection, and a   *)
(* rebuild that ends leaves an index that agrees with the files.           *)
(***************************************************************************)
EXTENDS PersistenceStore, TLAPS

SameIdentity(x, y) == x # NoRecord /\ y # NoRecord => x.identity = y.identity

(* Whatever an older build left in the index: the files, and who works on them. *)

\* The two files of an attempt do not disagree on its admission identity.
FilesInv == \A a \in Attempts : SameIdentity(manifest[a], legacy[a])

\* What a holder of the write reservation decided stays right for the files until it is
\* done: only the holder writes manifests.
HolderInv ==
    tx.by \in Instances =>
        /\ up[tx.by]
        /\ SameIdentity(manifest[tx.attempt], tx.winner)
        /\ SameIdentity(legacy[tx.attempt], tx.winner)
        /\ tx.phase = "publish" => ~ Stands(ReadManifest(tx.attempt), tx.winner)
        /\ tx.phase = "commit" => ReadManifest(tx.attempt) # NoRecord

\* A job runs, and a result exists, only for an attempt that was recorded.
JobInv ==
    \A a \in Attempts : /\ owner[a] # Nobody => up[owner[a]] /\ ReadManifest(a) # NoRecord
                        /\ runArt[a] # "none" => ReadManifest(a) # NoRecord

\* A run is indexed after its artifact was written, a revision too.
ArtifactInv ==
    /\ revRow \subseteq revArt
    /\ \A a \in runRow : runArt[a] # "none"
    /\ rebuild.busy =>
         /\ \A i \in Instances : ~ up[i]
         /\ \A a \in rebuild.runs : runArt[a] # "none"
         /\ rebuild.revs \subseteq revArt /\ revArt \subseteq revRow \cup rebuild.revs
         /\ \A a \in Attempts : runArt[a] # "none" => a \in runRow \cup rebuild.runs
         /\ \A a \in Attempts : rebuild.attempts[a] \in {NoRecord, ReadManifest(a)}

\* Every indexed run has its attempt's row, unless a rebuild is at work or was cut; what
\* a rebuild has still to do and what it has done make up the manifests.
VouchedInv ==
    /\ ~ rebuild.torn => \A a \in runRow : row[a] # NoRecord
    /\ \A a \in Attempts : owner[a] # Nobody => row[a] # NoRecord
    /\ rebuild.busy => \A a \in Attempts : ReadManifest(a) # NoRecord =>
         row[a] # NoRecord \/ rebuild.attempts[a] # NoRecord

Core == TypeOK /\ FilesInv /\ HolderInv /\ JobInv /\ ArtifactInv /\ VouchedInv

(* An index that does not contradict the files. *)

\* No row disagrees with a file or a pending decision on the admission identity.
RowIdentity ==
    /\ \A a \in Attempts : SameIdentity(manifest[a], row[a]) /\ SameIdentity(legacy[a], row[a])
    /\ tx.by \in Instances => SameIdentity(row[tx.attempt], tx.winner)

\* No row stands against the manifest of its attempt.
NeverAhead ==
    \A a \in Attempts :
        ReadManifest(a) # NoRecord /\ Stands(row[a], ReadManifest(a)) => row[a] = ReadManifest(a)

\* The same of the row that is about to be committed.
Decided ==
    tx.by \in Instances =>
        /\ tx.phase = "publish" /\ ReadManifest(tx.attempt) = NoRecord
             /\ Stands(row[tx.attempt], tx.winner) => tx.winner = row[tx.attempt]
        /\ tx.phase = "commit" /\ Stands(tx.winner, ReadManifest(tx.attempt))
             => tx.winner = ReadManifest(tx.attempt)

\* A row that a rebuild has done holds the manifest.
Rebuilt ==
    rebuild.busy =>
        \A a \in Attempts : rebuild.attempts[a] = ReadManifest(a) \/ row[a] = ReadManifest(a)

RowInv == RowIdentity /\ NeverAhead /\ Decided /\ Rebuilt

IInv == Core /\ (sound => RowInv)
-------------------------------------------------------------------------------
(* Lemmas about the operators *)

\* A manifest read gives a record or nothing.
LEMMA ReadManifestType ==
    ASSUME TypeOK, NEW a \in Attempts
    PROVE  ReadManifest(a) \in MaybeRecord
BY DEF TypeOK, ReadManifest, AttemptWinner

\* The reservation is held by a process only through a proper transaction record.
LEMMA HeldTx ==
    ASSUME TypeOK, tx.by \in Instances
    PROVE  tx \in Tx
BY StoreAssumption DEF TypeOK, NoTx

\* The upsert stores a record, and of the same identity that very record.
LEMMA UpsertStores ==
    ASSUME NEW existing \in MaybeRecord, NEW winner \in Record
    PROVE  /\ Upsert(existing, winner) \in Record
           /\ SameIdentity(existing, winner) => Upsert(existing, winner) = winner
BY NoRecordIsNone DEF Upsert, SameIdentity, MaybeRecord, Record

\* The winner of two records of one identity has that identity.
LEMMA WinnerIdentity ==
    ASSUME NEW x \in MaybeRecord, NEW p \in Record, ~ Conflict(x, p)
    PROVE  /\ AttemptWinner(x, p) \in Record
           /\ SameIdentity(x, AttemptWinner(x, p))
           /\ AttemptWinner(x, p).identity = p.identity
BY NoRecordIsNone DEF AttemptWinner, Stands, Conflict, SameIdentity, MaybeRecord

\* What the files say changes with the files only.
LEMMA FilesStay ==
    ASSUME UNCHANGED <<manifest, legacy>>
    PROVE  /\ \A a : ReadManifest(a)' = ReadManifest(a)
           /\ FilesInv => FilesInv'
           /\ HolderInv /\ UNCHANGED <<tx, up>> => HolderInv'
BY DEF ReadManifest, FilesInv, HolderInv

\* Nobody who does not hold the reservation has decided anything.
LEMMA NobodyHolds ==
    ASSUME tx' = NoTx
    PROVE  HolderInv' /\ Decided' /\ (tx.by \in Instances => SameIdentity(row[tx.attempt], tx.winner))'
BY StoreAssumption DEF HolderInv, Decided, NoTx

-------------------------------------------------------------------------------
(* The files and who works on them: Core holds initially and is kept by every action *)

LEMMA InitCore == Init => Core
<1> SUFFICES ASSUME Init PROVE Core
  OBVIOUS
<1>1. sound \in BOOLEAN
  BY DEF Init, Agree
<1>2. TypeOK
  BY <1>1, StoreAssumption DEF Init, TypeOK, MaybeRecord, NothingToClose, Idle
<1>3. FilesInv /\ JobInv
  BY DEF Init, FilesInv, SameIdentity, JobInv
<1>4. HolderInv
  BY StoreAssumption DEF Init, HolderInv, NoTx
<1>5. ArtifactInv /\ VouchedInv
  BY DEF Init, ArtifactInv, VouchedInv, Idle
<1> QED
  BY <1>2, <1>3, <1>4, <1>5 DEF Core

\* What a reservation decides.
LEMMA Reserved ==
    ASSUME Core, NEW i \in Instances, NEW a \in Attempts, NEW p \in Record, Reserve(i, a, p)
    PROVE  LET base == IF ReadManifest(a) # NoRecord THEN ReadManifest(a) ELSE row[a]
               w == AttemptWinner(base, p)
           IN  /\ tx' = [by |-> i, attempt |-> a, winner |-> w, proposed |-> p.state,
                         phase |-> IF ReadManifest(a) = w THEN "commit" ELSE "publish"]
               /\ UNCHANGED <<indexVars, fileVars, up, toClose, owner, rebuild, sound>> /\ up[i]
               /\ base \in MaybeRecord /\ w \in Record /\ w # NoRecord /\ SameIdentity(base, w)
<1> DEFINE base == IF ReadManifest(a) # NoRecord THEN ReadManifest(a) ELSE row[a]
           w == AttemptWinner(base, p)
<1>1. base \in MaybeRecord /\ ~ Conflict(base, p)
  BY ReadManifestType DEF Reserve, Core, TypeOK
<1>2. w \in Record /\ SameIdentity(base, w)
  BY <1>1, WinnerIdentity
<1>3. w # NoRecord
  BY <1>2, NoRecordIsNone
<1> QED
  BY <1>1, <1>2, <1>3 DEF Reserve

LEMMA ReserveCore ==
    ASSUME Core, NEW i \in Instances, NEW a \in Attempts, NEW p \in Record, Reserve(i, a, p)
    PROVE  Core'
<1> DEFINE base == IF ReadManifest(a) # NoRecord THEN ReadManifest(a) ELSE row[a]
           w == AttemptWinner(base, p)
<1>1. /\ tx' = [by |-> i, attempt |-> a, winner |-> w, proposed |-> p.state,
                phase |-> IF ReadManifest(a) = w THEN "commit" ELSE "publish"]
      /\ UNCHANGED <<indexVars, fileVars, up, toClose, owner, rebuild, sound>> /\ up[i]
      /\ w \in Record /\ w # NoRecord /\ SameIdentity(base, w)
  BY Reserved
<1>2. TypeOK'
  BY <1>1 DEF Core, TypeOK, Tx, Record, States, indexVars, fileVars
<1>3. (\A b : ReadManifest(b)' = ReadManifest(b)) /\ FilesInv'
  BY <1>1, FilesStay DEF Core, fileVars
<1>4. HolderInv'
  <2>1. SameIdentity(manifest[a], w) /\ SameIdentity(legacy[a], w)
    BY <1>1, NoRecordIsNone DEF Core, FilesInv, SameIdentity, ReadManifest, AttemptWinner,
       Stands, TypeOK, MaybeRecord
  <2>2. ReadManifest(a) # w => ~ Stands(ReadManifest(a), w)
    BY <1>1 DEF AttemptWinner, Stands
  <2> QED
    BY <1>1, <1>3, <2>1, <2>2 DEF HolderInv, fileVars
<1>5. JobInv' /\ ArtifactInv' /\ VouchedInv'
  BY <1>1, <1>3 DEF Core, JobInv, ArtifactInv, VouchedInv, indexVars, fileVars
<1> QED
  BY <1>2, <1>3, <1>4, <1>5 DEF Core

\* What PublishManifest makes of the files, used for the invariant and the refinement.
LEMMA PublishedManifest ==
    ASSUME Core, NEW i \in Instances, PublishManifest(i)
    PROVE  /\ tx \in Tx /\ tx.phase = "publish"
           /\ \A b \in Attempts \ {tx.attempt} : ReadManifest(b)' = ReadManifest(b)
           /\ ReadManifest(tx.attempt)' # NoRecord
           /\ SameIdentity(ReadManifest(tx.attempt), tx.winner)
           /\ ~ Stands(ReadManifest(tx.attempt), tx.winner)
           /\ ReadManifest(tx.attempt)' \in {tx.winner, ReadManifest(tx.attempt)}
<1> DEFINE a == tx.attempt
           w == tx.winner
<1>1. /\ tx \in Tx /\ tx.phase = "publish" /\ tx.by = i
      /\ manifest' = [manifest EXCEPT ![a] = w] /\ legacy' = legacy
      /\ tx'.attempt = a
    BY HeldTx DEF PublishManifest, Core, Tx
<1>2. /\ a \in Attempts /\ w \in Record /\ w # NoRecord
      /\ manifest[a] \in MaybeRecord /\ legacy[a] \in MaybeRecord
    BY <1>1, NoRecordIsNone DEF Tx, Core, TypeOK
<1>3. manifest'[a] = w /\ \A b \in Attempts \ {a} : manifest'[b] = manifest[b]
    BY <1>1, <1>2 DEF Core, TypeOK
<1>4. /\ ~ Stands(ReadManifest(a), w)
      /\ SameIdentity(manifest[a], w) /\ SameIdentity(legacy[a], w)
    BY <1>1 DEF Core, HolderInv
<1>5. \A b \in Attempts \ {a} : ReadManifest(b)' = ReadManifest(b)
    BY <1>1, <1>3 DEF ReadManifest
<1>6. SameIdentity(ReadManifest(a), w)
    BY <1>4 DEF ReadManifest, AttemptWinner, SameIdentity
<1>7. ReadManifest(a)' = IF legacy[a] = NoRecord THEN w ELSE AttemptWinner(w, legacy[a])
    BY <1>1, <1>3 DEF ReadManifest
<1>8. ReadManifest(a)' # NoRecord
    BY <1>2, <1>7 DEF AttemptWinner
<1>9. ReadManifest(a)' \in {w, ReadManifest(a)}
  <2>1. CASE legacy[a] = NoRecord
    BY <2>1, <1>7
  <2>2. CASE legacy[a] # NoRecord /\ Stands(w, legacy[a])
    BY <2>2, <1>7 DEF AttemptWinner
  <2>3. CASE legacy[a] # NoRecord /\ ~ Stands(w, legacy[a])
    <3>1. ReadManifest(a)' = legacy[a] /\ w.state \notin Terminal
      BY <2>3, <1>2, <1>7 DEF AttemptWinner, Stands
    <3>2. CASE ~ Stands(manifest[a], legacy[a])
      BY <2>3, <3>1, <3>2 DEF ReadManifest, AttemptWinner
    <3>3. CASE Stands(manifest[a], legacy[a])
      <4>1. ReadManifest(a) = manifest[a] /\ manifest[a] # NoRecord
        BY <2>3, <3>3 DEF ReadManifest, AttemptWinner, Stands
      <4>2. manifest[a].state = "RUNNING" /\ legacy[a].state = "ADMITTED"
        BY <4>1, <3>3, <1>4 DEF Stands
      <4>3. w.state = "RUNNING"
        BY <4>1, <4>2, <1>4, <1>2, <3>1 DEF Stands, Record, States
      <4> QED
        BY <4>2, <4>3, <2>3, <1>2 DEF Stands
    <3> QED
      BY <3>2, <3>3
  <2> QED
    BY <2>1, <2>2, <2>3
<1> QED
    BY <1>1, <1>4, <1>5, <1>6, <1>8, <1>9

LEMMA PublishCore ==
    ASSUME Core, NEW i \in Instances, PublishManifest(i)
    PROVE  Core'
<1> DEFINE a == tx.attempt
           w == tx.winner
<1> USE DEF Core
<1>1. /\ tx \in Tx /\ tx.by = i /\ up[i] /\ a \in Attempts /\ w \in Record /\ w # NoRecord
    BY HeldTx, NoRecordIsNone DEF PublishManifest, HolderInv, Tx
<1>2. /\ manifest' = [manifest EXCEPT ![a] = w]
      /\ tx' = [tx EXCEPT !.phase = "commit"]
      /\ UNCHANGED <<row, runRow, revRow, legacy, runArt, revArt, up, toClose, owner, rebuild, sound>>
    BY DEF PublishManifest, indexVars
<1>3. TypeOK'
    BY <1>1, <1>2 DEF TypeOK, Tx, MaybeRecord
<1>4. /\ \A b \in Attempts \ {a} : ReadManifest(b)' = ReadManifest(b) /\ manifest'[b] = manifest[b]
      /\ ReadManifest(a)' # NoRecord /\ manifest'[a] = w
    BY PublishedManifest, <1>1, <1>2 DEF TypeOK
<1>5. SameIdentity(w, legacy[a]) /\ SameIdentity(legacy[a], w) /\ SameIdentity(w, w)
    BY <1>1 DEF HolderInv, SameIdentity
<1>6. FilesInv'
    BY <1>2, <1>4, <1>5 DEF FilesInv
<1>7. HolderInv'
  <2>1. tx'.by = i /\ tx'.phase = "commit" /\ tx'.attempt = a /\ tx'.winner = w
    BY <1>1, <1>2 DEF Tx
  <2> QED
    BY <1>1, <1>2, <1>4, <1>5, <2>1 DEF HolderInv
<1>8. JobInv'
    BY <1>2, <1>4 DEF JobInv
<1>9. ArtifactInv' /\ VouchedInv'
    BY <1>1, <1>2 DEF ArtifactInv, VouchedInv
<1> QED
    BY <1>3, <1>6, <1>7, <1>8, <1>9

LEMMA CommitCore ==
    ASSUME Core, NEW i \in Instances, CommitIndex(i)
    PROVE  Core'
<1> DEFINE a == tx.attempt
           w == tx.winner
<1> USE DEF Core
<1>1. /\ tx \in Tx /\ tx.by = i /\ up[i] /\ tx.phase = "commit"
      /\ a \in Attempts /\ w \in Record /\ w # NoRecord
    BY HeldTx, NoRecordIsNone DEF CommitIndex, HolderInv, Tx
<1>2. /\ UNCHANGED <<runRow, revRow, manifest, legacy, runArt, revArt, up, rebuild, sound>>
      /\ tx' = NoTx /\ owner' = OwnerAfter(i)
      /\ toClose' = [toClose EXCEPT ![i][a] = NoRecord]
      /\ row' = [row EXCEPT ![a] = Upsert(row[a], w)]
    BY DEF CommitIndex, fileVars
<1>3. Upsert(row[a], w) \in Record /\ Upsert(row[a], w) # NoRecord
    BY <1>1, UpsertStores, NoRecordIsNone DEF TypeOK
<1>4. /\ \A b \in Attempts \ {a} : row'[b] = row[b]
      /\ row'[a] # NoRecord
    BY <1>1, <1>2, <1>3 DEF TypeOK
<1>5. (\A b : ReadManifest(b)' = ReadManifest(b)) /\ FilesInv'
    BY <1>2, FilesStay
<1>6. \A b \in Attempts : owner'[b] = owner[b] \/ owner'[b] = Nobody \/ (b = a /\ owner'[b] = i)
    BY <1>1, <1>2 DEF OwnerAfter, TypeOK
<1>7. owner' \in [Attempts -> Instances \cup {Nobody}]
    BY <1>1, <1>2 DEF OwnerAfter, TypeOK
<1>8. TypeOK'
    BY <1>1, <1>2, <1>3, <1>7 DEF TypeOK, MaybeRecord
<1>9. HolderInv'
    BY <1>2, NobodyHolds
<1>10. JobInv' /\ ArtifactInv'
  <2>1. ReadManifest(a) # NoRecord
    BY <1>1 DEF HolderInv
  <2> QED
    BY <1>1, <1>2, <1>5, <1>6, <2>1 DEF JobInv, ArtifactInv
<1>11. VouchedInv'
    BY <1>1, <1>2, <1>4, <1>5, <1>6 DEF VouchedInv, ArtifactInv, TypeOK
<1> QED
    BY <1>5, <1>8, <1>9, <1>10, <1>11

LEMMA RecordFailsCore ==
    ASSUME Core, NEW i \in Instances, RecordFails(i)
    PROVE  Core'
<1> USE DEF Core
<1>1. /\ UNCHANGED <<indexVars, fileVars, up, owner, rebuild, sound>>
      /\ tx' = NoTx /\ toClose' = [toClose EXCEPT ![i] = NothingToClose]
    BY DEF RecordFails
<1>2. TypeOK'
    BY <1>1 DEF TypeOK, indexVars, fileVars, NothingToClose, MaybeRecord
<1>3. (\A b : ReadManifest(b)' = ReadManifest(b)) /\ FilesInv' /\ HolderInv'
    BY <1>1, FilesStay, NobodyHolds DEF fileVars
<1>4. JobInv' /\ ArtifactInv' /\ VouchedInv'
    BY <1>1, <1>3 DEF JobInv, ArtifactInv, VouchedInv, indexVars, fileVars
<1> QED
    BY <1>2, <1>3, <1>4

LEMMA SaveCore ==
    ASSUME Core, NEW i \in Instances, NEW indexed \in BOOLEAN,
           \/ \E r \in Revisions : SaveRevision(i, r, indexed)
           \/ \E a \in Attempts, v \in {"accepted", "rejected"} : SaveRun(i, a, v, indexed)
    PROVE  Core'
<1> USE DEF Core
<1>1. /\ UNCHANGED <<row, manifest, legacy, tx, up, toClose, owner, rebuild, sound>> /\ up[i]
    BY DEF SaveRevision, SaveRun, Ready, procVars
<1>2. (\A b : ReadManifest(b)' = ReadManifest(b)) /\ FilesInv' /\ HolderInv'
    BY <1>1, FilesStay
<1>3. ~ rebuild.busy
    BY <1>1 DEF ArtifactInv
<1>4. CASE \E r \in Revisions : SaveRevision(i, r, indexed)
  <2> PICK r \in Revisions : SaveRevision(i, r, indexed)
    BY <1>4
  <2>1. /\ UNCHANGED <<runRow, runArt>> /\ revArt' = revArt \cup {r}
        /\ revRow' \in {revRow, revRow \cup {r}}
    BY DEF SaveRevision
  <2>2. TypeOK'
    BY <1>1, <2>1 DEF TypeOK
  <2>3. JobInv' /\ ArtifactInv' /\ VouchedInv'
    BY <1>1, <1>2, <1>3, <2>1 DEF JobInv, ArtifactInv, VouchedInv
  <2> QED
    BY <1>2, <2>2, <2>3
<1>5. CASE \E a \in Attempts, v \in {"accepted", "rejected"} : SaveRun(i, a, v, indexed)
  <2> PICK a \in Attempts, v \in {"accepted", "rejected"} : SaveRun(i, a, v, indexed)
    BY <1>5
  <2>1. /\ UNCHANGED <<revRow, revArt>> /\ runArt' = [runArt EXCEPT ![a] = v]
        /\ runRow' \subseteq runRow \cup {a} /\ owner[a] = i
    BY DEF SaveRun
  <2>2. row[a] # NoRecord /\ ReadManifest(a) # NoRecord
    BY <2>1, StoreAssumption DEF JobInv, VouchedInv
  <2>3. TypeOK'
    BY <1>1, <2>1 DEF TypeOK
  <2>4. JobInv' /\ ArtifactInv'
    BY <1>1, <1>2, <1>3, <2>1, <2>2 DEF JobInv, ArtifactInv, TypeOK
  <2>5. VouchedInv'
    BY <1>1, <1>3, <2>1, <2>2 DEF VouchedInv
  <2> QED
    BY <1>2, <2>3, <2>4, <2>5
<1> QED
    BY <1>4, <1>5

LEMMA StartDieCore ==
    ASSUME Core, NEW i \in Instances, Start(i) \/ Die(i)
    PROVE  Core'
<1> USE DEF Core
<1>1. UNCHANGED <<row, runRow, revRow, manifest, legacy, runArt, revArt, rebuild, sound>>
    BY DEF Start, Die, indexVars, fileVars
<1>2. (\A b : ReadManifest(b)' = ReadManifest(b)) /\ FilesInv'
    BY <1>1, FilesStay
<1>3. CASE Start(i)
  <2>1. /\ up' = [up EXCEPT ![i] = TRUE] /\ UNCHANGED <<tx, owner>> /\ ~ rebuild.busy
    BY <1>3 DEF Start
  <2>2. \A a \in Attempts : GetAttempt(a) \in MaybeRecord
    BY ReadManifestType DEF GetAttempt, TypeOK
  <2>3. toClose' \in [Instances -> [Attempts -> MaybeRecord]]
    BY <1>3, <2>2 DEF Start, TypeOK, MaybeRecord
  <2>4. TypeOK'
    BY <1>1, <2>1, <2>3 DEF TypeOK
  <2>5. \A j \in Instances : up[j] => up'[j]
    BY <2>1 DEF TypeOK
  <2>6. HolderInv'
    BY <1>1, <1>2, <2>1, <2>5 DEF HolderInv
  <2>7. JobInv' /\ ArtifactInv' /\ VouchedInv'
    BY <1>1, <1>2, <2>1, <2>5, StoreAssumption DEF JobInv, ArtifactInv, VouchedInv, TypeOK
  <2> QED
    BY <1>2, <2>4, <2>6, <2>7
<1>4. CASE Die(i)
  <2>1. /\ up[i] /\ up' = [up EXCEPT ![i] = FALSE]
        /\ tx' = IF tx.by = i THEN NoTx ELSE tx
        /\ toClose' = [toClose EXCEPT ![i] = NothingToClose]
        /\ owner' = [a \in Attempts |-> IF owner[a] = i THEN Nobody ELSE owner[a]]
    BY <1>4 DEF Die
  <2>2. TypeOK'
    BY <1>1, <2>1 DEF TypeOK, NothingToClose, MaybeRecord
  <2>3. \A j \in Instances \ {i} : up'[j] = up[j]
    BY <2>1 DEF TypeOK
  <2>4. HolderInv'
    <3>1. CASE tx.by = i
      BY <3>1, <2>1, NobodyHolds
    <3>2. CASE tx.by # i
      BY <3>2, <1>1, <1>2, <2>1, <2>3 DEF HolderInv
    <3> QED
      BY <3>1, <3>2
  <2>5. JobInv'
    BY <1>1, <1>2, <2>1, <2>3, StoreAssumption DEF JobInv, TypeOK
  <2>6. ArtifactInv' /\ VouchedInv'
    BY <1>1, <1>2, <2>1, StoreAssumption DEF ArtifactInv, VouchedInv
  <2> QED
    BY <1>2, <2>2, <2>4, <2>5, <2>6
<1> QED
    BY <1>3, <1>4

\* While every process is down nobody holds the reservation and nobody executes.
LEMMA DownQuiet ==
    ASSUME Core, \A i \in Instances : ~ up[i]
    PROVE  tx.by \notin Instances /\ \A a \in Attempts : owner[a] = Nobody
BY DEF Core, HolderInv, JobInv, TypeOK

\* What indexing an attempt without a publisher makes of its row.
LEMMA IndexedAttempt ==
    ASSUME Core, NEW a \in Attempts, RebuildAttempt(a)
    PROVE  LET item == rebuild.attempts[a]
               w == AttemptWinner(row[a], item)
           IN  /\ item = ReadManifest(a) /\ item \in Record /\ row[a] \in MaybeRecord
               /\ ~ Conflict(row[a], item) /\ w \in Record /\ SameIdentity(row[a], w)
               /\ w.identity = item.identity /\ w # NoRecord
               /\ row' = [row EXCEPT ![a] = w]
               /\ row'[a] = w /\ \A b \in Attempts \ {a} : row'[b] = row[b]
<1> DEFINE item == rebuild.attempts[a]
           w == AttemptWinner(row[a], item)
<1>1. /\ rebuild.busy /\ item # NoRecord /\ ~ Conflict(row[a], item)
      /\ row' = [row EXCEPT ![a] = Upsert(row[a], w)]
    BY DEF RebuildAttempt
<1>2. /\ row[a] \in MaybeRecord /\ item \in Record /\ item = ReadManifest(a)
    BY <1>1 DEF Core, TypeOK, ArtifactInv, MaybeRecord
<1>3. w \in Record /\ w # NoRecord /\ SameIdentity(row[a], w) /\ w.identity = item.identity
    BY <1>1, <1>2, WinnerIdentity, NoRecordIsNone
<1>4. row' = [row EXCEPT ![a] = w]
    BY <1>1, <1>2, <1>3, UpsertStores
<1>5. row'[a] = w /\ \A b \in Attempts \ {a} : row'[b] = row[b]
    BY <1>4 DEF Core, TypeOK
<1> QED
    BY <1>1, <1>2, <1>3, <1>4, <1>5

LEMMA RebuildAttemptCore ==
    ASSUME Core, NEW a \in Attempts, RebuildAttempt(a)
    PROVE  Core'
<1> DEFINE w == AttemptWinner(row[a], rebuild.attempts[a])
<1> USE DEF Core
<1>1. /\ rebuild.busy /\ rebuild' = [rebuild EXCEPT !.attempts[a] = NoRecord]
      /\ UNCHANGED <<runRow, revRow, manifest, legacy, runArt, revArt, tx, up, toClose, owner, sound>>
    BY DEF RebuildAttempt, fileVars, procVars
<1>2. /\ w \in Record /\ w # NoRecord /\ row' = [row EXCEPT ![a] = w]
      /\ row'[a] = w /\ \A b \in Attempts \ {a} : row'[b] = row[b]
    BY IndexedAttempt
<1> HIDE DEF w
<1>3. (\A b : ReadManifest(b)' = ReadManifest(b)) /\ FilesInv' /\ HolderInv'
    BY <1>1, FilesStay
<1>4. /\ rebuild'.busy /\ rebuild'.torn = rebuild.torn /\ rebuild'.revs = rebuild.revs
      /\ rebuild'.runs = rebuild.runs
      /\ rebuild'.attempts = [rebuild.attempts EXCEPT ![a] = NoRecord]
      /\ \A b \in Attempts : rebuild'.attempts[b] = IF b = a THEN NoRecord ELSE rebuild.attempts[b]
    BY <1>1 DEF TypeOK
<1>5. TypeOK'
  <2>1. row' \in [Attempts -> MaybeRecord]
    BY <1>2 DEF TypeOK, MaybeRecord
  <2>2. rebuild' \in [busy : BOOLEAN, torn : BOOLEAN, revs : SUBSET Revisions,
                      runs : SUBSET Attempts, attempts : [Attempts -> MaybeRecord]]
    BY <1>1 DEF TypeOK, MaybeRecord
  <2> QED
    BY <1>1, <2>1, <2>2 DEF TypeOK
<1>6. JobInv' /\ ArtifactInv'
    BY <1>1, <1>3, <1>4 DEF JobInv, ArtifactInv
<1>7. VouchedInv'
    BY <1>1, <1>2, <1>3, <1>4 DEF VouchedInv, TypeOK
<1> QED
    BY <1>3, <1>5, <1>6, <1>7

LEMMA LoseIndexCore ==
    ASSUME Core, LoseIndex
    PROVE  Core' /\ RowInv'
<1> USE DEF Core
<1>1. /\ AllDown /\ row' = [a \in Attempts |-> NoRecord] /\ runRow' = {} /\ revRow' = {}
      /\ rebuild' = Idle(FALSE) /\ sound' = TRUE
      /\ UNCHANGED <<manifest, legacy, runArt, revArt, tx, up, toClose, owner>>
    BY DEF LoseIndex, fileVars, procVars
<1>2. /\ tx.by \notin Instances /\ \A a \in Attempts : owner[a] = Nobody
    BY <1>1, DownQuiet DEF AllDown
<1>3. (\A b : ReadManifest(b)' = ReadManifest(b)) /\ FilesInv' /\ HolderInv'
    BY <1>1, FilesStay
<1>4. TypeOK'
    BY <1>1 DEF TypeOK, Idle, NothingToClose, MaybeRecord
<1>5. JobInv' /\ ArtifactInv' /\ VouchedInv'
    BY <1>1, <1>2, <1>3 DEF JobInv, ArtifactInv, VouchedInv, Idle
<1>6. RowInv'
    BY <1>1, <1>2 DEF RowInv, RowIdentity, SameIdentity, NeverAhead, Decided, Rebuilt, Stands, Idle
<1> QED
    BY <1>3, <1>4, <1>5, <1>6

\* The steps of a rebuild other than those that write attempt rows.
LEMMA RebuildOtherCore ==
    ASSUME Core,
           \/ StartRebuild \/ RebuildDone \/ RebuildStops
           \/ \E r \in Revisions : RebuildRevision(r)
           \/ \E a \in Attempts : RebuildRun(a)
    PROVE  Core'
<1> USE DEF Core
<1>1. UNCHANGED <<row, manifest, legacy, runArt, revArt, tx, up, toClose, owner, sound>>
    BY DEF StartRebuild, RebuildDone, RebuildStops, RebuildRevision, RebuildRun, indexVars,
       fileVars, procVars
<1>2. (\A b : ReadManifest(b)' = ReadManifest(b)) /\ FilesInv' /\ HolderInv'
    BY <1>1, FilesStay
<1>3. JobInv'
    BY <1>1, <1>2 DEF JobInv
<1>4. CASE StartRebuild
  <2>1. /\ \A i \in Instances : ~ up[i] /\ UNCHANGED <<runRow, revRow>>
        /\ rebuild' = [busy |-> TRUE, torn |-> rebuild.torn, revs |-> revArt,
                       runs |-> {a \in Attempts : runArt[a] # "none"},
                       attempts |-> [a \in Attempts |-> ReadManifest(a)]]
    BY <1>4 DEF StartRebuild, AllDown, indexVars
  <2>2. [a \in Attempts |-> ReadManifest(a)] \in [Attempts -> MaybeRecord]
    BY ReadManifestType
  <2>3. /\ rebuild.torn \in BOOLEAN /\ revArt \in SUBSET Revisions
        /\ {a \in Attempts : runArt[a] # "none"} \in SUBSET Attempts
    BY DEF TypeOK
  <2>4. rebuild' \in [busy : BOOLEAN, torn : BOOLEAN, revs : SUBSET Revisions,
                     runs : SUBSET Attempts, attempts : [Attempts -> MaybeRecord]]
    BY <2>1, <2>2, <2>3
  <2>5. (\A i \in Instances : ~ up[i]) /\ UNCHANGED <<runRow, revRow>>
    BY <1>4 DEF StartRebuild, AllDown, indexVars
  <2>6. TypeOK'
    BY <1>1, <2>4, <2>5 DEF TypeOK
  <2>7. /\ rebuild'.torn = rebuild.torn /\ rebuild'.busy /\ rebuild'.revs = revArt
        /\ rebuild'.runs = {a \in Attempts : runArt[a] # "none"}
        /\ \A a \in Attempts : rebuild'.attempts[a] = ReadManifest(a)
    BY <2>1
  <2>8. ArtifactInv' /\ VouchedInv'
    BY <1>1, <1>2, <2>5, <2>7 DEF ArtifactInv, VouchedInv
  <2> QED
    BY <1>2, <1>3, <2>6, <2>8
<1>5. CASE RebuildDone
  <2>1. /\ rebuild.busy /\ rebuild.attempts = [a \in Attempts |-> NoRecord]
        /\ rebuild' = Idle(FALSE) /\ UNCHANGED <<runRow, revRow>>
    BY <1>5 DEF RebuildDone, NothingToClose, indexVars
  <2>2. TypeOK'
    BY <1>1, <2>1 DEF TypeOK, Idle, NothingToClose, MaybeRecord
  <2>3. \A a \in runRow : row[a] # NoRecord
    BY <2>1 DEF VouchedInv, ArtifactInv, JobInv, TypeOK
  <2>4. ArtifactInv' /\ VouchedInv'
    BY <1>1, <1>2, <2>1, <2>3 DEF ArtifactInv, VouchedInv, Idle
  <2> QED
    BY <1>2, <1>3, <2>2, <2>4
<1>6. CASE RebuildStops
  <2>1. rebuild' = Idle(rebuild.torn) /\ UNCHANGED <<runRow, revRow>>
    BY <1>6 DEF RebuildStops, indexVars
  <2>2. TypeOK'
    BY <1>1, <2>1 DEF TypeOK, Idle, NothingToClose, MaybeRecord
  <2>3. ArtifactInv' /\ VouchedInv'
    BY <1>1, <1>2, <2>1 DEF ArtifactInv, VouchedInv, Idle
  <2> QED
    BY <1>2, <1>3, <2>2, <2>3
<1>7. CASE \E r \in Revisions : RebuildRevision(r)
  <2> PICK r \in Revisions : RebuildRevision(r)
    BY <1>7
  <2>1. /\ rebuild.busy /\ r \in rebuild.revs /\ runRow' = runRow /\ revRow' = revRow \cup {r}
        /\ rebuild' = [rebuild EXCEPT !.revs = @ \ {r}]
    BY DEF RebuildRevision
  <2>2. rebuild.revs \ {r} \subseteq Revisions
    BY DEF TypeOK
  <2>3. rebuild' \in [busy : BOOLEAN, torn : BOOLEAN, revs : SUBSET Revisions,
                     runs : SUBSET Attempts, attempts : [Attempts -> MaybeRecord]]
    BY <2>1, <2>2 DEF TypeOK
  <2>4. TypeOK'
    BY <1>1, <2>1, <2>3 DEF TypeOK
  <2>5. /\ rebuild'.torn = rebuild.torn /\ rebuild'.busy = rebuild.busy
        /\ rebuild'.runs = rebuild.runs /\ rebuild'.attempts = rebuild.attempts
        /\ rebuild'.revs = rebuild.revs \ {r}
    BY <2>1 DEF TypeOK
  <2>6. ArtifactInv' /\ VouchedInv'
    BY <1>1, <1>2, <2>1, <2>5 DEF ArtifactInv, VouchedInv
  <2> QED
    BY <1>2, <1>3, <2>4, <2>6
<1>8. CASE \E a \in Attempts : RebuildRun(a)
  <2> PICK a \in Attempts : RebuildRun(a)
    BY <1>8
  <2>1. /\ rebuild.busy /\ a \in rebuild.runs /\ runRow' = runRow \cup {a} /\ revRow' = revRow
        /\ rebuild' = [rebuild EXCEPT !.runs = @ \ {a}, !.torn = TRUE]
    BY DEF RebuildRun
  <2>2. rebuild' \in [busy : BOOLEAN, torn : BOOLEAN, revs : SUBSET Revisions,
                     runs : SUBSET Attempts, attempts : [Attempts -> MaybeRecord]]
    <3>1. rebuild.runs \ {a} \subseteq Attempts
      BY DEF TypeOK
    <3> QED
      BY <2>1, <3>1 DEF TypeOK
  <2>3. TypeOK'
    BY <1>1, <2>1, <2>2 DEF TypeOK
  <2>4. /\ rebuild'.torn /\ rebuild'.busy /\ rebuild'.runs = rebuild.runs \ {a}
        /\ rebuild'.attempts = rebuild.attempts /\ rebuild'.revs = rebuild.revs
    BY <2>1 DEF TypeOK
  <2>5. ArtifactInv' /\ VouchedInv'
    BY <1>1, <1>2, <2>1, <2>4 DEF ArtifactInv, VouchedInv
  <2> QED
    BY <1>2, <1>3, <2>3, <2>5
<1> QED
    BY <1>4, <1>5, <1>6, <1>7, <1>8

-------------------------------------------------------------------------------
(* An index that does not contradict the files: RowInv is kept by every action *)

LEMMA InitRow == Init /\ sound => RowInv
<1> SUFFICES ASSUME Init, Agree PROVE RowInv
  BY DEF Init
<1>1. \A a \in Attempts : ReadManifest(a) = legacy[a]
  BY DEF Init, ReadManifest, AttemptWinner, Stands
<1>2. RowIdentity /\ Decided
  BY StoreAssumption DEF Init, Agree, RowIdentity, SameIdentity, Decided, NoTx
<1>3. NeverAhead /\ Rebuilt
  BY <1>1 DEF Init, Agree, NeverAhead, Stands, Rebuilt, Idle
<1> QED
  BY <1>2, <1>3 DEF RowInv

LEMMA ReserveRow ==
    ASSUME Core, RowInv, NEW i \in Instances, NEW a \in Attempts, NEW p \in Record, Reserve(i, a, p)
    PROVE  RowInv'
<1> DEFINE base == IF ReadManifest(a) # NoRecord THEN ReadManifest(a) ELSE row[a]
           w == AttemptWinner(base, p)
<1>1. /\ tx' = [by |-> i, attempt |-> a, winner |-> w, proposed |-> p.state,
                phase |-> IF ReadManifest(a) = w THEN "commit" ELSE "publish"]
      /\ UNCHANGED <<indexVars, fileVars, up, toClose, owner, rebuild, sound>>
      /\ w \in Record /\ w # NoRecord /\ SameIdentity(base, w)
  BY Reserved
<1>2. \A b : ReadManifest(b)' = ReadManifest(b)
  BY <1>1, FilesStay DEF fileVars
<1>3. SameIdentity(row[a], w)
  BY <1>1, NoRecordIsNone DEF RowInv, RowIdentity, SameIdentity, ReadManifest, AttemptWinner,
     Stands, Core, TypeOK, MaybeRecord
<1>4. RowIdentity'
  BY <1>1, <1>3 DEF RowInv, RowIdentity, indexVars, fileVars
<1>5. Stands(row[a], w) /\ ReadManifest(a) = NoRecord => w = row[a]
  BY DEF AttemptWinner
<1>6. Decided'
  BY <1>1, <1>2, <1>5 DEF Decided, indexVars
<1>7. NeverAhead' /\ Rebuilt'
  BY <1>1, <1>2 DEF RowInv, NeverAhead, Rebuilt, indexVars
<1> QED
  BY <1>4, <1>6, <1>7 DEF RowInv

LEMMA PublishRow ==
    ASSUME Core, RowInv, NEW i \in Instances, PublishManifest(i)
    PROVE  RowInv'
<1> DEFINE a == tx.attempt
           w == tx.winner
<1>1. /\ tx \in Tx /\ tx.by = i /\ up[i] /\ a \in Attempts /\ w \in Record /\ w # NoRecord
      /\ tx.phase = "publish"
  BY HeldTx, NoRecordIsNone DEF PublishManifest, HolderInv, Tx, Core
<1>2. /\ manifest' = [manifest EXCEPT ![a] = w] /\ tx' = [tx EXCEPT !.phase = "commit"]
      /\ UNCHANGED <<row, runRow, revRow, legacy, runArt, revArt, rebuild>>
  BY DEF PublishManifest, indexVars
<1>3. /\ \A b \in Attempts \ {a} : ReadManifest(b)' = ReadManifest(b)
      /\ ~ Stands(ReadManifest(a), w) /\ ReadManifest(a)' \in {w, ReadManifest(a)}
      /\ ReadManifest(a)' # NoRecord
  BY PublishedManifest
<1>4. Stands(row[a], ReadManifest(a)') => row[a] = ReadManifest(a)'
  <2>1. CASE ReadManifest(a)' = ReadManifest(a)
    BY <1>1, <1>3, <2>1 DEF RowInv, NeverAhead
  <2>2. CASE ReadManifest(a) = NoRecord
    BY <1>1, <1>3, <2>2 DEF RowInv, Decided
  <2>3. CASE ReadManifest(a) # NoRecord /\ ReadManifest(a)' = w
    <3>1. Stands(row[a], ReadManifest(a)) => row[a] = ReadManifest(a)
      BY <1>1, <2>3 DEF RowInv, NeverAhead
    <3>2. ReadManifest(a) \in Record
      BY <1>1, <2>3, ReadManifestType DEF Core, MaybeRecord
    <3> QED
      BY <1>1, <1>3, <2>3, <3>1, <3>2 DEF Stands, Record, States
  <2> QED
    BY <1>3, <2>1, <2>2, <2>3
<1>5. NeverAhead'
  BY <1>2, <1>3, <1>4 DEF RowInv, NeverAhead
<1>6. /\ tx'.by = i /\ tx'.phase = "commit" /\ tx'.attempt = a /\ tx'.winner = w
      /\ manifest'[a] = w /\ \A b \in Attempts \ {a} : manifest'[b] = manifest[b]
  BY <1>1, <1>2 DEF Tx, Core, TypeOK
<1>7. RowIdentity'
  <2>1. SameIdentity(w, row[a]) /\ SameIdentity(row[a], w)
    BY <1>1 DEF RowInv, RowIdentity, SameIdentity
  <2> QED
    BY <1>2, <1>6, <2>1 DEF RowInv, RowIdentity
<1>8. Decided'
  <2>1. Stands(w, ReadManifest(a)') => w = ReadManifest(a)'
    BY <1>2, <1>6 DEF ReadManifest, AttemptWinner
  <2> QED
    BY <1>1, <1>6, <2>1 DEF Decided
<1>9. Rebuilt'
  BY <1>1, <1>2 DEF Rebuilt, Core, ArtifactInv
<1> QED
  BY <1>5, <1>7, <1>8, <1>9 DEF RowInv

LEMMA CommitRow ==
    ASSUME Core, RowInv, NEW i \in Instances, CommitIndex(i)
    PROVE  RowInv'
<1> DEFINE a == tx.attempt
           w == tx.winner
<1>1. /\ tx \in Tx /\ tx.by = i /\ up[i] /\ tx.phase = "commit"
      /\ a \in Attempts /\ w \in Record /\ w # NoRecord
  BY HeldTx, NoRecordIsNone DEF CommitIndex, HolderInv, Tx, Core
<1>2. /\ UNCHANGED <<manifest, legacy, rebuild>> /\ tx' = NoTx
      /\ row' = [row EXCEPT ![a] = Upsert(row[a], w)]
  BY DEF CommitIndex, fileVars
<1>3. row[a] \in MaybeRecord /\ SameIdentity(row[a], w)
  BY <1>1 DEF Core, TypeOK, RowInv, RowIdentity
<1>4. row'[a] = w /\ \A b \in Attempts \ {a} : row'[b] = row[b]
  BY <1>1, <1>2, <1>3, UpsertStores DEF Core, TypeOK
<1>5. \A b : ReadManifest(b)' = ReadManifest(b)
  BY <1>2, FilesStay
<1>6. NeverAhead'
  BY <1>1, <1>4, <1>5 DEF RowInv, NeverAhead, Decided
<1>7. RowIdentity' /\ Decided'
  BY <1>1, <1>2, <1>4, NobodyHolds DEF RowInv, RowIdentity, Core, HolderInv
<1>8. Rebuilt'
  BY <1>1, <1>2 DEF Rebuilt, Core, ArtifactInv
<1> QED
  BY <1>6, <1>7, <1>8 DEF RowInv

LEMMA RebuildAttemptRow ==
    ASSUME Core, RowInv, NEW a \in Attempts, RebuildAttempt(a)
    PROVE  RowInv'
<1> DEFINE item == rebuild.attempts[a]
           w == AttemptWinner(row[a], item)
<1>1. /\ item = ReadManifest(a) /\ item \in Record /\ item # NoRecord
      /\ row'[a] = w /\ \A b \in Attempts \ {a} : row'[b] = row[b]
  BY IndexedAttempt, NoRecordIsNone
<1>2. w = item
  BY <1>1 DEF RowInv, NeverAhead, AttemptWinner
<1> HIDE DEF w
<1>3. /\ rebuild.busy /\ UNCHANGED <<manifest, legacy, tx>>
      /\ rebuild' = [rebuild EXCEPT !.attempts[a] = NoRecord]
  BY DEF RebuildAttempt, fileVars, procVars
<1>4. \A b : ReadManifest(b)' = ReadManifest(b)
  BY <1>3, FilesStay
<1>5. tx.by \notin Instances
  BY <1>3, DownQuiet DEF Core, ArtifactInv
<1>6. RowIdentity'
  <2>1. SameIdentity(manifest[a], item) /\ SameIdentity(legacy[a], item)
    BY <1>1 DEF Core, FilesInv, SameIdentity, ReadManifest, AttemptWinner
  <2> HIDE DEF item
  <2> QED
    BY <1>1, <1>2, <1>3, <1>5, <2>1 DEF RowInv, RowIdentity
<1>7. NeverAhead' /\ Decided'
  BY <1>1, <1>2, <1>3, <1>4, <1>5 DEF RowInv, NeverAhead, Decided
<1>8. Rebuilt'
  <2>1. \A b \in Attempts \ {a} : rebuild'.attempts[b] = rebuild.attempts[b]
    BY <1>3 DEF Core, TypeOK
  <2> QED
    BY <1>1, <1>2, <1>3, <1>4, <2>1 DEF RowInv, Rebuilt
<1> QED
  BY <1>6, <1>7, <1>8 DEF RowInv

\* Every other step leaves the files and the attempts' rows alone.
LEMMA OtherRow ==
    ASSUME Core, RowInv, UNCHANGED <<manifest, legacy, row>>,
           \/ tx' = tx
           \/ tx' = NoTx,
           \/ rebuild' = rebuild
           \/ ~ rebuild'.busy
           \/ \A a \in Attempts : rebuild'.attempts[a] \in {rebuild.attempts[a], ReadManifest(a)} /\ rebuild.busy
           \/ \A a \in Attempts : rebuild'.attempts[a] = ReadManifest(a)
    PROVE  RowInv'
<1>1. \A a : ReadManifest(a)' = ReadManifest(a)
  BY FilesStay
<1>2. RowIdentity' /\ Decided'
  <2>1. CASE tx' = tx
    BY <1>1, <2>1 DEF RowInv, RowIdentity, Decided
  <2>2. CASE tx' = NoTx
    BY <2>2, NobodyHolds DEF RowInv, RowIdentity
  <2> QED
    BY <2>1, <2>2
<1>3. NeverAhead' /\ Rebuilt'
  BY <1>1 DEF RowInv, NeverAhead, Rebuilt
<1> QED
  BY <1>2, <1>3 DEF RowInv

-------------------------------------------------------------------------------
(* The invariant *)

LEMMA InitInv == Init => IInv
BY InitCore, InitRow DEF IInv

LEMMA StutterCore ==
    ASSUME Core, UNCHANGED vars
    PROVE  Core'
<1>1. (\A b : ReadManifest(b)' = ReadManifest(b)) /\ FilesInv' /\ HolderInv'
  BY FilesStay DEF Core, vars, fileVars, procVars
<1> QED
  BY <1>1 DEF Core, TypeOK, JobInv, ArtifactInv, VouchedInv, vars, indexVars, fileVars, procVars

\* Reconciliation proposes a record.
LEMMA Interrupted ==
    ASSUME Core, NEW i \in Instances, NEW a \in Attempts, ReconcileNext(i, a)
    PROVE  \E p \in Record : Reserve(i, a, p)
<1> DEFINE p == [toClose[i][a] EXCEPT !.state = "INTERRUPTED", !.note = InterruptNote]
<1>1. toClose[i][a] \in Record
  BY DEF ReconcileNext, Core, TypeOK, MaybeRecord
<1>2. p \in Record
  BY <1>1, StoreAssumption DEF Record, States, Terminal
<1> QED
  BY <1>2 DEF ReconcileNext

LEMMA NextCore ==
    ASSUME Core, [Next]_vars
    PROVE  Core'
<1>1. ASSUME NEW i \in Instances, InstanceStep(i) PROVE Core'
  <2>1. CASE \E a \in Attempts, p \in Proposals : Record_attempt(i, a, p)
    BY <2>1, ReserveCore, StoreAssumption DEF Record_attempt
  <2>2. CASE \E a \in Attempts : ReconcileNext(i, a)
    BY <2>2, Interrupted, ReserveCore
  <2>3. CASE PublishManifest(i) \/ CommitIndex(i) \/ RecordFails(i)
    BY <2>3, PublishCore, CommitCore, RecordFailsCore
  <2>4. CASE \E r \in Revisions, indexed \in BOOLEAN : SaveRevision(i, r, indexed)
    BY <2>4, SaveCore
  <2>5. CASE \E a \in Attempts, v \in {"accepted", "rejected"}, indexed \in BOOLEAN :
               SaveRun(i, a, v, indexed)
    BY <2>5, SaveCore
  <2>6. CASE Start(i) \/ Die(i)
    BY <2>6, StartDieCore
  <2> QED
    BY <1>1, <2>1, <2>2, <2>3, <2>4, <2>5, <2>6 DEF InstanceStep
<1>2. CASE RebuildStep
  BY <1>2, RebuildAttemptCore, LoseIndexCore, RebuildOtherCore DEF RebuildStep
<1>3. CASE UNCHANGED vars
  BY <1>3, StutterCore
<1> QED
  BY <1>1, <1>2, <1>3 DEF Next

\* An index that agrees with the files goes on to agree, and a dropped one starts to.
LEMMA NextRow ==
    ASSUME Core, sound => RowInv, [Next]_vars, sound'
    PROVE  RowInv'
<1>1. CASE LoseIndex
  BY <1>1, LoseIndexCore
<1>2. CASE ~ LoseIndex
  <2>1. ASSUME NEW i \in Instances, InstanceStep(i) PROVE RowInv'
    <3>1. sound
      BY <2>1 DEF InstanceStep, Record_attempt, ReconcileNext, Reserve, PublishManifest, CommitIndex,
         RecordFails, SaveRevision, SaveRun, Start, Die
    <3>2. CASE \E a \in Attempts, p \in Proposals : Record_attempt(i, a, p)
      BY <3>1, <3>2, ReserveRow, StoreAssumption DEF Record_attempt
    <3>3. CASE \E a \in Attempts : ReconcileNext(i, a)
      BY <3>1, <3>3, Interrupted, ReserveRow
    <3>4. CASE PublishManifest(i) \/ CommitIndex(i)
      BY <3>1, <3>4, PublishRow, CommitRow
    <3>5. CASE \/ RecordFails(i) \/ Start(i) \/ Die(i)
               \/ \E r \in Revisions, indexed \in BOOLEAN : SaveRevision(i, r, indexed)
               \/ \E a \in Attempts, v \in {"accepted", "rejected"}, indexed \in BOOLEAN :
                     SaveRun(i, a, v, indexed)
      <4>1. UNCHANGED <<manifest, legacy, row, rebuild>> /\ (tx' = tx \/ tx' = NoTx)
        BY <3>5 DEF RecordFails, Start, Die, SaveRevision, SaveRun, indexVars, fileVars, procVars
      <4> QED
        BY <3>1, <4>1, OtherRow
    <3> QED
      BY <2>1, <3>2, <3>3, <3>4, <3>5 DEF InstanceStep
  <2>2. CASE RebuildStep
    <3>1. sound
      BY <1>2, <2>2 DEF RebuildStep, StartRebuild, RebuildRevision, RebuildRun, RebuildAttempt,
         RebuildDone, RebuildStops
    <3>2. CASE \E a \in Attempts : RebuildAttempt(a)
      BY <3>1, <3>2, RebuildAttemptRow
    <3>3. CASE StartRebuild
      <4>1. /\ UNCHANGED <<manifest, legacy, row, tx>>
            /\ rebuild'.attempts = [a \in Attempts |-> ReadManifest(a)]
        BY <3>3 DEF StartRebuild, indexVars, fileVars, procVars
      <4> QED
        BY <3>1, <4>1, OtherRow
    <3>4. CASE RebuildDone \/ RebuildStops
      <4>1. UNCHANGED <<manifest, legacy, row, tx>> /\ ~ rebuild'.busy
        <5>1. ~ Idle(FALSE).busy /\ ~ Idle(rebuild.torn).busy
          BY DEF Idle
        <5> QED
          BY <3>4, <5>1 DEF RebuildDone, RebuildStops, indexVars, fileVars, procVars
      <4> QED
        BY <3>1, <4>1, OtherRow
    <3>5. CASE \/ \E r \in Revisions : RebuildRevision(r)
               \/ \E a \in Attempts : RebuildRun(a)
      <4>1. /\ UNCHANGED <<manifest, legacy, row, tx>> /\ rebuild.busy
            /\ rebuild'.attempts = rebuild.attempts
        BY <3>5 DEF RebuildRevision, RebuildRun, fileVars, procVars, Core, TypeOK
      <4> QED
        BY <3>1, <4>1, OtherRow
    <3> QED
      BY <1>2, <2>2, <3>2, <3>3, <3>4, <3>5 DEF RebuildStep
  <2>3. CASE UNCHANGED vars
    BY <2>3, OtherRow DEF vars, indexVars, fileVars, procVars
  <2> QED
    BY <2>1, <2>2, <2>3 DEF Next
<1> QED
  BY <1>1, <1>2

LEMMA NextInv ==
    ASSUME IInv, [Next]_vars
    PROVE  IInv'
BY NextCore, NextRow DEF IInv

\* Every reachable state has the shape TypeOK says and satisfies the invariant.
THEOREM Invariant == Spec => []IInv
BY InitInv, NextInv, PTL DEF Spec

\* The values of all variables of the store, for every number of attempts, processes,
\* revisions and records.
THEOREM TypeCorrect == Spec => []TypeOK
<1>1. IInv => TypeOK
    BY DEF IInv, Core
<1> QED
    BY <1>1, Invariant, PTL

\* JSON before index: the SQLite row of a closed attempt is the disposition of its
\* manifest, whatever call failed, process died, or index was dropped and rebuilt.  What an
\* older build's index says against the files counts from when it is dropped.
THEOREM IndexFollowsJson == Spec => []IndexNeverAhead
<1>1. IInv => IndexNeverAhead
    BY DEF IInv, RowInv, NeverAhead, IndexNeverAhead, Closed, Stands
<1> QED
    BY <1>1, Invariant, PTL

\* The run shown as last valid belongs to a durably COMPLETED, persisted attempt, as
\* long as no rebuild of the index was cut short and no older build's index contradicts
\* the files.
THEOREM LatestValidIsCompleted == Spec => []LatestValidCompleted
<1>1. ASSUME IInv PROVE LatestValidCompleted
  <2> SUFFICES ASSUME NEW a \in LatestValidCandidates, ~ rebuild.torn, sound
               PROVE  ReadManifest(a).state = "COMPLETED" /\ ReadManifest(a).persisted
    BY DEF LatestValidCompleted
  <2>1. a \in Attempts /\ a \in runRow /\ row[a] # NoRecord /\ ReadManifest(a) # NoRecord
    BY <1>1 DEF LatestValidCandidates, IInv, Core, TypeOK, VouchedInv, ArtifactInv, JobInv
  <2>2. row[a].state = "COMPLETED" /\ row[a].persisted
    BY <2>1 DEF LatestValidCandidates
  <2>3. row[a] = ReadManifest(a)
    BY <1>1, <2>1, <2>2 DEF IInv, RowInv, NeverAhead, Stands, Terminal
  <2> QED
    BY <2>2, <2>3
<1> QED
    BY <1>1, Invariant, PTL

\* A rebuild that comes to its end leaves an index with every artifact and every manifest,
\* whatever earlier calls and rebuilds were cut short; its rows are the manifests of a
\* dropped index and of one that survived, but for what an older build's contradictory
\* index held.
THEOREM RebuildIsComplete == Spec => RebuildAgrees
<1>1. IInv => [RebuildDone =>
         /\ revRow' = revArt
         /\ runRow' = {a \in Attempts : runArt[a] # "none"}
         /\ \A a \in Attempts : ReadManifest(a) # NoRecord =>
              row'[a] # NoRecord /\ (sound => row'[a] = ReadManifest(a))]_vars
  <2> SUFFICES ASSUME IInv, RebuildDone
               PROVE  /\ revRow' = revArt
                      /\ runRow' = {a \in Attempts : runArt[a] # "none"}
                      /\ \A a \in Attempts : ReadManifest(a) # NoRecord =>
                           row'[a] # NoRecord /\ (sound => row'[a] = ReadManifest(a))
    OBVIOUS
  <2>1. /\ rebuild.busy /\ rebuild.revs = {} /\ rebuild.runs = {}
        /\ \A a \in Attempts : rebuild.attempts[a] = NoRecord
        /\ UNCHANGED <<row, runRow, revRow>>
    BY DEF RebuildDone, NothingToClose, indexVars
  <2>2. revRow' = revArt /\ runRow' = {a \in Attempts : runArt[a] # "none"}
    BY <2>1 DEF IInv, Core, TypeOK, ArtifactInv
  <2>3. \A a \in Attempts : ReadManifest(a) # NoRecord =>
          row'[a] # NoRecord /\ (sound => row'[a] = ReadManifest(a))
    BY <2>1 DEF IInv, Core, VouchedInv, RowInv, Rebuilt
  <2> QED
    BY <2>2, <2>3
<1> QED
  BY <1>1, Invariant, PTL DEF RebuildAgrees

-------------------------------------------------------------------------------
(* Refinement of AttemptLedger *)

\* A step that is not the publication of a manifest leaves what the files say alone.
LEMMA OtherStepsKeepManifests ==
    ASSUME Next, \A i \in Instances : ~ PublishManifest(i), NEW a \in Attempts
    PROVE  ReadManifest(a)' = ReadManifest(a)
<1>1. UNCHANGED <<manifest, legacy>>
  <2>1. CASE RebuildStep
    BY <2>1 DEF RebuildStep, LoseIndex, StartRebuild, RebuildRevision, RebuildRun,
       RebuildAttempt, RebuildDone, RebuildStops, fileVars
  <2>2. ASSUME NEW i \in Instances, InstanceStep(i) PROVE UNCHANGED <<manifest, legacy>>
    <3>1. ~ PublishManifest(i)
      OBVIOUS
    <3>2. \A b \in Attempts : \A p : Reserve(i, b, p) => UNCHANGED <<manifest, legacy>>
      BY DEF Reserve, fileVars
    <3> QED
      BY <2>2, <3>1, <3>2 DEF InstanceStep, Record_attempt, ReconcileNext, CommitIndex,
         RecordFails, SaveRevision, SaveRun, Start, Die, fileVars
  <2> QED
    BY <2>1, <2>2 DEF Next
<1> QED
  BY <1>1 DEF ReadManifest

\* A publication is one Advance of the ledger, or shows what was shown before.
LEMMA StepAdvances ==
    ASSUME Core, [Next]_vars
    PROVE  [Ledger!Next]_([a \in Attempts |-> ReadManifest(a)])
<1> DEFINE shown == [a \in Attempts |-> ReadManifest(a)]
<1>1. CASE \E i \in Instances : PublishManifest(i)
  <2> PICK i \in Instances : PublishManifest(i)
    BY <1>1
  <2>0. tx \in Tx /\ tx'.attempt = tx.attempt
    BY HeldTx DEF PublishManifest, Core, Tx
  <2> PICK b \in Attempts, w \in Record : b = tx.attempt /\ w = tx.winner
    BY <2>0 DEF Tx
  <2>1. /\ \A a \in Attempts \ {b} : ReadManifest(a)' = ReadManifest(a)
        /\ SameIdentity(ReadManifest(b), w) /\ ~ Stands(ReadManifest(b), w)
        /\ ReadManifest(b)' \in {w, ReadManifest(b)}
    BY <2>0, PublishedManifest DEF ReadManifest
  <2>2. CASE ReadManifest(b)' = ReadManifest(b)
    <3>1. \A a \in Attempts : ReadManifest(a)' = ReadManifest(a)
      BY <2>1, <2>2
    <3> QED
      BY <3>1
  <2>3. CASE ReadManifest(b)' = w
    <3>1. \A a \in Attempts : ReadManifest(a)' = IF a = b THEN w ELSE ReadManifest(a)
      BY <2>1, <2>3
    <3>2. [a \in Attempts |-> ReadManifest(a)']
            = [[a \in Attempts |-> ReadManifest(a)] EXCEPT ![b] = w]
      BY <2>1, <3>1
    <3>3. ~ Conflict(ReadManifest(b), w) /\ ~ Stands(ReadManifest(b), w)
      BY <2>1, NoRecordIsNone DEF Conflict, SameIdentity
    <3>4. Ledger!Advance(b, w)
      BY <2>1, <3>2, <3>3 DEF Ledger!Advance, Ledger!Conflict, Conflict, Ledger!Stands,
         Stands, Ledger!Terminal, Terminal
    <3>5. w \in Ledger!Record
      BY <2>1 DEF Ledger!Record, Record, Ledger!States, States, Ledger!Terminal, Terminal
    <3> QED
      BY <2>1, <3>4, <3>5 DEF Ledger!Next
  <2> QED
    BY <2>1, <2>2, <2>3
<1>2. CASE Next /\ \A i \in Instances : ~ PublishManifest(i)
  BY <1>2, OtherStepsKeepManifests
<1>3. CASE UNCHANGED vars
  BY <1>3 DEF vars, fileVars, ReadManifest
<1> QED
  BY <1>1, <1>2, <1>3

\* The store keeps the ledger's promise: through failed commits, crashes, index loss and
\* the interleaving of processes, no attempt's first terminal disposition is replaced.
THEOREM StoreImplementsLedger == Spec => ImplementsLedger
<1>1. Init => Ledger!Init
  <2> SUFFICES ASSUME Init PROVE Ledger!Init
    OBVIOUS
  <2>1. TypeOK
    BY InitCore DEF Core
  <2> QED
    BY <2>1, ReadManifestType DEF Ledger!Init, Ledger!MaybeRecord, MaybeRecord,
       Ledger!Record, Record, Ledger!States, States, Ledger!Terminal, Terminal
<1>2. IInv /\ [Next]_vars => [Ledger!Next]_([a \in Attempts |-> ReadManifest(a)])
  BY StepAdvances DEF IInv
<1> QED
  BY <1>1, <1>2, Invariant, PTL DEF Spec, ImplementsLedger, Ledger!Spec
===============================================================================
