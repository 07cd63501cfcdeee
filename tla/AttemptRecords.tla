---------------------------- MODULE AttemptRecords ----------------------------
(***************************************************************************)
(* Run-attempt records and the rule that decides between two of them.      *)
(*                                                                         *)
(* A record is what src/bh_sim/persistence/store.py keeps per attempt, in a*)
(* JSON manifest and in a row of the SQLite table `attempts'.  The fields  *)
(* that make the admission identity (attempt, run, case, hashes, admission *)
(* time, protocol) are one value `identity'; the terminal time, the failure*)
(* reason and the artifact hash, which no property inspects, are one value *)
(* `note' that tells two dispositions of the same state apart.             *)
(***************************************************************************)
CONSTANTS
    Identities,     \* admission identities
    Notes,          \* terminal time / failure reason / artifact hash
    NoRecord        \* the absent record (Python's None)

Terminal == {"COMPLETED", "FAILED", "CANCELLED", "INTERRUPTED", "TIMED_OUT"}
States   == {"ADMITTED", "RUNNING"} \cup Terminal

Record == [identity : Identities, state : States, note : Notes, persisted : BOOLEAN]
MaybeRecord == Record \cup {NoRecord}

ASSUME NoRecordIsNone == NoRecord \notin Record

Open(r)   == r # NoRecord /\ r.state \notin Terminal
Closed(r) == r # NoRecord /\ r.state \in Terminal

\* Differing immutable inputs: _attempt_winner raises ValueError.
Conflict(existing, proposed) ==
    existing # NoRecord /\ existing.identity # proposed.identity

\* mutant: a terminal record does not stand
StandsWhileRunning(existing, proposed) ==
    existing # NoRecord /\ existing.state = "RUNNING" /\ proposed.state = "ADMITTED"

\* The existing record stands against the proposed one.
Stands(existing, proposed) ==
    /\ existing # NoRecord
    /\ \/ existing.state \in Terminal
       \/ existing.state = "RUNNING" /\ proposed.state = "ADMITTED"

AttemptWinner(existing, proposed) ==
    IF Stands(existing, proposed) THEN existing ELSE proposed
===============================================================================
