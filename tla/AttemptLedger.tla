----------------------------- MODULE AttemptLedger -----------------------------
(***************************************************************************)
(* What the attempt store promises its callers (docs/CONTRACTS.md, "DW4/DW5*)
(* lifecycle corrections"): one record per attempt, whose admission        *)
(* identity never changes, which never goes back from RUNNING to ADMITTED  *)
(* and which keeps its first terminal disposition for ever.                *)
(***************************************************************************)
EXTENDS AttemptRecords

CONSTANT Attempts

VARIABLE ledger

Init == ledger \in [Attempts -> MaybeRecord]

Advance(a, r) ==
    /\ ~ Conflict(ledger[a], r)
    /\ ~ Stands(ledger[a], r)
    /\ ledger' = [ledger EXCEPT ![a] = r]

Next == \E a \in Attempts, r \in Record : Advance(a, r)

Spec == Init /\ [][Next]_ledger
===============================================================================
