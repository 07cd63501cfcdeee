------------------------------ MODULE OnceLedger ------------------------------
(***************************************************************************)
(* What a registry session promises of a request id (docs/native/          *)
(* DW1_BOUNDARY.md, "an exact duplicate request returns its recorded       *)
(* terminal outcome"): its use case is performed once, what came of it is  *)
(* decided once, and only the end of the session forgets it.               *)
(***************************************************************************)
CONSTANTS Ids, Entries, NoEntry

VARIABLES
    running,    \* ids whose use case is under way
    performed,  \* ids whose use case has come to its end
    decided     \* per id: the recorded entry, or NoEntry

vars == <<running, performed, decided>>

Init == running = {} /\ performed = {} /\ decided = [i \in Ids |-> NoEntry]

Start(i) ==
    /\ i \notin running /\ decided[i] = NoEntry
    /\ running' = running \cup {i}
    /\ UNCHANGED <<performed, decided>>

Perform(i) ==
    /\ i \in running \ performed
    /\ performed' = performed \cup {i}
    /\ UNCHANGED <<running, decided>>

Decide(i) ==
    /\ i \in running \cap performed
    /\ running' = running \ {i}
    /\ decided'[i] \in Entries
    /\ decided' = [decided EXCEPT ![i] = decided'[i]]
    /\ UNCHANGED performed

Abandon(i) ==
    /\ i \in running \ performed
    /\ running' = running \ {i}
    /\ UNCHANGED <<performed, decided>>

Forget == running' = {} /\ performed' = {} /\ decided' = [i \in Ids |-> NoEntry]

Next ==
    \/ \E i \in Ids : Start(i) \/ Perform(i) \/ Abandon(i) \/ Decide(i)
    \/ Forget

Spec == Init /\ [][Next]_vars
===============================================================================
