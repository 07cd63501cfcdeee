-------------------------- MODULE MCPersistenceStore --------------------------
(* Instances of PersistenceStore for TLC.                                   *)
EXTENDS PersistenceStore, TLC

CONSTANTS n0, id1, id2

\* An open record has no terminal time, reason or artifact.
Rec(id, state, note) ==
    [identity |-> id, state |-> state, note |-> IF state \in Terminal THEN note ELSE n0,
     persisted |-> state = "COMPLETED"]

CONSTANTS ProposedStates, LegacyStates

\* What the services propose; a caller that mistakes the attempt proposes a COMPLETED
\* record of another admission.
MCProposals ==
    {Rec(id1, s, n) : s \in ProposedStates, n \in Notes \ {n0}}
        \cup {Rec(id, "COMPLETED", n) : id \in Identities, n \in Notes \ {n0}}
MCLegacy == {Rec(id1, s, n0) : s \in LegacyStates}
MCRevisionOf == [a \in Attempts |-> CHOOSE r \in Revisions : TRUE]

\* Executions have new ids: the old attempt is not executed again.
OldIsOver == \A a \in Attempts : legacy[a] # NoRecord => owner[a] = Nobody

Symmetry == Permutations(Instances) \cup Permutations(Attempts)
===============================================================================
