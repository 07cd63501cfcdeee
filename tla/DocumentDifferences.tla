-------------------------- MODULE DocumentDifferences --------------------------
(***************************************************************************)
(* What the program takes for a change of a native document: the content   *)
(* hash results are compared by (boundary/contracts.py), the engineering   *)
(* hash a validation receipt is for (adapters/engineering.py), and the     *)
(* differences and the classification of an entry of the history           *)
(* (application/history.py).  A hash is what it is computed from.          *)
(***************************************************************************)
EXTENDS ReferenceDraft

\* pfd_engineering_content_hash
ContentHash(doc) == <<doc.nodes, doc.streams, doc.subsystems>>

\* mutant: the names of units belong to the hash
EngineeringHashWithNames(doc) == DraftToContract(doc)

\* EngineeringAdapter.prepare: the case without its title and the names of units.
EngineeringHash(doc) ==
    LET case == DraftToContract(doc) IN
    IF case = Refused THEN Refused
    ELSE [connections |-> case.connections,
          units |-> [i \in DOMAIN case.units |->
                        [kind |-> case.units[i].kind, parameters |-> case.units[i].parameters]]]

-------------------------------------------------------------------------------
(* compare_documents: what differs, by category; 0 is the document itself    *)

Changed(before, after) ==
    {i \in DOMAIN before \cup DOMAIN after :
        i \in DOMAIN before /\ i \in DOMAIN after => before[i] # after[i]}

EngineeringDifferences(before, after) ==
    Changed(before.nodes, after.nodes) \cup Changed(before.streams, after.streams)
    \cup Changed(before.subsystems, after.subsystems)

Preferences(doc) == <<doc.settings, doc.active, doc.colour, doc.next>>
PresentationDifferences(before, after) ==
    Changed(before.objects, after.objects) \cup Changed(before.groups, after.groups)
    \cup {d \in {0} : Preferences(before) # Preferences(after)}

\* The classification of the entry that leads from one document to the other; the digest is of all of it.
Classification(before, after) ==
    IF ContentHash(before) # ContentHash(after) THEN "engineering"
    ELSE IF before # after THEN "presentation" ELSE "metadata"
===============================================================================
