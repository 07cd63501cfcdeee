---------------------------- MODULE MCDraftHistory ----------------------------
(* Instances of DraftHistory for TLC.                                       *)
EXTENDS DraftHistory

Symmetry == Permutations(Callers) \cup Permutations(Docs)
===============================================================================
