---------------------------- MODULE MCRunLifecycle ----------------------------
(* Instances of RunLifecycle for TLC.                                       *)
EXTENDS RunLifecycle, TLC

MCIdentities == 1 .. MaxAttempts
Symmetry == Permutations(Callers \ LegacyCallers) \cup Permutations(LegacyCallers)
            \cup Permutations(Contents) \cup Permutations(Contexts)
===============================================================================
