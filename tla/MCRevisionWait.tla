--------------------------- MODULE MCRevisionWait ---------------------------
(* RevisionWait for TLC.  Symmetry only for the safety run. *)
EXTENDS RevisionWait, TLC

Symmetry == Permutations(Waiter)
=============================================================================
