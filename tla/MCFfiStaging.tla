---------------------------- MODULE MCFfiStaging ----------------------------
(* FfiStaging for TLC: interchangeable handles. *)
EXTENDS FfiStaging, TLC

Symmetry == Permutations(Txn)
=============================================================================
