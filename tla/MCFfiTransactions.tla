-------------------------- MODULE MCFfiTransactions --------------------------
(* FfiTransactions for TLC: interchangeable handles. *)
EXTENDS FfiTransactions, TLC

Symmetry == Permutations(Txn)
=============================================================================
