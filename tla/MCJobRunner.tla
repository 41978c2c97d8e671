----------------------------- MODULE MCJobRunner -----------------------------
(* JobRunner for TLC: interchangeable processes, jobs and tokens. *)
EXTENDS JobRunner, TLC

Symmetry == Permutations(Runner) \cup Permutations(Job) \cup Permutations(Claim)
=============================================================================
