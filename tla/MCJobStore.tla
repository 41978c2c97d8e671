----------------------------- MODULE MCJobStore -----------------------------
(* JobStore for TLC: interchangeable handles, jobs, tokens and outputs.    *)
EXTENDS JobStore, TLC

Symmetry == Permutations(Handle) \cup Permutations(Job)
                \cup Permutations(Claim) \cup Permutations(Repr)
=============================================================================
