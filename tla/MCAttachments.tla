---------------------------- MODULE MCAttachments ---------------------------
(* Attachments for TLC: the production, which carries metadata only, and   *)
(* an object that is created; handles are interchangeable.                 *)
EXTENDS Attachments, TLC

Symmetry == Permutations(Handle) \cup Permutations(Root)
=============================================================================
