-------------------------- MODULE MCProductionFile --------------------------
(* Three processes, one of them of an older build, and three migrations.   *)
EXTENDS ProductionFile

CONSTANTS old, new1, new2

MCNewest == [p \in {old, new1, new2} |-> IF p = old THEN 1 ELSE 3]
=============================================================================
