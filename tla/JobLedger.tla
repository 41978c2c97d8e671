------------------------------ MODULE JobLedger ------------------------------
(***************************************************************************)
(* What the job table promises to a reader that looks at the production    *)
(* file between commits and knows nothing of transactions, leases or       *)
(* tokens.  A published revision moves any number of jobs forward, never   *)
(* back out of a terminal state; success brings exactly one output, which  *)
(* no other job owns; and nothing moves without a new revision number.     *)
(***************************************************************************)
EXTENDS Naturals

CONSTANTS Job, Repr, NoRepr

VARIABLES
    status,    \* [Job -> Status]
    output,    \* the representation a succeeded job produced
    revision   \* sequence number of the latest published revision

ledgerVars == <<status, output, revision>>

Open     == {"requested", "claimed"}
Terminal == {"succeeded", "failed", "cancelled"}

(* The states one revision may take a job to: a transaction stages several *)
(* transitions, so a revision shows only where they end.                   *)
Reachable(s) == CASE s = "absent"  -> {"absent"} \cup Open \cup Terminal
                  [] s \in Open    -> Open \cup Terminal
                  [] OTHER         -> {s}

Init == /\ status = [j \in Job |-> "absent"]
        /\ output = [j \in Job |-> NoRepr]
        /\ revision = 0

Publish ==
    /\ revision' = revision + 1
    /\ \A j \in Job : status'[j] \in Reachable(status[j])
    /\ \A j \in Job : output'[j] # NoRepr <=> status'[j] = "succeeded"
    /\ \A j \in Job : output[j] # NoRepr => output'[j] = output[j]
    /\ \A i, j \in Job : i # j /\ output'[i] # NoRepr => output'[i] # output'[j]

Spec == Init /\ [][Publish]_ledgerVars
=============================================================================
