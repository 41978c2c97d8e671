--------------------------- MODULE FfiTransactions ---------------------------
(***************************************************************************)
(* Transaction handles of the C ABI over one production state.  A handle   *)
(* only collects mutations; commit takes the production's mutex, replays   *)
(* them in one storage transaction and, after giving the mutex back,       *)
(* clears the flag that keeps a second transaction from being opened.      *)
(* Threads may use different handles at the same time, one handle only one *)
(* after the other.                                                        *)
(***************************************************************************)
EXTENDS Naturals, FiniteSets

CONSTANTS
    Txn,            \* transaction handles the host ever asks for
    MaxStaged       \* bound: mutations staged on one handle

ASSUME MaxStagedAssumption == MaxStaged \in Nat

VARIABLES
    transaction_open,  \* the flag of ProductionState
    life,              \* lifecycle of each handle; "none" before, "released" after
    call,              \* where a running commit call of the handle is
    mutations,         \* number of mutations the handle has collected
    revisions          \* how many revisions each handle has published

txnVars == <<transaction_open, life, call, mutations, revisions>>

Lives == {"none", "open", "committed", "rolled_back", "released"}
Calls == {"none", "replaying", "stored", "refused"}

TxnInit ==
    /\ transaction_open = FALSE
    /\ life = [t \in Txn |-> "none"] /\ call = [t \in Txn |-> "none"]
    /\ mutations = [t \in Txn |-> 0] /\ revisions = [t \in Txn |-> 0]
-----------------------------------------------------------------------------
Usable(t)    == life[t] \notin {"none", "released"} /\ call[t] = "none"
IsOpen(t)    == life[t] = "open"
SetLife(t, l) == life' = [life EXCEPT ![t] = l]
SetCall(t, c) == call' = [call EXCEPT ![t] = c]

(* compare_exchange(false, true); a set flag is a Conflict.                *)
Begin(t) ==
    /\ life[t] = "none" /\ ~transaction_open
    /\ transaction_open' = TRUE
    /\ SetLife(t, "open")
    /\ UNCHANGED <<call, mutations, revisions>>

Stage(t) ==
    /\ Usable(t) /\ IsOpen(t) /\ mutations[t] < MaxStaged
    /\ mutations' = [mutations EXCEPT ![t] = @ + 1]
    /\ UNCHANGED <<transaction_open, life, call, revisions>>

(* Completing a job makes one mutation of an output and an activity.       *)
Bind(t) ==
    /\ Usable(t) /\ IsOpen(t) /\ mutations[t] >= 2
    /\ mutations' = [mutations EXCEPT ![t] = @ - 1]
    /\ UNCHANGED <<transaction_open, life, call, revisions>>

(* The mutex admits one replay at a time.                                  *)
CommitReplay(t) ==
    /\ Usable(t) /\ IsOpen(t)
    /\ \A u \in Txn : call[u] # "replaying"
    /\ SetCall(t, "replaying")
    /\ UNCHANGED <<transaction_open, life, mutations, revisions>>

(* The storage transaction commits; mutations that change nothing, or none *)
(* at all, publish nothing.                                                *)
CommitStored(t) ==
    /\ call[t] = "replaying"
    /\ SetCall(t, "stored")
    /\ \E news \in {n \in {0, 1} : n <= mutations[t]} :
          revisions' = [revisions EXCEPT ![t] = @ + news]
    /\ UNCHANGED <<transaction_open, life, mutations>>

(* The file is busy, a mutation fails, or COMMIT is refused.               *)
CommitRefused(t) ==
    /\ call[t] = "replaying"
    /\ SetCall(t, "refused")
    /\ UNCHANGED <<transaction_open, life, mutations, revisions>>

(* A panic before COMMIT drops the storage transaction and the mutex guard *)
(* and stops at the ABI boundary: neither flag nor lifecycle is touched.   *)
CommitPanics(t) ==
    /\ call[t] = "replaying"
    /\ SetCall(t, "none")
    /\ UNCHANGED <<transaction_open, life, mutations, revisions>>

(* Variant: a refused commit leaves early, before the flag is cleared.     *)
CommitReturn_KeepsFlag(t) ==
    /\ call[t] \in {"stored", "refused"}
    /\ transaction_open' = IF call[t] = "stored" THEN FALSE ELSE transaction_open
    /\ SetLife(t, IF call[t] = "stored" THEN "committed" ELSE "rolled_back")
    /\ SetCall(t, "none")
    /\ mutations' = [mutations EXCEPT ![t] = IF call[t] = "stored" THEN 0 ELSE @]
    /\ UNCHANGED revisions

(* Variant: a commit that was stored leaves the lifecycle open.            *)
CommitReturn_StaysOpen(t) ==
    /\ call[t] \in {"stored", "refused"}
    /\ transaction_open' = FALSE
    /\ life' = IF call[t] = "stored" THEN life ELSE [life EXCEPT ![t] = "rolled_back"]
    /\ SetCall(t, "none")
    /\ UNCHANGED <<mutations, revisions>>

(* Flag and lifecycle in one step: only the handle's own thread reads the  *)
(* lifecycle.                                                              *)
CommitReturn(t) ==
    /\ call[t] \in {"stored", "refused"}
    /\ transaction_open' = FALSE
    /\ SetLife(t, IF call[t] = "stored" THEN "committed" ELSE "rolled_back")
    /\ SetCall(t, "none")
    /\ mutations' = [mutations EXCEPT ![t] = IF call[t] = "stored" THEN 0 ELSE @]
    /\ UNCHANGED revisions

Rollback(t) ==
    /\ Usable(t) /\ IsOpen(t)
    /\ SetLife(t, "rolled_back")
    /\ mutations' = [mutations EXCEPT ![t] = 0]
    /\ transaction_open' = FALSE
    /\ UNCHANGED <<call, revisions>>

(* Dropping any handle clears the flag, whatever the handle's lifecycle.   *)
Release(t) ==
    /\ Usable(t)
    /\ SetLife(t, "released")
    /\ mutations' = [mutations EXCEPT ![t] = 0]
    /\ transaction_open' = FALSE
    /\ UNCHANGED <<call, revisions>>

TxnNext == \E t \in Txn :
    \/ Begin(t) \/ Stage(t) \/ Bind(t) \/ CommitReplay(t) \/ CommitStored(t)
    \/ CommitRefused(t) \/ CommitPanics(t) \/ CommitReturn(t)
    \/ Rollback(t) \/ Release(t)

TxnSpec == TxnInit /\ [][TxnNext]_txnVars
-----------------------------------------------------------------------------
(* Types, and the mutex: at most one replay.                               *)
TxnTypeOK ==
    /\ transaction_open \in BOOLEAN
    /\ life \in [Txn -> Lives] /\ call \in [Txn -> Calls]
    /\ mutations \in [Txn -> 0..MaxStaged] /\ revisions \in [Txn -> Nat]
    /\ \A t \in Txn : call[t] # "none" => IsOpen(t)
    /\ \A t, u \in Txn : call[t] = "replaying" /\ call[u] = "replaying" => t = u

(* The host is never locked out: while begin is refused there is an open   *)
(* handle whose commit, rollback or release will clear the flag, also      *)
(* after a refused commit and a panic.                                     *)
NeverLockedOut == transaction_open => \E t \in Txn : IsOpen(t)

(* The answer of commit is the truth: a handle has published exactly when  *)
(* the storage committed it, and never twice, not even when it is retried  *)
(* after a panic; one that rolled back published nothing.                  *)
CommitTellsTheTruth ==
    \A t \in Txn : /\ revisions[t] <= 1
                   /\ IsOpen(t) /\ call[t] # "stored" => revisions[t] = 0
                   /\ life[t] = "rolled_back" => revisions[t] = 0

(* "At most one transaction may be open for a production state"            *)
(* (pp_production_begin_transaction).                                      *)
AtMostOneOpen == \A t, u \in Txn : IsOpen(t) /\ IsOpen(u) => t = u
=============================================================================
