---------------------------- MODULE Subscription ----------------------------
(***************************************************************************)
(* What following the revision feed promises its consumer: the revisions   *)
(* it asked for are handed over one by one, in the order of their commits  *)
(* and without a gap.  A consumer that is started again may go back.       *)
(***************************************************************************)
EXTENDS Naturals

VARIABLES
    matching,   \* sequence numbers of the published revisions asked for
    handled     \* those the consumer has seen since it last went back

vars == <<matching, handled>>

Init == matching = {} /\ handled = {}

Publish ==
    /\ \E s \in matching' : /\ \A m \in matching : m < s
                           /\ matching' = matching \cup {s}
    /\ UNCHANGED handled

HandOver ==
    /\ \E s \in matching \ handled :
          /\ \A m \in matching \ handled : s <= m
          /\ handled' = handled \cup {s}
    /\ UNCHANGED matching

GoBack ==
    /\ handled' \subseteq handled
    /\ \A s \in handled', m \in matching : m < s => m \in handled'
    /\ UNCHANGED matching

Next == Publish \/ HandOver \/ GoBack

Spec == Init /\ [][Next]_vars
=============================================================================
