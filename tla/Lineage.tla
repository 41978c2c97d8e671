------------------------------- MODULE Lineage -------------------------------
(***************************************************************************)
(* The queries that follow provenance and dependencies: breadth-first      *)
(* traversals with bounds on depth and on the representations visited, and *)
(* the pages of stale artifacts.  A query reads one committed state; the   *)
(* order of representations is that of their identities.                   *)
(***************************************************************************)
EXTENDS ArtifactKnowledge

CONSTANTS
    Ids,        \* the representations in the order of their identities
    Reaches     \* bounds that callers pass to a traversal: [depth, count]

ASSUME IdsAssumption == IsInjective(Ids) /\ Range(Ids) = Rep
ASSUME ReachesAssumption == \A b \in Reaches : b.depth \in Nat \ {0} /\ b.count \in Nat \ {0}

InOrder(S) == SelectSeq(Ids, LAMBDA r : r \in S)
-----------------------------------------------------------------------------
(* The graphs, as the neighbours of each representation.                   *)

DirectAncestors   == [r \in Rep |-> UNION {acts[a].inputs : a \in Producers(r)}]
DirectDescendants == [r \in Rep |-> Children(acts, {r})]
DirectDependencies == [r \in Rep |-> Resolved(deps[r].edges)]
DirectDependents  == [r \in Rep |-> {q \in Rep : r \in Resolved(deps[q].edges)}]

(* Dependencies on assets without a representation: found, not followed.   *)
OpenEnds(r) == {deps[r].edges[i].target : i \in DOMAIN deps[r].edges} \ Rep
-----------------------------------------------------------------------------
(* provenance_page, dependencies and dependents take a representation from *)
(* the front of the queue and look at its neighbours in order.             *)
Start(r) == [queue |-> <<[rep |-> r, depth |-> 0]>>, visited |-> {r},
             found |-> [q \in {} |-> 0], truncated |-> FALSE]

Found(k, root, S, depth) ==
    [q \in DOMAIN k.found \cup (S \ {root}) |->
        IF q \in DOMAIN k.found THEN k.found[q] ELSE depth]

(* Variant: the bound leaves the rest out without a word.                  *)
Told_Silent(k, fresh, b) == k.truncated

Admitted(k, fresh, b) ==
    IF Cardinality(k.visited) >= b.count THEN <<>>
    ELSE SubSeq(fresh, 1, Min({Len(fresh), b.count - Cardinality(k.visited)}))

Told(k, fresh, b) == k.truncated \/ Len(Admitted(k, fresh, b)) < Len(fresh)

Visit(k, root, b, next, ends) ==
    LET at    == Head(k.queue)
        fresh == InOrder(next[at.rep] \ k.visited)
        taken == Admitted(k, fresh, b)
    IN IF at.depth = b.depth
       THEN [k EXCEPT !.queue = Tail(@),
                      !.truncated = @ \/ fresh # <<>> \/ ends[at.rep] \ DOMAIN k.found # {}]
       ELSE [queue     |-> Tail(k.queue) \o
                              [i \in DOMAIN taken |-> [rep |-> taken[i], depth |-> at.depth + 1]],
             visited   |-> k.visited \cup Range(taken),
             found     |-> Found(k, root, next[at.rep] \cup ends[at.rep], at.depth + 1),
             truncated |-> Told(k, fresh, b)]

(* Nothing is queued twice: as many visits as there are representations.   *)
Traverse(r, b, next, ends) ==
    LET run[n \in Nat] ==
            IF n = 0 THEN Start(r)
            ELSE LET k == run[n - 1]
                 IN IF k.queue = <<>> THEN k ELSE Visit(k, r, b, next, ends)
    IN run[Cardinality(Rep)]

NoEnds == [r \in Rep |-> {}]
AncestorsPage(r, b)   == Traverse(r, b, DirectAncestors, NoEnds)
DescendantsPage(r, b) == Traverse(r, b, DirectDescendants, NoEnds)
Dependencies(r, b)    == Traverse(r, b, DirectDependencies, [q \in Rep |-> OpenEnds(q)])
Dependents(r, b)      == Traverse(r, b, DirectDependents, NoEnds)
-----------------------------------------------------------------------------
(* ancestors and descendants have no bounds: what the recursive queries    *)
(* find, generation by generation.                                         *)
Away(r, next, ends) ==
    LET at[n \in Nat] ==
            IF n = 0 THEN {r}
            ELSE LET near == at[n - 1]
                 IN near \cup UNION {next[q] \cup ends[q] : q \in near \cap Rep}
    IN [n \in 0..Cardinality(Rep) |-> at[n]]

Honest(r, b, next, ends) ==
    next[r] \cup ends[r] # {} =>
        LET answer == Traverse(r, b, next, ends)
            away   == Away(r, next, ends)
            there  == away[Cardinality(Rep)] \ {r}
            found  == DOMAIN answer.found
            nearest(q, n) == q \in away[n] /\ q \notin away[n - 1]
        IN /\ found \subseteq there
           /\ answer.truncated \/ found = there
           /\ \A q \in found :
                 /\ answer.found[q] \in 1..b.depth /\ q \in away[answer.found[q]]
                 /\ answer.truncated \/ nearest(q, answer.found[q])
           /\ Cardinality(there) < b.count =>
                 /\ found = there \cap away[Min({b.depth, Cardinality(Rep)})]
                 /\ answer.truncated => found # there

(* "traversal_truncated" tells the truth (bounded-queries.md): an answer   *)
(* without it is all there is, at its shortest depth; one with it is right *)
(* as far as it goes; and no bound that is wide enough truncates.  (Looked *)
(* at while no host computes: what a host holds is no part of the graphs.) *)
TraversalIsHonest ==
    LET up == DirectAncestors  down == DirectDescendants
        needs == DirectDependencies  needed == DirectDependents
        open == [q \in Rep |-> OpenEnds(q)]
    IN (\A c \in Caller : ~caller[c].busy) => \A r \in present, b \in Reaches :
          /\ Honest(r, b, up, NoEnds) /\ Honest(r, b, down, NoEnds)
          /\ Honest(r, b, needs, open) /\ Honest(r, b, needed, NoEnds)
-----------------------------------------------------------------------------
(* stale_artifacts looks at a page of outputs and keeps those evaluated as *)
(* stale; the cursor names the last one it looked at.                      *)
EvaluatedStale(lim) ==
    {r \in Rep : Producers(r) # {} /\ Limited(r, lim).state = StaleArtifact}

After(r) == IF r = None THEN Rep
            ELSE {q \in Rep : \E i, k \in DOMAIN Ids : i < k /\ Ids[i] = r /\ Ids[k] = q}

(* Variant: the cursor names the last one that is stale.                   *)
Cursor_LastStale(examined, stale) ==
    LET kept == SelectSeq(examined, LAMBDA r : r \in stale)
    IN IF kept = <<>> THEN None ELSE Last(kept)

Cursor(examined, stale) == Last(examined)

StalePage(scope, stale, position, limit) ==
    LET candidates == InOrder({r \in After(position) \cap scope : Producers(r) # {}})
        examined   == SubSeq(candidates, 1, Min({limit, Len(candidates)}))
    IN [items |-> SelectSeq(examined, LAMBDA r : r \in stale),
        next  |-> IF Len(candidates) > limit THEN Cursor(examined, stale) ELSE None]

(* The pages of a caller that follows the cursor to its end.               *)
StaleWalk(scope, stale, limit) ==
    LET pages[n \in Nat] ==
            IF n = 0 THEN StalePage(scope, stale, None, limit)
            ELSE LET before == pages[n - 1]
                     page   == StalePage(scope, stale, before.next, limit)
                 IN IF before.next = None THEN before
                    ELSE [page EXCEPT !.items = before.items \o @]
    IN pages[Cardinality(Rep)].items

(* A source restricts the candidates to the descendants of a bounded query.*)
Scope(source, lim) ==
    IF source = None THEN [reps |-> Rep, truncated |-> FALSE]
    ELSE LET page == DescendantsPage(source, lim)
         IN [reps |-> DOMAIN page.found, truncated |-> page.truncated]

(* Whoever follows the pages of stale artifacts to their end has each      *)
(* artifact that is stale, and descends from the source if one was named,  *)
(* exactly once, unless the traversal or the evaluation was truncated; and *)
(* has none that is not.                                                   *)
StaleAreFound ==
    (\A c \in Caller : ~caller[c].busy) => \A lim \in Limits :
        LET stale == EvaluatedStale(lim)
            truly == {r \in Rep : Producers(r) # {} /\ Evaluate(r) = StaleArtifact}
            whole == \A r \in truly : ~Limited(r, lim).truncated
        IN \A source \in present \cup {None} :
              LET scope == Scope(source, lim)
                  walk  == StaleWalk(scope.reps, stale, 1)
                  under == IF source = None THEN Rep
                           ELSE Descendants(acts, Children(acts, {source}))
              IN /\ IsInjective(walk) /\ Range(walk) \subseteq truly \cap under
                 /\ whole /\ ~scope.truncated => Range(walk) = truly \cap under
=============================================================================
