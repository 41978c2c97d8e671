-------------------------- MODULE ArtifactKnowledge --------------------------
(***************************************************************************)
(* evaluate_artifact as the code runs it: one traversal with a memo and    *)
(* bounds on depth and on the representations visited, compared with the   *)
(* evaluation without bounds of Evidence.                                  *)
(***************************************************************************)
EXTENDS Evidence, SequencesExt

CONSTANTS Depths, Counts    \* bounds that callers pass

Limits == [depth : Depths, count : Counts]

(* The context of a traversal, and the state of the node it returned from. *)
Context == [visited |-> {}, memo |-> [r \in {} |-> Current], truncated |-> FALSE,
            state |-> Current]

(* Variant: the caller is not told.                                        *)
Truncated_Silent(ctx) == [ctx EXCEPT !.state = Indeterminate]

Truncated(ctx) == [ctx EXCEPT !.truncated = TRUE, !.state = Indeterminate]
Memoized(ctx, r) ==
    [ctx EXCEPT !.memo = [q \in DOMAIN @ \cup {r} |-> IF q = r THEN ctx.state ELSE @[q]]]

RECURSIVE Node(_, _, _, _)

(* The inputs of activity a in order, each with what is known upstream.    *)
Output(a, r, depth, lim, ctx) ==
    LET promote(k, s) == [k EXCEPT !.state = Worst({@, s})]
        upstream(q, k) ==
            IF Producers(q) = {} THEN k
            ELSE LET up == Node(q, depth + 1, lim, k)
                 IN [up EXCEPT !.state = Worst({k.state, Downstream(up.state)})]
        begun == [ctx EXCEPT !.state = Worst(Evidences(a, r))]
    IN FoldLeft(LAMBDA k, q : upstream(q, k), begun, SetToSeq(acts[a].inputs))

Node(r, depth, lim, ctx) ==
    IF r \in DOMAIN ctx.memo THEN [ctx EXCEPT !.state = ctx.memo[r]]
    ELSE IF depth > lim.depth \/ Cardinality(ctx.visited) >= lim.count THEN Truncated(ctx)
    ELSE LET entered == [ctx EXCEPT !.visited = @ \cup {r}]
         IN Memoized(IF Cardinality(Producers(r)) # 1
                     THEN [entered EXCEPT !.state = Indeterminate]
                     ELSE Output(CHOOSE a \in Activity : a \in Producers(r),
                                 r, depth, lim, entered), r)

Limited(r, lim) == Node(r, 0, lim, Context)

(* Whatever the bounds: an answer that was not truncated is the answer,    *)
(* and a truncated one errs towards "indeterminate" only.  The memo keeps  *)
(* results that a bound cut short, and reuses them on shorter paths.       *)
LimitedIsSound ==
    \A r \in present :
        LET exact == Evaluate(r)
        IN \A lim \in Limits :
              LET answer == Limited(r, lim)
              IN \/ answer.state = exact
                 \/ answer.truncated /\ answer.state = Indeterminate
=============================================================================
