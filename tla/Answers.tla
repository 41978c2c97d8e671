------------------------------- MODULE Answers -------------------------------
(***************************************************************************)
(* What the answers of all queries share.  A past is the sequence of the   *)
(* events that were committed, each with its revision and its place; the   *)
(* tables a query reads are functions of a past.  Writers differ in how    *)
(* much detail they give: "bare" rows leave every optional column NULL, as *)
(* rows of older schema versions do, "full" and "odd" ones fill different  *)
(* columns, and an odd writer does not mind a NUL where nothing checks it. *)
(***************************************************************************)
EXTENDS RevisionEvents

LOCAL INSTANCE SequencesExt

Of(past, types) == SelectSeq(past, LAMBDA d : d.event.type \in types)
About(past, types, field, id) == SelectSeq(Of(past, types), LAMBDA d : d.event[field] = id)

Part(x, field)    == IF x = Null THEN Null ELSE x[field]
Maybe(details, x) == IF details = "bare" THEN Null ELSE x
ById(S) == SetToSortSeq(S, LAMBDA a, b : Bytes(a.id) < Bytes(b.id))

(* What a query hands to the ABI: items, or an error.                      *)
Found(items) == [ok |-> TRUE, items |-> items]
Failed       == [ok |-> FALSE, items |-> <<>>]

(* The ABI converts all of an answer, or refuses it for one text.          *)
Carried(answer, Texts(_), Abi(_)) ==
    IF answer.ok /\ \A i \in DOMAIN answer.items : Exact(Texts(answer.items[i]))
    THEN Found(Each(Abi, answer.items)) ELSE Failed

(* The current fingerprints of an object: one of each algorithm and        *)
(* version, the last observed.                                             *)
CurrentPrints(past, type, field, id) ==
    LET mine == About(past, {type}, field, id) IN
    SelectSeq(mine, LAMBDA p : \A i \in DOMAIN mine :
        mine[i].nth > p.nth => <<mine[i].event.algorithm, mine[i].event.version>>
                                   # <<p.event.algorithm, p.event.version>>)
PrintValue(p) == <<"print", p.at>>
=============================================================================
