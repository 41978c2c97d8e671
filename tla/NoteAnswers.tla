----------------------------- MODULE NoteAnswers -----------------------------
(***************************************************************************)
(* What a client is told of what others noted: the external identifiers of *)
(* an object, the objects that carry one, the metadata of an object, and   *)
(* the revisions with their events.                                        *)
(***************************************************************************)
EXTENDS MetadataValues

CONSTANT Written(_)   \* the metadata value a writer of some detail enters

LOCAL INSTANCE SequencesExt

(* Identifiers: the ones added and not removed since, as rows.             *)
Same(d, e, fields) == \A f \in fields : d.event[f] = e.event[f]
Standing(past, added, removed, fields) ==
    LET all == Of(past, {added, removed}) IN
    SelectSeq(all, LAMBDA d : d.event.type = added
                     /\ \A i \in DOMAIN all : all[i].nth > d.nth => ~Same(all[i], d, fields))

IdentifierRows(past) ==
    Standing(past, "ExternalIdentifierAdded", "ExternalIdentifierRemoved",
             {"target", "scheme", "value", "qualifier"})

Identifiers(p, target) ==
    Found(Each(LAMBDA d : [scheme |-> d.event.scheme, value |-> d.event.value,
                           qualifier |-> d.event.qualifier],
               SelectSeq(IdentifierRows(p[1]), LAMBDA d : d.event.target = target)))

IdentifierTexts(x) == {x.scheme, x.value, x.qualifier}
AbiIdentifier(x)   == [scheme |-> x.scheme, value |-> x.value, qualifier |-> x.qualifier]
PyIdentifier(v)    == [scheme |-> v.scheme, value |-> v.value, qualifier |-> v.qualifier]
IdentifierSet(answer) == Carried(answer, IdentifierTexts, AbiIdentifier)
IdentifiersIn(native) == Each(PyIdentifier, native)

(* The distinct objects that carry an identifier.                          *)
TargetsOf(p, scheme, value) ==
    LET rows == {d.event : d \in ToSet(IdentifierRows(p[1]))}
        pairs == {<<TargetKind(e.target), Bytes(e.target)>> :
                     e \in {r \in rows : r.scheme = scheme /\ r.value = value}}
        order(a, b) == a[1] < b[1] \/ (a[1] = b[1] /\ a[2] < b[2])
    IN Found(Each(LAMBDA pair : Target(pair[1], pair[2]), SetToSortSeq(pairs, order)))

FoundSet(answer) == Carried(answer, LAMBDA x : {}, AbiObject)
FoundIn(native)  == Each(PyObject, native)
-----------------------------------------------------------------------------
(* Metadata: an assertion is stored as the encoding of its value.          *)
MetadataRows(details, past, target) ==
    Each(LAMBDA d : [vocabulary |-> d.event.vocabulary, property |-> d.event.property,
                     encoded |-> Encode(Entered(Written(details)))],
         SelectSeq(Standing(past, "MetadataAddedOrReplaced", "MetadataRemoved",
                            {"target", "vocabulary", "property"}),
                   LAMBDA d : d.event.target = target))

Metadata(details, p, target) ==
    LET rows == MetadataRows(details, p[1], target) IN
    IF \E row \in ToSet(rows) : ~Decode(row.encoded).ok THEN Failed
    ELSE Found(Each(LAMBDA row : [target |-> target, vocabulary |-> row.vocabulary,
                                  property |-> row.property, value |-> Decode(row.encoded).value],
                    rows))

AssertionTexts(x) == {x.vocabulary, x.property} \cup ValueTexts(x.value)
AbiAssertion(x) == [target |-> AbiObject(x.target), vocabulary |-> x.vocabulary,
                    property |-> x.property, value |-> AbiValue(x.value)]
PyAssertion(v)  == [target |-> PyObject(v.target), vocabulary |-> v.vocabulary,
                    property |-> v.property, value |-> PyValue(v.value)]
MetadataSet(answer) == Carried(answer, AssertionTexts, AbiAssertion)
MetadataIn(native)  == Each(PyAssertion, native)
-----------------------------------------------------------------------------
(* Revisions: an origin needs its name.                                    *)
OriginFrom(name, version, uri) ==
    IF name = Null THEN Null ELSE [name |-> name, version |-> version, uri |-> uri]

RevisionRows(details, past) ==
    {[id |-> Id("revision", d.at), sequence |-> d.at, transaction |-> Id("transaction", d.at),
      committed_at |-> 0, origin_name |-> Maybe(details, "origin"),
      origin_version |-> IF details = "full" THEN "1" ELSE Null, origin_uri |-> Null,
      message |-> IF details = "odd" THEN "message" ELSE Null] : d \in ToSet(past)}

DecodedRevision(row) ==
    [id |-> row.id, sequence |-> row.sequence, transaction |-> row.transaction,
     committed_at |-> row.committed_at, message |-> row.message,
     origin |-> OriginFrom(row.origin_name, row.origin_version, row.origin_uri)]

ChangesSince(details, p, after) ==
    Found(Each(DecodedRevision,
        ById({row \in RevisionRows(details, p[1]) : row.sequence > after})))

OriginPart(x, field) == Part(x.origin, field)
RevisionTexts(x) == {OriginPart(x, "name"), OriginPart(x, "version"), OriginPart(x, "uri"), x.message}
AbiRevision(x) ==
    [id |-> Bytes(x.id), sequence |-> x.sequence, transaction |-> Bytes(x.transaction),
     committed_at |-> x.committed_at, origin_name |-> OriginPart(x, "name"),
     origin_version |-> OriginPart(x, "version"), origin_uri |-> OriginPart(x, "uri"),
     message |-> x.message]
PyRevision(v) ==
    [id |-> Id("revision", v.id), sequence |-> v.sequence,
     transaction |-> Id("transaction", v.transaction), committed_at |-> v.committed_at,
     message |-> v.message,
     origin |-> OriginFrom(v.origin_name, v.origin_version, v.origin_uri)]
RevisionSet(answer) == Carried(answer, RevisionTexts, AbiRevision)
RevisionsIn(native) == Each(PyRevision, native)

(* The events of a revision: NotFound, or each of its rows decoded.        *)
EventsOf(p, sequence) ==
    LET mine == SelectSeq(p[2], LAMBDA d : d.at = sequence)
        events == Each(LAMBDA d : Decoded(Stored(d.event)), mine)
    IN IF \A d \in ToSet(p[1]) : d.at # sequence THEN Failed
       ELSE IF NoEvent \in ToSet(events) THEN Failed ELSE Found(events)

EventSet(answer) == Carried(answer, EventTexts, Projected)
EventsIn(native) == Each(Payload, native)
=============================================================================
