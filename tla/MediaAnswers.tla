---------------------------- MODULE MediaAnswers ----------------------------
(***************************************************************************)
(* What a client is told of media: the assets, the media roots, and the    *)
(* representations of an asset with their resources, fingerprints and      *)
(* locators.  Read from their tables, carried by the C ABI, rebuilt by the *)
(* binding.                                                                *)
(***************************************************************************)
EXTENDS Answers

LOCAL INSTANCE SequencesExt

(* A text that nobody validates: only an odd writer puts a NUL into it.    *)
Unchecked(details, text) ==
    CASE details = "bare" -> Null [] details = "full" -> text [] OTHER -> Nul
-----------------------------------------------------------------------------
(* Assets and media roots.                                                 *)
Assets(details, p) ==
    LET imported == Of(p[1], {"AssetImported"}) IN
    Found(ById({[id |-> d.event.asset, created_at |-> d.at,
                 display_name |-> Unchecked(details, "name"),
                 import_source |-> Maybe(details, "source")] : d \in ToSet(imported)}))

AssetTexts(x) == {x.display_name, x.import_source}
AbiAsset(x) == [id |-> Bytes(x.id), created_at |-> x.created_at,
                display_name |-> x.display_name, import_source |-> x.import_source]
PyAsset(v)  == [id |-> Id("asset", v.id), created_at |-> v.created_at,
                display_name |-> v.display_name, import_source |-> v.import_source]
AssetSet(answer) == Carried(answer, AssetTexts, AbiAsset)
AssetsIn(native) == Each(PyAsset, native)

(* The list that the connection read when it was opened or last changed.   *)
RootHistory(past, root) == About(past, RootEvent, "media_root", root)

MediaRootsOf(details, p) ==
    LET past == p[1]
        State(root) == Last(RootHistory(past, root)).event
        there == {root \in {d.event.media_root : d \in ToSet(Of(past, {"MediaRootAdded"}))} :
                    State(root).type # "MediaRootRemoved"}
    IN Found(ById({[id |-> root, name |-> "root", label |-> Unchecked(details, "label"),
                    legacy_uri |-> Maybe(details, "uri"), priority |-> 0,
                    enabled |-> ~(State(root).type = "MediaRootEnabledChanged"
                                    /\ ~State(root).enabled)] : root \in there}))

RootTexts(x)  == {x.name, x.label, x.legacy_uri}
AbiRoot(x) == [id |-> Bytes(x.id), name |-> x.name, label |-> x.label,
               legacy_uri |-> x.legacy_uri, priority |-> x.priority,
               enabled |-> IF x.enabled THEN 1 ELSE 0]
PyRoot(v)  == [id |-> Id("media_root", v.id), name |-> v.name, label |-> v.label,
               legacy_uri |-> v.legacy_uri, priority |-> v.priority, enabled |-> v.enabled # 0]
RootSet(answer) == Carried(answer, RootTexts, AbiRoot)
RootsIn(native) == Each(PyRoot, native)
-----------------------------------------------------------------------------
(* Representations.  The structure of a content, by the code of its row:   *)
(* one resource, a sequence of frames in one, or members with their roles. *)
Structures     == <<"single", "sequence", "ordered", "package">>
Availabilities == <<"unknown", "online", "offline">>

RepresentationRow(details, d) ==
    [id |-> d.event.representation, asset |-> d.event.asset,
     kind |-> IF Bytes(d.event.representation) = 1 THEN 0 ELSE 1,
     structure_kind |-> CASE details = "bare" -> 0 [] details = "full" -> 1 [] OTHER -> 3]

MemberRows(past, row) ==
    Each(LAMBDA d : [resource |-> d.event.resource,
                     role |-> IF row.structure_kind < 2 THEN Null ELSE "role",
                     required |-> row.structure_kind < 2 \/ d.event.position = 0],
         SortSeq(About(past, {"RepresentationResourceAdded"}, "representation", row.id),
                 LAMBDA a, b : a.event.position < b.event.position))

SequenceRow(past, row) ==
    IF row.structure_kind # 1 THEN Null
    ELSE [resource |-> MemberRows(past, row)[1].resource, prefix |-> "prefix", suffix |-> "suffix",
          padding |-> 4, start |-> 1, end |-> 9, step |-> 2, rate |-> <<24, 1>>, missing |-> <<5>>]

(* content structure of a row; what does not fit its code is an error.     *)
NoStructure == [kind |-> "error"]
Structure(row, members, sequence) ==
    LET sole == Len(members) = 1 /\ members[1].role = Null /\ members[1].required
        code == row.structure_kind
    IN CASE code = 0 /\ sole -> [kind |-> Structures[1], members |-> members, sequence |-> Null]
         [] code = 1 /\ sole /\ sequence # Null /\ sequence.resource = members[1].resource ->
               [kind |-> Structures[2], members |-> members, sequence |-> sequence]
         [] code \in {2, 3} /\ members # <<>> /\ (\A i \in DOMAIN members : members[i].role # Null) ->
               [kind |-> Structures[code + 1], members |-> members, sequence |-> Null]
         [] OTHER -> NoStructure

PrintsNow(past, type, field, id) ==
    Each(LAMBDA p : [algorithm |-> p.event.algorithm, version |-> p.event.version,
                     value |-> PrintValue(p)],
         CurrentPrints(past, type, field, id))

(* A modification time without a size is an error of the store.            *)
FileFacts(details) ==
    CASE details = "bare" -> Null
      [] details = "full" -> [size |-> 7, modified_at |-> 0]
      [] OTHER            -> [size |-> 7, modified_at |-> Null]

LocatorsOf(details, past, resource) ==
    LET mine == About(past, {"LocatorAdded"}, "resource", resource)
        retired == {d.event.locator : d \in ToSet(Of(past, {"LocatorRetired"}))}
    IN Each(LAMBDA d : [id |-> d.event.locator, uri |-> "uri", media_root |-> Maybe(details, "root"),
                        availability |-> Availabilities[IF details = "odd" THEN 3 ELSE 1],
                        last_seen |-> IF details = "full" THEN 0 ELSE Null],
            SelectSeq(mine, LAMBDA d : d.event.locator \notin retired))

ResourcesOf(details, past, later, row) ==
    Each(LAMBDA m : [id |-> m.resource, file_facts |-> FileFacts(details),
                     fingerprints |-> PrintsNow(past, "ResourceFingerprintObserved", "resource",
                                                m.resource),
                     locators |-> LocatorsOf(details, later, m.resource)],
         MemberRows(past, row))

(* pp_production_representations: the asset must exist; the rows of its    *)
(* representations, the members with the descriptors of sequences, the     *)
(* fingerprints, then the resources of each and the locators of those.     *)
Representations(details, p, asset) ==
    LET rows == {RepresentationRow(details, d) :
                    d \in ToSet(About(p[1], {"RepresentationAdded"}, "asset", asset))}
        StructureOf(row) == Structure(row, MemberRows(p[2], row), SequenceRow(p[2], row))
    IN IF Of(p[1], {"AssetImported"}) = <<>> \/ \E row \in rows : StructureOf(row) = NoStructure
       THEN Failed
       ELSE Found(ById({[id |-> row.id, asset |-> row.asset, kind |-> Kinds[row.kind + 1],
                         structure |-> StructureOf(row),
                         fingerprints |-> PrintsNow(p[3], "RepresentationFingerprintObserved",
                                                    "representation", row.id),
                         resources |-> ResourcesOf(details, p[4], p[5], row)] : row \in rows}))

RepresentationTexts(x) ==
    {m.role : m \in ToSet(x.structure.members)}
    \cup {f.algorithm : f \in ToSet(x.fingerprints)}
    \cup UNION {{l.uri : l \in ToSet(r.locators)} \cup {f.algorithm : f \in ToSet(r.fingerprints)}
                   : r \in ToSet(x.resources)}

AbiMember(m)   == [resource |-> Bytes(m.resource), role |-> m.role,
                   required |-> IF m.required THEN 1 ELSE 0]
AbiSequence(s) == IF s = Null THEN Null ELSE [s EXCEPT !.resource = Bytes(@)]
AbiLocator(l)  == [id |-> Bytes(l.id), uri |-> l.uri,
                   availability |-> Code(Availabilities, l.availability),
                   has_last_seen |-> Flag(l.last_seen), last_seen |-> OrZero(l.last_seen)]
AbiResource(r) ==
    LET modified_at == Part(r.file_facts, "modified_at") IN
    [id |-> Bytes(r.id), has_file_facts |-> Flag(r.file_facts),
     file_size |-> OrZero(Part(r.file_facts, "size")),
     has_modified_at |-> Flag(modified_at), modified_at |-> OrZero(modified_at),
     fingerprints |-> r.fingerprints, locators |-> Each(AbiLocator, r.locators)]
AbiRepresentation(x) ==
    [id |-> Bytes(x.id), asset |-> Bytes(x.asset), kind |-> Code(Kinds, x.kind),
     structure_kind |-> Code(Structures, x.structure.kind),
     members |-> Each(AbiMember, x.structure.members), sequence |-> AbiSequence(x.structure.sequence),
     fingerprints |-> x.fingerprints, resources |-> Each(AbiResource, x.resources)]

PyMember(v)   == [resource |-> Id("resource", v.resource), role |-> v.role,
                  required |-> v.required # 0]
PySequence(v) == [f \in DOMAIN v \ {"resource"} |-> v[f]]
PyLocator(v)  == [id |-> Id("locator", v.id), uri |-> v.uri,
                  availability |-> Availabilities[v.availability],
                  last_seen |-> Given(v.has_last_seen, v.last_seen)]
PyResource(v) ==
    [id |-> Id("resource", v.id), size |-> Given(v.has_file_facts, v.file_size),
     modified_at |-> Given(v.has_modified_at, v.modified_at),
     fingerprints |-> v.fingerprints, locators |-> Each(PyLocator, v.locators)]
PyRepresentation(v) ==
    [id |-> Id("representation", v.id), asset |-> Id("asset", v.asset), kind |-> Kinds[v.kind],
     structure |-> Structures[v.structure_kind], members |-> Each(PyMember, v.members),
     sequence |-> IF Structures[v.structure_kind] = "sequence" THEN PySequence(v.sequence) ELSE Null,
     fingerprints |-> v.fingerprints, resources |-> Each(PyResource, v.resources)]

RepresentationSet(answer) == Carried(answer, RepresentationTexts, AbiRepresentation)
RepresentationsIn(native) == Each(PyRepresentation, native)

(* What the binding can say of a representation: the same, but its locators*)
(* have lost their media roots.                                            *)
Without(fields, x) == [f \in DOMAIN x \ fields |-> x[f]]
SaidOfResource(r) ==
    [id |-> r.id, size |-> Part(r.file_facts, "size"),
     modified_at |-> Part(r.file_facts, "modified_at"), fingerprints |-> r.fingerprints,
     locators |-> Each(LAMBDA l : Without({"media_root"}, l), r.locators)]
SaidOfRepresentation(x) ==
    [id |-> x.id, asset |-> x.asset, kind |-> x.kind, structure |-> x.structure.kind,
     members |-> x.structure.members,
     sequence |-> IF x.structure.sequence = Null THEN Null
                  ELSE Without({"resource"}, x.structure.sequence),
     fingerprints |-> x.fingerprints, resources |-> Each(SaidOfResource, x.resources)]
=============================================================================
