--------------------------- MODULE RevisionEvents ---------------------------
(***************************************************************************)
(* The semantic events of a revision and their four forms: the event that  *)
(* a transaction publishes, its row in revision_events, the struct of the  *)
(* C ABI and the payload object of the Python binding.  An event is a      *)
(* record of its type and of the fields this type has.                     *)
(***************************************************************************)
EXTENDS Projection, FiniteSets

(* The types, in the order of the codes that the table, the ABI and the    *)
(* filters share.                                                          *)
Types == <<
    "AssetImported", "RepresentationAdded", "ResourceAdded", "RepresentationResourceAdded",
    "LocatorAdded", "MediaRootAdded", "ExternalIdentifierAdded", "ExternalIdentifierRemoved",
    "MetadataAddedOrReplaced", "MetadataRemoved", "ActivityCreated", "ActivityInputAdded",
    "ActivityOutputAdded", "LocatorRetired", "MediaRootEnabledChanged", "MediaRootRemoved",
    "ResourceFingerprintObserved", "RepresentationFingerprintObserved", "DependencySetRecorded",
    "JobRequested", "JobClaimed", "JobClaimRenewed", "JobClaimReleased", "JobSucceeded",
    "JobFailed", "JobCancelled" >>

EventType == {Types[c] : c \in DOMAIN Types}
TypeCode  == [type \in EventType |-> Code(Types, type)]
JobEvent  == {Types[c] : c \in 20..26}
IdentifierEvent == {"ExternalIdentifierAdded", "ExternalIdentifierRemoved"}
MetadataEvent   == {"MetadataAddedOrReplaced", "MetadataRemoved"}
EdgeEvent       == {"ActivityInputAdded", "ActivityOutputAdded"}
LocatorEvent    == {"LocatorAdded", "LocatorRetired"}
RootEvent       == {"MediaRootAdded", "MediaRootEnabledChanged", "MediaRootRemoved"}
PrintEvent      == {"ResourceFingerprintObserved", "RepresentationFingerprintObserved"}

(* The fields of an event, by its type.                                    *)
Fields(type) ==
    CASE type = "AssetImported"               -> {"asset"}
      [] type = "RepresentationAdded"         -> {"asset", "representation"}
      [] type = "ResourceAdded"               -> {"resource"}
      [] type = "RepresentationResourceAdded" -> {"representation", "resource", "position"}
      [] type \in LocatorEvent                -> {"resource", "locator"}
      [] type = "MediaRootEnabledChanged"     -> {"media_root", "enabled"}
      [] type \in RootEvent                   -> {"media_root"}
      [] type \in IdentifierEvent             -> {"target", "scheme", "value", "qualifier"}
      [] type \in MetadataEvent               -> {"target", "vocabulary", "property"}
      [] type = "ActivityCreated"             -> {"activity", "kind"}
      [] type \in EdgeEvent                   -> {"activity", "representation", "role"}
      [] type = "ResourceFingerprintObserved" -> {"resource", "algorithm", "version"}
      [] type = "RepresentationFingerprintObserved" -> {"representation", "algorithm", "version"}
      [] type = "DependencySetRecorded"       -> {"representation"}
      [] OTHER                                -> {"job"}

Optional == {"qualifier", "role"}
Ids      == {"asset", "representation", "resource", "locator", "media_root", "activity", "job"}
Numbers  == {"position", "version"}

ASSUME NullIsNoField == Null \notin Ids \cup {"target"}

(* Every event has the fields of its type; identities are typed.           *)
IsEvent(e) ==
    /\ e.type \in EventType /\ DOMAIN e = Fields(e.type) \cup {"type"}
    /\ \A f \in DOMAIN e \cap Ids : e[f] = Id(f, Bytes(e[f])) /\ Bytes(e[f]) \in Nat
    /\ "target" \in DOMAIN e =>
          \E k \in DOMAIN Objects : e.target = Id(Objects[k], Bytes(e.target)) /\ Bytes(e.target) \in Nat
-----------------------------------------------------------------------------
(* stored_event: the columns a type fills, each from a field of the event. *)
Details == {"vocabulary", "property", "scheme", "value", "qualifier", "kind", "role",
            "algorithm", "version"}
Columns == {"target_kind", "primary", "secondary", "structural"} \cup Details

PrimaryOf(type) ==
    CASE type \in {"AssetImported"} -> "asset"
      [] type \in {"RepresentationAdded", "RepresentationResourceAdded", "DependencySetRecorded",
                   "RepresentationFingerprintObserved"} -> "representation"
      [] type \in {"ResourceAdded", "ResourceFingerprintObserved"} -> "resource"
      [] type \in LocatorEvent -> "locator"
      [] type \in RootEvent -> "media_root"
      [] type \in IdentifierEvent \cup MetadataEvent -> "target"
      [] type \in EdgeEvent \cup {"ActivityCreated"} -> "activity"
      [] OTHER -> "job"

SecondaryOf(type) ==
    CASE type = "RepresentationAdded" -> "asset"
      [] type \in LocatorEvent \cup {"RepresentationResourceAdded"} -> "resource"
      [] type \in EdgeEvent -> "representation"
      [] OTHER -> Null

Stored(e) ==
    LET primary == PrimaryOf(e.type)  secondary == SecondaryOf(e.type) IN
    [code |-> TypeCode[e.type],
     column |-> [c \in Columns |->
        CASE c = "primary" -> Bytes(e[primary])
          [] c = "secondary" -> IF secondary = Null THEN Null ELSE Bytes(e[secondary])
          [] c = "target_kind" -> IF primary = "target" THEN TargetKind(e.target) ELSE Null
          [] c = "structural" /\ "position" \in DOMAIN e -> e.position
          [] c = "structural" /\ "enabled" \in DOMAIN e -> IF e.enabled THEN 1 ELSE 0
          [] OTHER -> IF c \in DOMAIN e THEN e[c] ELSE Null]]

(* decode_revision_event: which column each field comes from.  A column    *)
(* that a type requires and that is NULL is a Storage error.               *)
NoEvent == [type |-> "error"]

ColumnOf(code, field) ==
    CASE field = "target" -> "target_kind"
      [] field \in {"position", "enabled"} -> "structural"
      [] field = "asset" -> IF code = 2 THEN "secondary" ELSE "primary"
      [] field = "representation" -> IF code \in {12, 13} THEN "secondary" ELSE "primary"
      [] field = "resource" -> IF code \in {4, 5, 14} THEN "secondary" ELSE "primary"
      [] field \in Ids -> "primary"
      [] OTHER -> field

Decoded(row) ==
    LET type == Types[row.code]
        At(field) == row.column[ColumnOf(row.code, field)] IN
    IF \E f \in Fields(type) \ Optional : At(f) = Null THEN NoEvent
    ELSE [f \in Fields(type) \cup {"type"} |->
            CASE f = "type" -> type
              [] f = "target" -> Target(row.column.target_kind, row.column.primary)
              [] f = "enabled" -> At(f) = 1
              [] f \in Ids -> Id(f, At(f))
              [] OTHER -> At(f)]
-----------------------------------------------------------------------------
(* The struct of the ABI has every field of every type; the ones an event  *)
(* does not have are zero, NULL or the reference without a kind.           *)
AllFields == UNION {Fields(t) : t \in EventType}

Projected(e) ==
    [kind |-> TypeCode[e.type],
     field |-> [f \in AllFields |->
        CASE f \notin DOMAIN e -> IF f = "target" THEN NoObject
                                  ELSE IF f \in Ids \cup Numbers \cup {"enabled"} THEN 0 ELSE Null
          [] f = "target" -> AbiObject(e.target)
          [] f = "enabled" -> IF e.enabled THEN 1 ELSE 0
          [] f \in Ids -> Bytes(e[f])
          [] OTHER -> e[f]]]

EventTexts(e) == {e[f] : f \in DOMAIN e \cap (Details \ Numbers)}

(* _revision_event_at: the payload class of the code, from its fields.     *)
Payload(v) ==
    [f \in Fields(Types[v.kind]) \cup {"type"} |->
        CASE f = "type" -> Types[v.kind]
          [] f = "target" -> PyObject(v.field.target)
          [] f = "enabled" -> v.field.enabled # 0
          [] f \in Ids -> Id(f, v.field[f])
          [] OTHER -> v.field[f]]

(* What a filter of the binding asks of the table: a payload class is the  *)
(* code of the ABI, the event type of the library, the code of the table.  *)
FilterCode(type)    == TypeCode[type]
FilteredType(code)  == Types[code]
StoredCode(type)    == TypeCode[type]
=============================================================================
