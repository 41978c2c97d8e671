----------------------------- MODULE MediaFiles -----------------------------
(***************************************************************************)
(* What a search for media looks at: the files and directories of one      *)
(* machine, and the catalogue of one production, which says what every     *)
(* resource looked like when it was imported and where it has been seen.   *)
(*                                                                         *)
(* Both change while somebody searches.  A place holds a version of some   *)
(* media with the stamp (modification time) of its last write; a move      *)
(* takes the stamp along, and no two writes have the same one.  Versions   *)
(* are opaque: a size, a digest, for an image sequence the frames that are *)
(* there.                                                                  *)
(***************************************************************************)
EXTENDS Naturals, FiniteSets, Sequences, SequencesExt

CONSTANTS
    File, Folder,      \* places that may hold a file, an image sequence
    Gone,              \* the version of a place that holds nothing
    FileVersion, FolderVersion,
    SizeOf,            \* bytes of a file version
    DigestOf,          \* its fingerprint: of all of it, or of samples
    HashedInFull,      \* file versions small enough to be read completely
    Frame, FramesIn,   \* frames of sequences; those a version holds
    Declared, Sampled, \* frames a sequence declares; those its fingerprint
                       \* is computed from
    Resource, SequenceResource,
    Representation, MembersOf, Required,
    Root, Under,       \* media roots, the places below each in walking order
    PlaceOrder,        \* all places in the order of their URIs
    FirstDisk, FirstPlaces,
    Searcher,          \* processes that scan and resolve
    MaxEvents          \* bound: changes of any kind and calls, together

Place   == File \union Folder
Version == FileVersion \union FolderVersion

ASSUME KindsAssumption == /\ File \intersect Folder = {} /\ Gone \notin Version
                          /\ SequenceResource \subseteq Resource /\ Required \subseteq Resource
ASSUME FramesAssumption == /\ IsFiniteSet(Frame)
                           /\ \A x \in SequenceResource : /\ Declared[x] \subseteq Frame
                                                        /\ Sampled[x] \subseteq Declared[x]
(* A walk comes past every entry once.                                     *)
ASSUME PlacesAssumption == /\ PlaceOrder \in Seq(Place) /\ ToSet(PlaceOrder) = Place
                           /\ \A r \in Root : Under[r] \in Seq(Place) /\ IsInjective(Under[r])
ASSUME BoundAssumption == MaxEvents \in Nat

(* Fingerprints hash the size of a file along with its samples; no two     *)
(* contents that were read completely have the same one.                   *)
ASSUME DigestAssumption ==
    /\ \A v, w \in FileVersion : DigestOf[v] = DigestOf[w] =>
          SizeOf[v] = SizeOf[w] /\ (v \in HashedInFull => v = w)
    /\ \A v \in FileVersion : DigestOf[v] # Gone

VARIABLES
    disk,      \* what each place holds: a version and its stamp
    mounted,   \* roots whose directory is there
    original,  \* what was imported as each resource, Gone before the import
    locators,  \* the places recorded for each resource
    enabled,   \* media roots that may be searched
    writes,    \* changes to the files so far
    commits,   \* changes to the catalogue so far
    call,      \* the call that each process makes, [pc |-> "idle"] when none
    calls,     \* calls so far
    cacheFile, \* the cache of the inventory
    tmpFile    \* the temporary file that replaces it

files     == <<disk, mounted, writes>>
catalogue == <<original, locators, enabled, commits>>
world     == <<files, catalogue>>
processes == <<call, calls, cacheFile, tmpFile>>
mediaVars == <<world, processes>>

Asleep == [pc |-> "idle"]
Absent == [form |-> "absent"]

ASSUME FirstAssumption ==
    /\ DOMAIN FirstDisk \subseteq Place /\ DOMAIN FirstPlaces \subseteq Resource
    /\ \A u \in DOMAIN FirstDisk : FirstDisk[u] \in (IF u \in File THEN FileVersion ELSE FolderVersion)
    /\ \A x \in DOMAIN FirstPlaces : /\ FirstPlaces[x] \in DOMAIN FirstDisk
                                     /\ FirstPlaces[x] \in Folder <=> x \in SequenceResource

Age(u) == CHOOSE i \in DOMAIN PlaceOrder : PlaceOrder[i] = u
Held(v, stamp) == [version |-> v, stamp |-> stamp]
Nothing == Held(Gone, 0)

MediaInit ==
    /\ disk = [u \in Place |-> IF u \in DOMAIN FirstDisk THEN Held(FirstDisk[u], Age(u)) ELSE Nothing]
    /\ locators = [x \in Resource |-> IF x \in DOMAIN FirstPlaces THEN {FirstPlaces[x]} ELSE {}]
    /\ original = [x \in Resource |-> IF x \in DOMAIN FirstPlaces THEN FirstDisk[FirstPlaces[x]] ELSE Gone]
    /\ mounted = Root /\ enabled = Root
    /\ writes = 0 /\ commits = 0 /\ calls = 0
    /\ call = [p \in Searcher |-> Asleep]
    /\ cacheFile = Absent /\ tmpFile = Absent
-----------------------------------------------------------------------------
Within(u) == {r \in Root : u \in ToSet(Under[r])}
Encloses(q, r) == ToSet(Under[r]) \subseteq ToSet(Under[q])

(* What a process finds: nothing below a root that is not mounted.         *)
Present(u)   == disk[u].version # Gone /\ Within(u) \subseteq mounted
Reachable(r) == {q \in Root : Encloses(q, r)} \subseteq mounted
Size(u)      == SizeOf[disk[u].version]
Digest(u)    == DigestOf[disk[u].version]
Missing(x, u) == Declared[x] \ FramesIn[disk[u].version]

Imported     == {x \in Resource : original[x] # Gone}
PrintOf(x)   == DigestOf[original[x]]
Kind(x)      == IF x \in SequenceResource THEN Folder ELSE File

(* The first of a set in an order; of a set of places, by their URIs.      *)
FirstIn(order, S) == order[CHOOSE i \in DOMAIN order :
                        /\ order[i] \in S
                        /\ \A j \in 1..(i - 1) : order[j] \notin S]
FirstOf(S) == FirstIn(PlaceOrder, S)
-----------------------------------------------------------------------------
HasRoom        == writes + commits + calls < MaxEvents
Doing(p, pc)   == call[p].pc = pc
Continue(p, c) == call' = [call EXCEPT ![p] = c] /\ UNCHANGED <<world, calls, cacheFile, tmpFile>>
Begin(p, c)    == /\ Doing(p, "idle") /\ HasRoom /\ calls' = calls + 1
                  /\ call' = [call EXCEPT ![p] = c]
                  /\ UNCHANGED <<world, cacheFile, tmpFile>>
-----------------------------------------------------------------------------
(* People and programs that know nothing of the production.                *)
Touches == HasRoom /\ writes' = writes + 1

Write(u, v) ==
    /\ Touches /\ Within(u) \subseteq mounted
    /\ v \in (IF u \in File THEN FileVersion ELSE FolderVersion)
    /\ disk' = [disk EXCEPT ![u] = Held(v, Len(PlaceOrder) + writes + 1)]
    /\ UNCHANGED <<mounted, catalogue, processes>>

Move(u, w) ==
    /\ Touches /\ Present(u) /\ u # w /\ (u \in File <=> w \in File)
    /\ Within(w) \subseteq mounted
    /\ disk' = [disk EXCEPT ![w] = disk[u], ![u] = Nothing]
    /\ UNCHANGED <<mounted, catalogue, processes>>

Delete(u) ==
    /\ Touches /\ Present(u)
    /\ disk' = [disk EXCEPT ![u] = Nothing]
    /\ UNCHANGED <<mounted, catalogue, processes>>

Remount(r) ==
    /\ Touches
    /\ mounted' = SymDiff(mounted, {r})
    /\ UNCHANGED <<disk, catalogue, processes>>

(* Other hosts of the production, each with one committed transaction.     *)
Commits == HasRoom /\ commits' = commits + 1

(* All resources of a representation at once, as their files are now.      *)
Import(rep, at) ==
    LET new == ToSet(MembersOf[rep]) IN
    /\ Commits /\ new \intersect Imported = {}
    /\ \A x \in new : at[x] \in Kind(x) /\ Present(at[x])
    /\ \A x \in new \intersect SequenceResource : Missing(x, at[x]) \intersect Sampled[x] = {}
    /\ original' = [x \in Resource |-> IF x \in new THEN disk[at[x]].version ELSE original[x]]
    /\ locators' = [x \in Resource |-> IF x \in new THEN {at[x]} ELSE locators[x]]
    /\ UNCHANGED <<enabled, files, processes>>

AddLocator(x, u) ==
    /\ Commits /\ u \notin locators[x]
    /\ locators' = [locators EXCEPT ![x] = @ \union {u}]
    /\ UNCHANGED <<original, enabled, files>>

RetireLocator(x, u) ==
    /\ Commits /\ u \in locators[x]
    /\ locators' = [locators EXCEPT ![x] = @ \ {u}]
    /\ UNCHANGED <<original, enabled, files, processes>>

SetRootEnabled(r) ==
    /\ Commits
    /\ enabled' = SymDiff(enabled, {r})
    /\ UNCHANGED <<original, locators, files, processes>>

WorldNext ==
    \/ \E u \in Place : Delete(u) \/ (\E v \in Version : Write(u, v)) \/ (\E w \in Place : Move(u, w))
    \/ \E r \in Root : Remount(r) \/ SetRootEnabled(r)
    \/ \E rep \in Representation : \E at \in [ToSet(MembersOf[rep]) -> Place] : Import(rep, at)
    \/ \E x \in Imported, u \in Place : RetireLocator(x, u)
-----------------------------------------------------------------------------
(* Where a search with these mappings looks, and what it can find there.   *)
Searched(usable, mapped) == {r \in usable \intersect mapped : Reachable(r)}
InSight(usable, mapped)  == {u \in Place : Present(u) /\ Within(u) \intersect Searched(usable, mapped) # {}}
=============================================================================
