----------------------------- MODULE Inventory -----------------------------
(***************************************************************************)
(* media inventory: InventoryScanner::scan in processes that share a cache *)
(* file.                                                                   *)
(*                                                                         *)
(* A scan reads what the production knows, then the cache, then walks the  *)
(* roots and looks at one file after the other; it trusts a cached         *)
(* fingerprint of a file whose size and stamp are those of the entry, and  *)
(* does not read a file at all whose size no resource has.  It then sorts  *)
(* every file and resource into categories and replaces the cache through  *)
(* a temporary file, whose name all processes use.                         *)
(***************************************************************************)
EXTENDS MediaFiles

CONSTANTS
    ResourceOrder,     \* the order in which resources are loaded
    RootOrder,         \* media roots by priority
    Mappings,          \* sets of roots that calls map to directories
    MaxEntries         \* InventoryScanner::max_entries, the root counted

ASSUME OrdersAssumption == /\ ToSet(ResourceOrder) = Resource /\ ToSet(RootOrder) = Root
                           /\ ResourceOrder \in Seq(Resource) /\ RootOrder \in Seq(Root)
ASSUME EntriesAssumption == MaxEntries \in Nat
ASSUME MappingsAssumption == Mappings \subseteq SUBSET Root

Torn     == [form |-> "torn"]     \* not a complete JSON document
Cached(signature, entries) == [form |-> "cache", roots |-> signature, entries |-> entries]

(* An entry of the cache.  print is the digest, or Gone for a file that    *)
(* was not read; whole tells whether the file was still the one whose size *)
(* and stamp the entry has when it was read.                               *)
Entry(u, size, stamp, print, whole) ==
    [uri |-> u, size |-> size, stamp |-> stamp, print |-> print, whole |-> whole]

NewScan == [pc |-> "load", mapped |-> {}, usable |-> {}, known |-> {}, places |-> <<>>,
            cache |-> {}, roots |-> {}, todo |-> <<>>, seen |-> <<>>, visited |-> 0,
            items |-> {}, target |-> "none", since |-> 0]
-----------------------------------------------------------------------------
Item(kind, x, u) == [kind |-> kind, resource |-> x, uri |-> u]
Nil == Gone
Scanning(p) == "seen" \in DOMAIN call[p]

(* load_known_resources, and the roots of the production just opened.      *)
BeginScan(p, mapped) ==
    /\ \A q \in Searcher : Scanning(q) \/ Doing(q, "idle")
    /\ Begin(p, [NewScan EXCEPT
           !.mapped = mapped, !.usable = enabled, !.since = writes,
           !.known = Imported, !.places = locators,
           !.roots = enabled])

Signature(c) == c.usable \intersect c.mapped

(* A cache that is absent, torn or of other roots counts as empty.         *)
LoadCache(p) ==
    LET usable == cacheFile.form = "cache" /\ cacheFile.roots = Signature(call[p]) IN
    /\ Doing(p, "load")
    /\ Continue(p, [call[p] EXCEPT !.pc = "walk", !.cache = IF usable THEN cacheFile.entries ELSE {}])

(* The next root: reported when it cannot be walked.  The first entry of a *)
(* walk is the directory of the root.                                      *)
EnterRoot(p) ==
    LET c == call[p]
        r == FirstIn(RootOrder, c.roots)
        trouble == IF r \in c.mapped THEN "root unavailable" ELSE "root unmapped" IN
    /\ Scanning(p) /\ Doing(p, "walk") /\ c.todo = <<>> /\ c.roots # {}
    /\ Continue(p,
         IF ~(r \in c.mapped /\ Reachable(r))
         THEN [c EXCEPT !.roots = @ \ {r}, !.items = @ \union {Item(trouble, Nil, r)}]
         ELSE IF c.visited + 1 > MaxEntries THEN [c EXCEPT !.pc = "failed"]
         ELSE [c EXCEPT !.roots = @ \ {r}, !.todo = Under[r], !.visited = @ + 1])

(* fingerprint_sizes: only files of a size that some resource has are read. *)
Interesting(c, size) == \E x \in c.known \ SequenceResource : SizeOf[original[x]] = size

(* Variant: the size of a file is enough to trust the entry.               *)
Hits_BySize(c, u) == {e \in c.cache : e.uri = u /\ e.size = Size(u)}
Hits(c, u) == {e \in c.cache : e.uri = u /\ e.size = Size(u) /\ e.stamp = disk[u].stamp}

Noted(c, entry) == [c EXCEPT !.pc = "walk", !.todo = Tail(@), !.seen = Append(@, entry)]
Passed(c)       == [c EXCEPT !.todo = Tail(@), !.visited = @ + 1]

(* The metadata of the next entry decide whether its content is read.      *)
Visit(p) ==
    LET c == [call[p] EXCEPT !.visited = @ + 1]
        u == Head(c.todo) IN
    /\ Scanning(p) /\ Doing(p, "walk") /\ c.todo # <<>>
    /\ IF ~Present(u) THEN Continue(p, [call[p] EXCEPT !.todo = Tail(@)])
       ELSE IF c.visited > MaxEntries THEN Continue(p, [c EXCEPT !.pc = "failed"])
       ELSE IF u \in Folder THEN Continue(p, Passed(call[p]))
       ELSE IF ~Interesting(c, Size(u)) THEN
            Continue(p, Noted(c, Entry(u, Size(u), disk[u].stamp, Gone, TRUE)))
       ELSE IF Hits(c, u) # {} THEN Continue(p, Noted(c, CHOOSE e \in Hits(c, u) : TRUE))
       ELSE Continue(p, [c EXCEPT !.pc = "read",
                !.seen = Append(@, Entry(u, Size(u), disk[u].stamp, Gone, FALSE))])

(* fingerprint_file opens the path anew: it may find another file, or none. *)
ReadFile(p) ==
    LET c == call[p]
        e == Last(c.seen)
        read == [e EXCEPT !.print = Digest(e.uri), !.whole = disk[e.uri].stamp = e.stamp] IN
    /\ Doing(p, "read")
    /\ IF Present(e.uri)
       THEN Continue(p, [c EXCEPT !.pc = "walk", !.todo = Tail(@), !.seen = Append(Front(@), read)])
       ELSE Continue(p, [c EXCEPT !.pc = "failed"])
-----------------------------------------------------------------------------
Holders(c, u) == {x \in Resource : u \in c.places[x]}
LastOf(S)     == ResourceOrder[CHOOSE i \in DOMAIN ResourceOrder :
                    /\ ResourceOrder[i] \in S
                    /\ \A j \in (i + 1)..Len(ResourceOrder) : ResourceOrder[j] \notin S]

Alike(c, x, e) == /\ x \in c.known \ SequenceResource
                  /\ SizeOf[original[x]] = e.size /\ PrintOf(x) = e.print

(* A sequence has no size, and its fingerprint is never that of a file.    *)
AtLocator(c, e) ==
    LET x == LastOf(Holders(c, e.uri))
    IN  Item(IF Alike(c, x, e) THEN "known online" ELSE "changed", x, e.uri)

Elsewhere(c, e) ==
    LET matching == {x \in Resource : Alike(c, x, e)}
    IN  IF matching = {} THEN {Item("new candidate", Nil, e.uri)}
        ELSE IF Cardinality(matching) > 1 THEN {Item("ambiguous", Nil, e.uri)} ELSE {}

(* Visits, not places: a file below two roots is there twice.              *)
Candidates(c, x) == {i \in DOMAIN c.seen : Holders(c, c.seen[i].uri) = {} /\ Alike(c, x, c.seen[i])}

OfResource(c, x) ==
    LET found  == Candidates(c, x)
        online == \E u \in c.places[x] : Present(u) \/ \E i \in DOMAIN c.seen : c.seen[i].uri = u
    IN  IF Cardinality(found) > 1
        THEN {Item("duplicate", x, c.seen[i].uri) : i \in found}
             \union {Item("ambiguous", x, c.seen[i].uri) : i \in found}
        ELSE IF ~online /\ found = {} THEN {Item("missing", x, Nil)} ELSE {}

(* Frames that are not there, or required members of which some are.       *)
OfStructure(c, rep) ==
    LET members == ToSet(MembersOf[rep])
        needed  == members \intersect Required
        there   == {x \in needed : \E u \in c.places[x] : u = FirstOf(c.places[x]) /\ Present(u)}
        lead    == MembersOf[rep][1]
    IN  IF lead \in SequenceResource
        THEN IF \E u \in c.places[lead] : u = FirstOf(c.places[lead]) /\ Present(u) /\ Missing(lead, u) # {}
             THEN {Item("partial", lead, Nil)} ELSE {}
        ELSE IF there # {} /\ there # needed THEN {Item("partial", rep, Nil)} ELSE {}

Classified(c) ==
    LET at    == {i \in DOMAIN c.seen : Holders(c, c.seen[i].uri) # {}}
        reps  == {rep \in Representation : ToSet(MembersOf[rep]) \subseteq c.known}
    IN  c.items \union {AtLocator(c, c.seen[i]) : i \in at}
        \union (UNION {Elsewhere(c, c.seen[i]) : i \in DOMAIN c.seen \ at})
        \union (UNION {OfResource(c, x) : x \in c.known})
        \union (UNION {OfStructure(c, rep) : rep \in reps})

Classify(p) ==
    LET c == call[p] IN
    /\ Scanning(p) /\ Doing(p, "walk") /\ c.todo = <<>> /\ c.roots = {}
    /\ Continue(p, [c EXCEPT !.pc = "create", !.items = Classified(c)])
-----------------------------------------------------------------------------
(* persist_cache: create or truncate the temporary file, write it, rename  *)
(* it.  A process keeps writing to the file it has opened, wherever other  *)
(* processes have moved it meanwhile.                                      *)
CreateTemporary(p) ==
    /\ Doing(p, "create")
    /\ call' = [call EXCEPT ![p].pc = "write", ![p].target = "temporary"]
    /\ tmpFile' = Torn
    /\ UNCHANGED <<world, cacheFile, calls>>

(* What another process has written to the same file before may show       *)
(* through behind a shorter document.                                      *)
Mine(p) == Cached(Signature(call[p]), ToSet(call[p].seen))
Writes(p, file, written) == written = Mine(p) \/ file # Torn

WriteTemporary(p) ==
    LET target == call[p].target IN
    /\ Doing(p, "write")
    /\ call' = [call EXCEPT ![p].pc = "rename"]
    /\ \E written \in {Mine(p), Torn} :
          /\ target = "temporary" => Writes(p, tmpFile, written)
          /\ target = "cache"     => Writes(p, cacheFile, written)
          /\ tmpFile'   = IF target = "temporary" THEN written ELSE tmpFile
          /\ cacheFile' = IF target = "cache" THEN written ELSE cacheFile
    /\ UNCHANGED <<world, calls>>

MovedOn(target) == IF target = "temporary" THEN "cache" ELSE "nowhere"

RenameTemporary(p) ==
    LET there == tmpFile # Absent
        others == {q \in Searcher \ {p} : there /\ Doing(q, "write")} IN
    /\ Doing(p, "rename")
    /\ call' = [q \in Searcher |->
          IF q = p THEN [call[p] EXCEPT !.pc = IF there THEN "done" ELSE "failed"]
          ELSE IF q \in others THEN [call[q] EXCEPT !.target = MovedOn(@)]
          ELSE call[q]]
    /\ cacheFile' = IF there THEN tmpFile ELSE cacheFile
    /\ tmpFile' = Absent
    /\ UNCHANGED <<world, calls>>

(* The report is printed, or the call has failed, or the process dies with *)
(* the cache half replaced.  One that dies earlier leaves nothing behind   *)
(* and is a scan that takes no further step.                               *)
EndScan(p) ==
    /\ Scanning(p) /\ call[p].pc \in {"done", "failed", "write", "rename"}
    /\ Continue(p, Asleep)

DeleteCache ==
    /\ cacheFile # Absent /\ Touches
    /\ cacheFile' = Absent
    /\ UNCHANGED <<disk, mounted, catalogue, call, tmpFile, calls>>

InventoryNext ==
    \/ \E p \in Searcher :
          \/ \E mapped \in Mappings : BeginScan(p, mapped)
          \/ LoadCache(p) \/ EnterRoot(p) \/ Visit(p) \/ ReadFile(p) \/ Classify(p)
          \/ CreateTemporary(p) \/ WriteTemporary(p) \/ RenameTemporary(p) \/ EndScan(p)
    \/ DeleteCache
-----------------------------------------------------------------------------
(* Entries for the size and stamp of a file that do not vouch for it: what *)
(* was read in its place was another file, or nothing was read at all.     *)
Fitting(c, u)  == {e \in c.cache : e.uri = u /\ e.size = Size(u) /\ e.stamp = disk[u].stamp}
Replaced(c, u) == \E e \in Fitting(c, u) : ~e.whole
Doubtful(c, u) == Replaced(c, u) \/ \E e \in Fitting(c, u) : e.print = Gone

(* The file at u is what was imported as x, as far as scan c can know.     *)
Shows(c, u, x) == x \in c.known \ SequenceResource /\ Digest(u) = PrintOf(x)

(* The files in sight, and those of them at no known locator: only they    *)
(* are credible candidates for a resource.                                 *)
Sight(c) == InSight(c.usable, c.mapped) \intersect File
Free(c)  == {u \in Sight(c) : Holders(c, u) = {}}

Says(c, kind, x, u) == Item(kind, x, u) \in c.items

(* Items about files at known locators.                                    *)
HeldAreTrue(c) ==
    /\ \A u \in Sight(c) \ Free(c) : \E x \in Holders(c, u) :
         Says(c, "known online", x, u) \/ Says(c, "changed", x, u)
    /\ \A x \in Resource, u \in Place :
         /\ Says(c, "known online", x, u) =>
              u \in Sight(c) /\ x \in Holders(c, u) /\ (Shows(c, u, x) \/ Replaced(c, u))
         /\ Says(c, "changed", x, u) =>
              u \in Sight(c) /\ x \in Holders(c, u) /\ (Shows(c, u, x) => Doubtful(c, u))

(* Items about the others.                                                 *)
NewAreTrue(c) ==
    \A u \in Free(c) :
        /\ Says(c, "new candidate", Nil, u) => \A x \in Resource : Shows(c, u, x) => Doubtful(c, u)
        /\ \/ Says(c, "new candidate", Nil, u) \/ Replaced(c, u)
           \/ \E x \in Resource : Shows(c, u, x)

DuplicatesAreTrue(c) ==
    /\ \A x \in Resource, u \in Place : Says(c, "duplicate", x, u) =>
         /\ u \in Free(c) /\ (Shows(c, u, x) \/ Replaced(c, u))
         /\ \/ Cardinality(Within(u)) > 1
            \/ \E w \in Free(c) \ {u} : Shows(c, w, x) \/ Replaced(c, w)
    /\ \A x \in c.known, u, w \in Free(c) :
         Shows(c, u, x) /\ Shows(c, w, x) =>
           u = w \/ Says(c, "duplicate", x, u) \/ Doubtful(c, u) \/ Doubtful(c, w)

(* Items about resources of which nothing is to be found.                  *)
MissingAreTrue(c) ==
    \A x \in c.known :
        /\ Says(c, "missing", x, Nil) => /\ \A u \in c.places[x] : ~Present(u)
                                         /\ \A u \in Free(c) : Shows(c, u, x) => Doubtful(c, u)
        /\ \/ Says(c, "missing", x, Nil) \/ \E u \in c.places[x] : Present(u)
           \/ \E u \in Free(c) : Shows(c, u, x) \/ Replaced(c, u)

(* The report of scan c agrees with the files.                             *)
ReportIsTrue(c) == HeldAreTrue(c) /\ NewAreTrue(c) /\ DuplicatesAreTrue(c) /\ MissingAreTrue(c)

(* What a scan reports of files that did not change while it ran is true   *)
(* of them, whoever else writes to the cache.  Every file in sight at a    *)
(* known locator is called online or changed, every other one is a match   *)
(* or called new, and two matches are called duplicates, as the contents   *)
(* say; and a resource is called missing if and only if nothing is at its  *)
(* locators and no file in sight at no known locator has its content.  The *)
(* contents of directories and of files at locators of other resources are *)
(* not compared, so a sequence that was moved is missing, and a file that  *)
(* was moved over another one.                                             *)
(*                                                                         *)
(* Excepted are files of which the cache has an entry with their size and  *)
(* stamp that does not vouch for them.  One that was never read hides what *)
(* the file is: it may be called changed or new, and a resource missing,   *)
(* but nothing is called online or a duplicate for it.  One that was read  *)
(* from another file may make the file anything.                           *)
ScanIsTruthful ==
    \A p \in Searcher :
        Scanning(p) /\ call[p].pc = "done" /\ call[p].since = writes => ReportIsTrue(call[p])
=============================================================================
