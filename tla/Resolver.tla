------------------------------ MODULE Resolver ------------------------------
(***************************************************************************)
(* media resolve and pp_production_resolve_asset: where are the resources  *)
(* of an asset now?                                                        *)
(*                                                                         *)
(* A resource with a file at a known locator is online there; otherwise    *)
(* the roots are walked for files of its size, every one of them is        *)
(* fingerprinted, and the number of matches decides what the answer is.    *)
(* The command line reads the locators of a resource just before it        *)
(* resolves it, and may then add the one candidate a person confirms; the  *)
(* C ABI reads all of them first.  Nothing keeps the files or the          *)
(* production from changing between any two of these steps.                *)
(***************************************************************************)
EXTENDS Inventory

CONSTANT MaxExceptions   \* MAX_SEQUENCE_EXCEPTIONS: 100 000

ASSUME ExceptionsAssumption == MaxExceptions \in Nat

Answer(state, candidates, frames) == [state |-> state, candidates |-> candidates, frames |-> frames]

(* readsAll: through the C ABI; verifies: media resolve --verify.          *)
NewResolution ==
    [pc |-> "next", readsAll |-> FALSE, verifies |-> FALSE, mapped |-> {}, usable |-> {},
     toRead |-> {}, toResolve |-> {}, places |-> <<>>,
     roots |-> {}, todo |-> <<>>, visited |-> 0, searched |-> TRUE,
     found |-> {}, matches |-> {}, frames |-> {}, answers |-> <<>>, since |-> 0]
-----------------------------------------------------------------------------
Resolving(p) == "answers" \in DOMAIN call[p]
Current(c)   == FirstIn(ResourceOrder, c.toResolve)

With(f, x, v) == [y \in DOMAIN f \union {x} |-> IF y \in DOMAIN f THEN f[y] ELSE v]

(* The resource is settled; the next one of the asset follows.             *)
Settle(c, answer) ==
    [c EXCEPT !.answers = With(@, Current(c), answer), !.toResolve = @ \ {Current(c)},
              !.pc = IF c.toResolve = {Current(c)} THEN "done" ELSE "next",
              !.visited = 0, !.searched = TRUE, !.found = {}, !.matches = {}, !.frames = {}]
Failed == Answer("error", {}, {})

(* The roots of the production and the resources the asset has now.        *)
(* Bound: a resolution runs alone.  It shares nothing that it writes with  *)
(* other calls, except that a confirmation commits, as other hosts do.     *)
BeginResolve(p, readsAll, verifies, mapped) ==
    /\ \A q \in Searcher : Doing(q, "idle")
    /\ readsAll => ~verifies
    /\ Begin(p, [NewResolution EXCEPT
           !.readsAll = readsAll, !.verifies = verifies, !.mapped = mapped,
           !.usable = enabled, !.toRead = Imported, !.toResolve = Imported, !.since = writes])

ReadLocators(p) ==
    LET c == call[p]
        x == FirstIn(ResourceOrder, c.toRead) IN
    /\ Doing(p, "next") /\ c.toRead # {} /\ (c.readsAll \/ x = Current(c))
    /\ Continue(p, [c EXCEPT !.toRead = @ \ {x}, !.places = With(@, x, locators[x])])

(* The roots to walk: for a sequence they are looked at beforehand.        *)
Search(c) ==
    LET ready == {r \in c.usable : r \in c.mapped /\ Reachable(r)} IN
    IF Current(c) \in SequenceResource
    THEN [c EXCEPT !.pc = "walk", !.roots = ready, !.searched = ready = c.usable]
    ELSE [c EXCEPT !.pc = "walk", !.roots = c.usable]

(* sequence_missing_frames fails rather than list so many.                 *)
TooMany(frames) == Cardinality(frames) > MaxExceptions

(* A known place that is there ends the search before it begins.           *)
CheckKnown(p) ==
    LET c == call[p]
        x == Current(c)
        online == {u \in c.places[x] : u \in Kind(x) /\ Present(u)}
        u == FirstOf(online)
        frames == IF x \in SequenceResource THEN Missing(x, u) ELSE {} IN
    /\ Doing(p, "next")
    /\ x \in DOMAIN c.places /\ (c.readsAll => c.toRead = {})
    /\ Continue(p,
         IF online = {} THEN Search(c)
         ELSE IF TooMany(frames) THEN Settle(c, Failed)
         ELSE IF c.verifies THEN [c EXCEPT !.pc = "verify", !.found = {u}, !.frames = frames]
         ELSE Settle(c, Answer("online", {u}, frames)))

(* Reading fails when the file is gone or a sampled frame is not there.    *)
Readable(x, u) == Present(u) /\ (x \in SequenceResource => Missing(x, u) \intersect Sampled[x] = {})

VerifyKnown(p) ==
    LET c == call[p]
        x == Current(c)
        u == FirstOf(c.found) IN
    /\ Doing(p, "verify")
    /\ Continue(p, IF Readable(x, u) /\ Digest(u) = PrintOf(x)
                   THEN Settle(c, Answer("online", {u}, c.frames))
                   ELSE Settle(c, Failed))

(* The search ends with an error.                                          *)
Stopped(c) == [Settle(c, Failed) EXCEPT !.todo = <<>>, !.roots = {}]

(* The first entry of a walk is the directory of the root, where no frame  *)
(* of any sequence is.                                                     *)
SearchRoot(p) ==
    LET c == call[p]
        x == Current(c)
        r == FirstIn(RootOrder, c.roots)
        walks == r \in c.mapped /\ Reachable(r) IN
    /\ Resolving(p) /\ Doing(p, "walk") /\ c.todo = <<>> /\ c.roots # {}
    /\ Continue(p,
         IF ~walks THEN IF x \in SequenceResource THEN Stopped(c)
                        ELSE [c EXCEPT !.roots = @ \ {r}, !.searched = FALSE]
         ELSE IF \/ c.visited + 1 > MaxEntries
                 \/ x \in SequenceResource /\ TooMany(Declared[x]) THEN Stopped(c)
         ELSE [c EXCEPT !.roots = @ \ {r}, !.todo = Under[r], !.visited = @ + 1])

(* A file of the right size is compared later; a directory with every      *)
(* frame is fingerprinted at once, one that lacks too many ends the search.*)
VisitPlace(p) ==
    LET c == call[p]
        x == Current(c)
        u == Head(c.todo)
        next == [c EXCEPT !.todo = Tail(@), !.visited = @ + 1] IN
    /\ Resolving(p) /\ Doing(p, "walk") /\ c.todo # <<>>
    /\ Continue(p,
         IF ~Present(u) THEN [c EXCEPT !.todo = Tail(@)]
         ELSE IF next.visited > MaxEntries THEN Stopped(c)
         ELSE IF u \notin Kind(x) THEN next
         ELSE IF u \in File
              THEN IF Size(u) = SizeOf[original[x]] THEN [next EXCEPT !.found = @ \union {u}] ELSE next
         ELSE IF TooMany(Missing(x, u)) THEN Stopped(c)
         ELSE IF Missing(x, u) = {} /\ Digest(u) = PrintOf(x)
              THEN [next EXCEPT !.matches = @ \union {u}]
         ELSE next)

Compare(p) ==
    LET c == call[p]
        x == Current(c)
        u == FirstOf(c.found) IN
    /\ Resolving(p) /\ Doing(p, "walk") /\ c.todo = <<>> /\ c.roots = {} /\ c.found # {}
    /\ Continue(p,
         IF ~Present(u) THEN Settle(c, Failed)
         ELSE [c EXCEPT !.found = @ \ {u},
                        !.matches = IF Digest(u) = PrintOf(x) THEN @ \union {u} ELSE @])

(* Only a file that was read completely is certain, and only alone.        *)
Certain(x) == x \notin SequenceResource /\ original[x] \in HashedInFull

(* Variant: the best candidate is taken for the answer.                    *)
Verdict_Best(c, x) ==
    IF c.matches = {} THEN IF c.searched THEN Answer("offline", {}, {}) ELSE Failed
    ELSE Answer(IF Certain(x) THEN "exact" ELSE "probable", {FirstOf(c.matches)}, {})
Verdict(c, x) ==
    IF c.matches = {} THEN IF c.searched THEN Answer("offline", {}, {}) ELSE Failed
    ELSE IF Cardinality(c.matches) > 1 THEN Answer("ambiguous", c.matches, {})
    ELSE Answer(IF Certain(x) THEN "exact" ELSE "probable", c.matches, {})

Conclude(p) ==
    LET c == call[p] IN
    /\ Resolving(p) /\ Doing(p, "walk") /\ c.todo = <<>> /\ c.roots = {} /\ c.found = {}
    /\ Continue(p, Settle(c, Verdict(c, Current(c))))

(* media resolve --confirm: the place must be a candidate of exactly one   *)
(* resource; a place already recorded for it is refused.                   *)
Confirm(p, u) ==
    LET c == call[p]
        offered == {x \in DOMAIN c.answers : u \in c.answers[x].candidates} IN
    /\ Resolving(p) /\ Doing(p, "done") /\ ~c.readsAll /\ Cardinality(offered) = 1
    /\ \E x \in offered : AddLocator(x, u)
    /\ call' = [call EXCEPT ![p] = Asleep]
    /\ UNCHANGED <<calls, cacheFile, tmpFile>>

EndResolve(p) ==
    /\ Resolving(p) /\ Doing(p, "done")
    /\ Continue(p, Asleep)

ResolveNext ==
    \E p \in Searcher :
        \/ \E readsAll, verifies \in BOOLEAN, mapped \in Mappings :
              BeginResolve(p, readsAll, verifies, mapped)
        \/ ReadLocators(p) \/ CheckKnown(p) \/ VerifyKnown(p) \/ SearchRoot(p)
        \/ VisitPlace(p) \/ Compare(p) \/ Conclude(p) \/ EndResolve(p)
        \/ \E u \in Place : Confirm(p, u)

ResolverNext == WorldNext \/ InventoryNext \/ ResolveNext

ResolverSpec == MediaInit /\ [][ResolverNext]_mediaVars
-----------------------------------------------------------------------------
(* RepresentationResolution::aggregate, from the answers for its members.  *)
Availability(answers, rep) ==
    LET members  == ToSet(MembersOf[rep])
        required == members \intersect Required
        among(states) == {x \in required : answers[x].state \in states}
        settled  == among({"online", "exact", "probable"}) IN
    IF among({"error"}) # {} THEN "error"
    ELSE IF among({"ambiguous"}) # {} THEN "ambiguous"
    ELSE IF settled = {} THEN "offline"
    ELSE IF among({"offline"}) # {} \/ (\E x \in members : answers[x].frames # {}) THEN "partial"
    ELSE "online"

(* The places that hold what was imported as x, and those of them a search *)
(* should come past.                                                       *)
Bears(u, x)    == u \in Kind(x) /\ Digest(u) = PrintOf(x)
Complete(u, x) == x \in SequenceResource => Missing(x, u) = {}
Rivals(c, x)   == {u \in InSight(c.usable, c.mapped) : Bears(u, x) /\ Complete(u, x)}

AnswerIsTrue(c, x) ==
    LET state == c.answers[x].state
        named == c.answers[x].candidates IN
    CASE state = "online" ->
           \E u \in c.places[x] : named = {u} /\ Present(u) /\ (c.verifies => Bears(u, x))
      [] state = "exact" ->
           named = Rivals(c, x) /\ \E u \in named : named = {u} /\ disk[u].version = original[x]
      [] state = "probable"  -> named = Rivals(c, x) /\ Cardinality(named) = 1
      [] state = "ambiguous" -> named = Rivals(c, x) /\ Cardinality(named) > 1
      [] state = "offline" ->
           /\ Rivals(c, x) = {} /\ \A u \in c.places[x] : ~Present(u)
           /\ c.usable = Searched(c.usable, c.mapped)
      [] state = "error" ->
           \/ c.verifies \/ c.usable # Searched(c.usable, c.mapped)
           \/ (Cardinality(InSight(c.usable, c.mapped)) + 1) * Cardinality(Root) > MaxEntries
           \/ x \in SequenceResource /\ TooMany(Declared[x])

(* What a resolution says of files that did not change while it ran is     *)
(* true of them, whatever was committed to the production meanwhile: an    *)
(* exact match has the imported content and no rival in sight, an          *)
(* ambiguous answer names every rival, offline means that the content is   *)
(* neither at a known place nor in any root that should be searched, and   *)
(* an available representation has every required member complete.        *)
RelinkIsTruthful ==
    \A p \in Searcher :
        LET c == call[p] IN
        Resolving(p) /\ c.pc = "done" /\ c.since = writes =>
            /\ \A x \in DOMAIN c.answers : AnswerIsTrue(c, x)
            /\ \A rep \in Representation :
                 /\ ToSet(MembersOf[rep]) \subseteq DOMAIN c.answers
                 /\ Availability(c.answers, rep) = "online"
                 => \A x \in ToSet(MembersOf[rep]) \intersect Required :
                       \E u \in c.answers[x].candidates : Present(u) /\ Complete(u, x)
=============================================================================
