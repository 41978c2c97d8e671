----------------------------- MODULE Catalogue ------------------------------
(***************************************************************************)
(* The media catalogue of a production file: imports of media, locators    *)
(* that come and go, the media roots they were found under, the tables     *)
(* that triggers derive from them for the queries, and a reader that       *)
(* follows a query page by page while others commit.                       *)
(*                                                                         *)
(* It extends MediaRoots: the transaction, its handle and the table of     *)
(* roots are the ones of that module.  A mutation that fails part-way is   *)
(* not undone within its transaction, and a host that goes on and commits  *)
(* publishes what it left.                                                 *)
(***************************************************************************)
EXTENDS MediaRoots, Integers, FiniteSets

CONSTANTS
    Asset, Rep, Resource, Locator,  \* identifiers: numbers, ordered as stored
    NoRoot, Absent,                 \* a locator under no root; no such locator
    AssetOf, RepOf, ResourceOf,     \* what an import hangs its parts on
    Uri,                            \* the URI of every locator
    Optional,                       \* resources a representation can do without
    Limit,                          \* size of a page
    MaxChanges                      \* bound: calls that change the catalogue

ASSUME IdAssumption == Asset \cup Rep \cup Resource \cup Locator \subseteq Nat \ {0}
ASSUME PartAssumption == /\ AssetOf \in [Rep -> Asset] /\ RepOf \in [Resource -> Rep]
                         /\ ResourceOf \in [Locator -> Resource]
ASSUME RootAssumption == NoRoot \notin Root /\ Absent \notin Root \cup {NoRoot}
ASSUME LimitAssumption == Limit \in Nat \ {0} /\ MaxChanges \in Nat

VARIABLES
    file,     \* the committed catalogue
    copy,     \* the catalogue as the open transaction sees it
    told,     \* what a reader of the feed knows of the catalogue
    telling,  \* what it will know when the open transaction commits
    tainted,  \* a call of the open transaction failed and left rows behind
    spoiled,  \* such a transaction was committed
    changes,  \* calls so far
    walk      \* a reader's traversal of one query

catalogue == <<file, copy, told, telling, tainted, spoiled, changes>>
catVars   == <<vars, catalogue, walk>>

Nothing == [assets |-> {}, reps |-> {}, resources |-> {}, members |-> {},
            locators |-> [l \in Locator |-> Absent], unresolved |-> {}, under |-> {}]
Untold  == [assets |-> {}, reps |-> {}, resources |-> {}, members |-> {}, locators |-> {}]
NoWalk  == [query |-> <<"none">>, cursor |-> 0, got |-> {}, always |-> {}, done |-> TRUE]

CatInit ==
    /\ Init
    /\ file = Nothing /\ copy = Nothing
    /\ told = Untold /\ telling = Untold
    /\ tainted = FALSE /\ spoiled = FALSE /\ changes = 0
    /\ walk = NoWalk
-----------------------------------------------------------------------------
(* Rows and the triggers on them.                                          *)
Present(c) == {l \in Locator : c.locators[l] # Absent}
At(c, x)   == {l \in Present(c) : ResourceOf[l] = x}

(* The rows that locators with their roots and memberships make together.  *)
Joined(ls, root, ms) ==
    {<<root[p[1]], p[2][1], p[1]>> : p \in
        {p \in ls \X ms : root[p[1]] # NoRoot /\ ResourceOf[p[1]] = p[2][2]}}

(* What the two derived tables should hold.                                *)
Unresolved(c) == {m \in c.members : m[2] \notin Optional /\ At(c, m[2]) = {}}
Under(c) == Joined(Present(c), c.locators, c.members)

AfterMembership(c, ms) ==
    [c EXCEPT !.members = @ \cup ms,
              !.unresolved = @ \cup {m \in ms : m[2] \notin Optional /\ At(c, m[2]) = {}},
              !.under = @ \cup Joined(Present(c), c.locators, ms)]

AfterLocatorInsert(c, ls, root) ==
    [c EXCEPT !.locators = [l \in Locator |-> IF l \in ls THEN root[l] ELSE @[l]],
              !.unresolved = {m \in @ : \A l \in ls : ResourceOf[l] # m[2]},
              !.under = @ \cup Joined(ls, root, c.members)]

(* Variant: the trigger does not look for the other locators.              *)
AfterLocatorDelete_Lone(c, l) ==
    LET gone == [c EXCEPT !.locators[l] = Absent]
    IN [gone EXCEPT
           !.under = {u \in @ : u[3] # l},
           !.unresolved = @ \cup {m \in c.members :
                               m[2] = ResourceOf[l] /\ m[2] \notin Optional}]

(* Its rows under a root go by the foreign key, its memberships become     *)
(* unresolved when it was the last locator of the resource.                *)
AfterLocatorDelete(c, l) ==
    LET gone == [c EXCEPT !.locators[l] = Absent]
    IN [gone EXCEPT
           !.under = {u \in @ : u[3] # l},
           !.unresolved = @ \cup {m \in c.members :
                               /\ m[2] = ResourceOf[l] /\ m[2] \notin Optional
                               /\ At(gone, m[2]) = {}}]

(* ON DELETE SET NULL of the locators, and the trigger on that update.     *)
AfterRootDelete(c, r) ==
    LET orphans == {l \in Locator : c.locators[l] = r}
    IN [c EXCEPT !.locators = [l \in Locator |-> IF l \in orphans THEN NoRoot ELSE @[l]],
                 !.under = {u \in @ : u[1] # r /\ u[3] \notin orphans}]
-----------------------------------------------------------------------------
(* Constraints an inserted locator can break: its key, the media root it   *)
(* names, its resource, and one row for each resource and URI.             *)
Refused(c, l, root, others) ==
    \/ c.locators[l] # Absent
    \/ root # NoRoot /\ table[root] = "absent"
    \/ ResourceOf[l] \notin c.resources
    \/ \E k \in At(c, ResourceOf[l]) \cup others :
          ResourceOf[k] = ResourceOf[l] /\ Uri[k] = Uri[l] /\ k # l

ResourcesOf(r) == {x \in Resource : RepOf[x] = r}
LocatorsOf(r)  == {l \in Locator : RepOf[ResourceOf[l]] = r}

(* RepresentationImport::new: every resource has at least one locator.     *)
Offers(r) == {ls \in SUBSET LocatorsOf(r) : {ResourceOf[l] : l \in ls} = ResourcesOf(r)}
FirstOf(S) == CHOOSE i \in S : \A j \in S : i <= j

(* The representation, then its resources, its structure and its locators  *)
(* one by one.  The first row that is refused ends the call, and the rows  *)
(* before it stay: a resource whose size does not fit a column (large), or *)
(* a locator under a root that is gone.                                    *)
Persisted(c, r, ls, root, large) ==
    LET rep      == [c EXCEPT !.reps = @ \cup {r}]
        sized    == {x \in ResourcesOf(r) : \A y \in large : x < y}
        media    == [rep EXCEPT !.resources = @ \cup sized]
        members  == AfterMembership(media, {<<r, x>> : x \in sized})
        bad      == {l \in ls : Refused(members, l, root[l], {k \in ls : k < l})}
        inserted == {l \in ls : \A b \in bad : l < b}
    IN IF large # {} THEN [ok |-> FALSE, rows |-> media]
       ELSE [ok |-> bad = {}, rows |-> AfterLocatorInsert(members, inserted, root)]

(* The events of a representation, in one piece when nothing was refused.  *)
Said(t, r, ls) ==
    [t EXCEPT !.reps = @ \cup {r},
              !.resources = @ \cup ResourcesOf(r),
              !.members = @ \cup {<<r, x>> : x \in ResourcesOf(r)},
              !.locators = @ \cup ls]

Stored(h, c, t, failed) ==
    /\ writer = h /\ changes < MaxChanges
    /\ changes' = changes + 1
    /\ copy' = c /\ telling' = t
    /\ tainted' = (tainted \/ failed)
    /\ UNCHANGED <<vars, file, told, spoiled, walk>>

Finish(h, c, t, r, ls, root, large) ==
    LET done == Persisted(c, r, ls, root, large)
    IN Stored(h, done.rows, IF done.ok THEN Said(t, r, ls) ELSE t, ~done.ok)

(* The asset and its event come first and stay when the rest fails.  An    *)
(* asset that exists is refused with nothing done.                         *)
ImportOriginal(h, r, ls, root, large) ==
    LET a == AssetOf[r]
    IN /\ a \notin copy.assets
       /\ Finish(h, [copy EXCEPT !.assets = @ \cup {a}],
                 [telling EXCEPT !.assets = @ \cup {a}], r, ls, root, large)

AddRepresentation(h, r, ls, root, large) ==
    /\ AssetOf[r] \in copy.assets /\ r \notin copy.reps
    /\ Finish(h, copy, telling, r, ls, root, large)

AddLocator(h, l, root) ==
    /\ ~Refused(copy, l, root, {})
    /\ Stored(h, AfterLocatorInsert(copy, {l}, [k \in {l} |-> root]),
              [telling EXCEPT !.locators = @ \cup {l}], FALSE)

(* Variant: the row goes and nothing is said.                              *)
RetireLocator_Silent(h, l) ==
    /\ l \in Present(copy)
    /\ Stored(h, AfterLocatorDelete(copy, l), telling, FALSE)

RetireLocator(h, l) ==
    /\ l \in Present(copy)
    /\ Stored(h, AfterLocatorDelete(copy, l), [telling EXCEPT !.locators = @ \ {l}], FALSE)
-----------------------------------------------------------------------------
(* The queries, as the set of keys each one enumerates.                    *)
AssetsPage(f)             == f.assets
RepresentationsPage(f, a) == {r \in f.reps : AssetOf[r] = a}
ResourcesPage(f, r)       == {m[2] : m \in {m \in f.members : m[1] = r}}
LocatorsPage(f, x)        == At(f, x)
UnderMediaRoot(f, r)      == {u[2] : u \in {u \in f.under : u[1] = r}}
UnresolvedMedia(f)        == {m[1] : m \in f.unresolved}

Queries == {<<"assets">>, <<"unresolved">>} \cup ({"representations"} \X Asset)
               \cup ({"resources"} \X Rep) \cup ({"locators"} \X Resource)
               \cup ({"under"} \X Root)

Result(f, q) ==
    CASE q[1] = "assets"          -> AssetsPage(f)
      [] q[1] = "unresolved"      -> UnresolvedMedia(f)
      [] q[1] = "representations" -> RepresentationsPage(f, q[2])
      [] q[1] = "resources"       -> ResourcesPage(f, q[2])
      [] q[1] = "locators"        -> LocatorsPage(f, q[2])
      [] q[1] = "under"           -> UnderMediaRoot(f, q[2])
      [] q[1] = "none"            -> {}

(* Pages read the committed file, so one that is read while a transaction  *)
(* is open reads what it would have read before the transaction began: it  *)
(* is enough to read them then.                                            *)

(* The object a query starts from; without it the query is NotFound.       *)
Exists(q) ==
    CASE q[1] = "representations" -> q[2] \in file.assets
      [] q[1] = "resources"       -> q[2] \in file.reps
      [] q[1] = "locators"        -> q[2] \in file.resources
      [] q[1] = "under"           -> roots[q[2]] # "absent"
      [] OTHER                    -> TRUE

StartWalk(q) ==
    /\ walk.done /\ Exists(q) /\ writer = NoHandle
    /\ walk' = [query |-> q, cursor |-> 0, got |-> {}, always |-> Result(file, q), done |-> FALSE]
    /\ UNCHANGED <<vars, catalogue>>

(* The first n keys of a set.                                              *)
First(n, S) == {k \in S : Cardinality({j \in S : j < k}) < n}

(* Variant: the row that was read to see whether there is more is skipped. *)
NextPage_SkipsProbe ==
    LET rows == {k \in Result(file, walk.query) : k > walk.cursor}
        page == First(Limit, rows)
    IN /\ ~walk.done /\ writer = NoHandle
       /\ walk' = [walk EXCEPT !.got = @ \cup page, !.done = (page = rows),
                               !.cursor = FirstOf({c \in First(Limit + 1, rows) \cup {@} :
                                             \A k \in First(Limit + 1, rows) : k <= c})]
       /\ UNCHANGED <<vars, catalogue>>

(* One page from the file of now: the keys after the cursor, one row more  *)
(* than the page to learn whether there is another one.                    *)
NextPage ==
    LET rows == {k \in Result(file, walk.query) : k > walk.cursor}
        page == First(Limit, rows)
    IN /\ ~walk.done /\ writer = NoHandle
       /\ IF ~Exists(walk.query) THEN walk' = NoWalk
          ELSE walk' = [walk EXCEPT !.got = @ \cup page, !.done = (page = rows),
                                    !.cursor = FirstOf({c \in page \cup {@} :
                                                  \A k \in page : k <= c})]
       /\ UNCHANGED <<vars, catalogue>>

(* What the traversal could have seen at every moment.                     *)
Watched(f) == [walk EXCEPT !.always = @ \cap Result(f, walk.query)]
-----------------------------------------------------------------------------
(* The transaction of MediaRoots, with the catalogue in it.                *)
CatCommit(h) ==
    /\ Commit(h)
    /\ file' = copy /\ copy' = copy /\ told' = telling /\ telling' = telling
    /\ spoiled' = (spoiled \/ tainted) /\ tainted' = FALSE
    /\ walk' = IF walk.done THEN walk ELSE Watched(copy)
    /\ UNCHANGED changes

CatAbandon(h) ==
    /\ Abandon(h)
    /\ copy' = file /\ telling' = told /\ tainted' = FALSE
    /\ UNCHANGED <<file, told, spoiled, changes, walk>>

CatRemoveMediaRoot(h, r) ==
    /\ RemoveMediaRoot(h, r)
    /\ copy' = AfterRootDelete(copy, r)
    /\ UNCHANGED <<file, told, telling, tainted, spoiled, changes, walk>>

RootStep(h) ==
    /\ \/ Open(h) \/ Begin(h)
       \/ \E r \in Root, status \in {"enabled", "disabled"} :
             AddMediaRoot(h, r, status) \/ SetMediaRootEnabled(h, r, status)
    /\ UNCHANGED <<catalogue, walk>>

Import(h, r) ==
    \E ls \in Offers(r), large \in {{}} \cup {{x} : x \in ResourcesOf(r)} :
        \E root \in [ls -> Root \cup {NoRoot}] :
            ImportOriginal(h, r, ls, root, large) \/ AddRepresentation(h, r, ls, root, large)

CatNext ==
    \/ \E h \in Handle :
          \/ RootStep(h) \/ CatCommit(h) \/ CatAbandon(h)
          \/ \E r \in Root : CatRemoveMediaRoot(h, r)
          \/ \E r \in Rep : Import(h, r)
          \/ \E l \in Locator : RetireLocator(h, l)
          \/ \E l \in Locator, root \in Root \cup {NoRoot} : AddLocator(h, l, root)
    \/ NextPage
    \/ \E q \in Queries : StartWalk(q)

CatSpec == CatInit /\ [][CatNext]_catVars
-----------------------------------------------------------------------------
Rows(c) == [assets |-> c.assets, reps |-> c.reps, resources |-> c.resources,
            members |-> c.members, locators |-> Present(c)]

(* "Triggers keep them consistent with the authoritative rows on every     *)
(* write path" (012_query_support.sql): whatever is imported in part,      *)
(* retired, or loses its root, in the file and in an open transaction.     *)
DerivedTablesFollow ==
    \A c \in {file, copy} : c.unresolved = Unresolved(c) /\ c.under = Under(c)

(* "Rollback and failed mutations do not advance the feed" (ADR 0007): the *)
(* feed never speaks of anything the file does not hold, and a reader of   *)
(* the feed knows all of the catalogue, unless a host committed what a     *)
(* failed call had left; even then it knows every asset.                   *)
FeedTellsCatalogue ==
    /\ \A part \in DOMAIN told : told[part] \subseteq Rows(file)[part]
    /\ ~spoiled => told = Rows(file)
    /\ told.assets = file.assets

(* "A later page sees the current durable state after its key": what       *)
(* matches all along a traversal is returned by it, whatever is committed  *)
(* before, behind and ahead of the cursor between two pages.               *)
TraversalIsComplete == walk.done => walk.always \subseteq walk.got
=============================================================================
