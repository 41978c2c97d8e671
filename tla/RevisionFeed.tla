---------------------------- MODULE RevisionFeed ----------------------------
(***************************************************************************)
(* The revision journal as its readers see it: the pages of changes_since, *)
(* changes_since_filtered and objects_changed_since, the observer thread   *)
(* that follows the feed from a cursor, and a client that pages through    *)
(* the changed objects, while other connections go on committing.          *)
(*                                                                         *)
(* A revision is the sequence of its events.  Observers, waits and pages   *)
(* read committed revisions only; how a wait notices a commit is           *)
(* RevisionWait's business.                                                *)
(***************************************************************************)
EXTENDS RevisionEvents, Integers, Functions

CONSTANTS
    Revision,      \* what a revision may hold: sequences of events
    Filter,        \* what a consumer may ask for: sets of event types
    Limit,         \* page size of the observer and of the client
    MaxRevisions   \* bound: commits

ASSUME RevisionAssumption ==
    \A r \in Revision : r \in Seq(Range(r)) /\ r # <<>> /\ \A e \in Range(r) : IsEvent(e)
ASSUME FilterAssumption == Filter \subseteq SUBSET EventType
ASSUME LimitAssumption == Limit \in Nat \ {0}
ASSUME MaxRevisionsAssumption == MaxRevisions \in Nat

ThisProduction == Id("production", 1)

VARIABLES
    feed,       \* the committed revisions, each the sequence of its events
    wanted,     \* the types the consumer asked for; {} is everything
    cancelled,  \* stop() was called on the observer that runs
    saved,      \* the cursor the application has stored
    observer,   \* the observer thread
    error,      \* an exception ended it
    told,       \* revisions the callback was ever called with
    scan        \* the client paging through the changed objects

vars == <<feed, wanted, cancelled, saved, observer, error, told, scan>>

Steps    == {"off", "waiting", "reading", "closing_page", "delivering", "called", "ended"}
Thread   == [pc : Steps, cursor : Nat, rest : SUBSET Nat, rows : SUBSET Nat,
             snapshot : Nat, through : Nat, upto : Nat]
NoTarget == <<-1, 0>>

NewThread(pc, cursor) ==
    [pc |-> pc, cursor |-> cursor, rest |-> {}, rows |-> {}, snapshot |-> 0,
     through |-> 0, upto |-> cursor]

NoScan == [pc |-> "off", after |-> 0, began |-> 0, last |-> NoTarget, got |-> {}]

Init ==
    /\ feed = <<>> /\ wanted \in Filter
    /\ cancelled = FALSE /\ error = FALSE /\ saved = 0 /\ told = {}
    /\ observer = NewThread("off", 0)
    /\ scan = NoScan
-----------------------------------------------------------------------------
(* Queries.  ORDER BY ... LIMIT n over a set of keys.                      *)
PageBy(Before(_, _), rows, keys, n) ==
    /\ rows \subseteq keys
    /\ \A r \in rows, k \in keys : Before(k, r) => k \in rows
    /\ Cardinality(rows) <= n
    /\ rows = keys \/ Cardinality(rows) = n

Page(rows, keys, n) == PageBy(<, rows, keys, n)

RowOf         == [e \in UNION {Range(r) : r \in Revision} |-> Stored(e)]
RowsOf        == [r \in Revision |-> {RowOf[e] : e \in Range(r)}]
CodesOf       == [r \in Revision |-> {row.code : row \in RowsOf[r]}]
Has(s, code)  == code \in CodesOf[feed[s]]
After(cursor) == {s \in DOMAIN feed : s > cursor}
OfKind(code, cursor) == {s \in After(cursor) : Has(s, code)}

(* What a consumer of the binding asks for, and what it asks of the table. *)
TypesOf    == [r \in Revision |-> {e.type : e \in Range(r)}]
Matches(s) == wanted = {} \/ wanted \cap TypesOf[feed[s]] # {}
Matching   == {s \in DOMAIN feed : Matches(s)}
Asked      == {StoredCode(FilteredType(FilterCode(type))) : type \in wanted}

(* Variant: all branches together share the limit of one.                  *)
FilteredRows_OneLimit(rows, cursor) ==
    \E branch \in [Asked -> SUBSET After(cursor)] :
        /\ \A code \in Asked : Page(branch[code], OfKind(code, cursor), Limit)
        /\ rows \in {branch[code] : code \in Asked}

(* One bounded key range per kind, and the first page of their union.      *)
FilteredRows(rows, cursor) ==
    \E branch \in [Asked -> SUBSET After(cursor)] :
        /\ \A code \in Asked : Page(branch[code], OfKind(code, cursor), Limit)
        /\ Page(rows, UNION {branch[code] : code \in Asked}, Limit)

(* The branches of the changed-object query: the pairs of target kind and  *)
(* identity that a row says were touched.                                  *)
Touched(row) ==
    LET primary(kind)   == <<kind, row.column.primary>>
        secondary(kind) == <<kind, row.column.secondary>>
        code == row.code IN
    CASE code = 1              -> {primary(1)}
      [] code = 2              -> {primary(2), secondary(1)}
      [] code = 4              -> {primary(2), secondary(3)}
      [] code \in {5, 14}      -> {secondary(3)}
      [] code \in {6, 15, 16}  -> {<<0, Bytes(ThisProduction)>>}
      [] code \in 7..10        -> {primary(row.column.target_kind)}
      [] code \in {12, 13}     -> {primary(4), secondary(2)}
      [] code = 11             -> {primary(4)}
      [] code \in {3, 17}      -> {primary(3)}
      [] code \in {18, 19}     -> {primary(2)}
      [] code \in 20..26       -> {primary(5)}

TouchedAfter(after) == UNION {UNION {Touched(row) : row \in RowsOf[feed[s]]} : s \in After(after)}

(* The objects an event is about; a media root is the production's affair. *)
Concerns(e) ==
    IF e.type \in RootEvent THEN {ThisProduction}
    ELSE {e[f] : f \in DOMAIN e \cap
             {"target", "asset", "representation", "resource", "activity", "job"}}

ChangedBetween(after, last) ==
    UNION {UNION {Concerns(e) : e \in Range(feed[s])}
              : s \in {t \in DOMAIN feed : after < t /\ t <= last}}
-----------------------------------------------------------------------------
(* Any connection commits: the sequence is one more than the last.         *)
Commit(events) ==
    /\ Len(feed) < MaxRevisions
    /\ feed' = Append(feed, events)
    /\ UNCHANGED <<wanted, cancelled, saved, observer, error, told, scan>>

At(pc)     == observer.pc = pc
Goto(o)    == observer' = o /\ UNCHANGED <<feed, wanted, saved, scan>>

(* A new observer follows from the cursor the application has stored.      *)
Start ==
    /\ observer.pc \in {"off", "ended"} /\ scan.pc # "paging"
    /\ observer' = NewThread("waiting", saved) /\ scan' = NoScan
    /\ cancelled' = FALSE /\ error' = FALSE /\ UNCHANGED <<feed, wanted, saved, told>>

(* stop(): from any thread, the callback's included.                       *)
Stop ==
    /\ observer.pc \notin {"off", "ended"}
    /\ cancelled' = TRUE
    /\ UNCHANGED <<feed, wanted, saved, observer, error, told, scan>>

(* The wait answers Cancelled, or the first page after the cursor; with a  *)
(* filter the page is only a wake-up.                                      *)
WaitEnds ==
    /\ At("waiting")
    /\ \/ cancelled /\ Goto(NewThread("ended", observer.cursor))
       \/ /\ ~cancelled /\ After(observer.cursor) # {}
          /\ IF wanted = {}
             THEN \E rows \in SUBSET After(observer.cursor) :
                     /\ Page(rows, After(observer.cursor), Limit)
                     /\ Goto([observer EXCEPT !.pc = "delivering", !.rest = rows, !.rows = rows])
             ELSE Goto([observer EXCEPT !.pc = "reading"])
    /\ UNCHANGED <<cancelled, error, told>>

(* Variant: a timeout ends the observation.                                *)
TimesOut_Ends ==
    /\ At("waiting") /\ ~cancelled
    /\ Goto(NewThread("ended", observer.cursor))
    /\ UNCHANGED <<cancelled, error, told>>

TimesOut ==
    /\ At("waiting") /\ ~cancelled
    /\ UNCHANGED vars

(* changes_since_filtered: the rows and the end of the page are read in    *)
(* one snapshot, while commits may go on.                                  *)
ReadRows ==
    /\ At("reading")
    /\ \E rows \in SUBSET After(observer.cursor) :
          /\ FilteredRows(rows, observer.cursor)
          /\ Goto([observer EXCEPT !.pc = "closing_page", !.rows = rows, !.rest = rows,
                                   !.snapshot = Len(feed)])
    /\ UNCHANGED <<cancelled, error, told>>

Last(rows) == CHOOSE r \in rows : \A q \in rows : q <= r
Full(o)    == Cardinality(o.rows) = Limit
Larger(a, b) == IF a > b THEN a ELSE b

(* Variant: the end of the page is read in a second snapshot.              *)
ReadThrough_Later ==
    /\ At("closing_page")
    /\ Goto([observer EXCEPT !.pc = "delivering",
                !.snapshot = 0,
                !.through = IF Full(observer) THEN Last(observer.rows)
                            ELSE Larger(Len(feed), observer.cursor)])
    /\ UNCHANGED <<cancelled, error, told>>

ReadThrough ==
    /\ At("closing_page")
    /\ Goto([observer EXCEPT !.pc = "delivering",
                !.snapshot = 0,
                !.through = IF Full(observer) THEN Last(observer.rows)
                            ELSE Larger(observer.snapshot, observer.cursor)])
    /\ UNCHANGED <<cancelled, error, told>>

(* Variant: the newest revision first.                                     *)
Deliver_NewestFirst ==
    /\ At("delivering")
    /\ \E s \in observer.rest :
          /\ \A t \in observer.rest : t <= s
          /\ Goto([observer EXCEPT !.pc = "called", !.rest = @ \ {s}, !.upto = s])
          /\ told' = told \cup {s}
    /\ UNCHANGED <<cancelled, error>>

(* The callback runs on the oldest revision of the page still to deliver.  *)
Deliver ==
    /\ At("delivering")
    /\ \E s \in observer.rest :
          /\ \A t \in observer.rest : s <= t
          /\ Goto([observer EXCEPT !.pc = "called", !.rest = @ \ {s}, !.upto = s])
          /\ told' = told \cup {s}
    /\ UNCHANGED <<cancelled, error>>

(* It has returned: without a filter the cursor follows each revision.     *)
Returned ==
    /\ At("called")
    /\ Goto([observer EXCEPT !.pc = "delivering",
                             !.cursor = IF wanted = {} THEN observer.upto ELSE @])
    /\ UNCHANGED <<cancelled, error, told>>

(* An exception of the callback or of a query ends the thread.             *)
Raises ==
    /\ observer.pc \in {"waiting", "reading", "called"}
    /\ Goto(NewThread("ended", observer.cursor))
    /\ error' = TRUE /\ UNCHANGED <<cancelled, told>>

(* The page is delivered.  With a filter the cursor moves now, past what   *)
(* did not match, and a full page is followed by another at once.          *)
PageDone ==
    /\ At("delivering") /\ observer.rest = {}
    /\ IF wanted = {} THEN Goto(NewThread("waiting", observer.cursor))
       ELSE Goto(NewThread(IF Full(observer) THEN "reading" ELSE "waiting", observer.through))
    /\ UNCHANGED <<cancelled, error, told>>

(* The application stores the cursor; its process may die at any time.     *)
Store ==
    /\ observer.pc # "off" /\ saved' = observer.cursor
    /\ UNCHANGED <<feed, wanted, cancelled, observer, error, told, scan>>

Crash ==
    /\ observer.pc # "off"
    /\ Goto(NewThread("off", saved))
    /\ cancelled' = FALSE /\ error' = FALSE /\ UNCHANGED told
-----------------------------------------------------------------------------
(* A consumer that comes back may instead ask which objects have changed   *)
(* since the cursor it stored.  objects_changed_since, page by page: the   *)
(* sequence is the traversal's, the position that of the last object       *)
(* returned.                                                               *)
Reader(s) == scan' = s /\ UNCHANGED <<feed, wanted, cancelled, saved, observer, error, told>>

StartScan ==
    /\ scan.pc # "paging" /\ observer.pc = "off"
    /\ Reader([NoScan EXCEPT !.pc = "paging", !.after = saved, !.began = Len(feed)])

(* Rows beyond the position of the cursor, and the objects a client makes  *)
(* of a page of them.                                                      *)
Before(a, b) == a[1] < b[1] \/ (a[1] = b[1] /\ a[2] < b[2])
Changed == {pair \in TouchedAfter(scan.after) : Before(scan.last, pair)}
ObjectsOf(page) == {PyObject(AbiObject(Target(pair[1], pair[2]))) : pair \in page}
LastOf(page) == CHOOSE r \in page : \A q \in page : q = r \/ Before(q, r)

(* Variant: a page that is full is taken for the last one.                 *)
ScanPage_NoProbe ==
    /\ scan.pc = "paging"
    /\ \E page \in SUBSET Changed :
          /\ PageBy(Before, page, Changed, Limit)
          /\ Reader([scan EXCEPT !.pc = "done", !.last = NoTarget,
                                 !.got = @ \cup ObjectsOf(page)])

ScanPage ==
    /\ scan.pc = "paging"
    /\ \E page \in SUBSET Changed :
          /\ PageBy(Before, page, Changed, Limit)
          /\ IF page = Changed
             THEN Reader([scan EXCEPT !.pc = "done", !.last = NoTarget,
                                      !.got = @ \cup ObjectsOf(page)])
             ELSE Reader([scan EXCEPT !.last = LastOf(page),
                                      !.got = @ \cup ObjectsOf(page)])

Run == WaitEnds \/ ReadRows \/ ReadThrough \/ Deliver \/ Returned \/ PageDone

Next ==
    \/ \E events \in Revision : Commit(events)
    \/ Start \/ Stop \/ Run \/ TimesOut \/ Raises \/ Store \/ Crash
    \/ StartScan \/ ScanPage

Spec == Init /\ [][Next]_vars

(* The observer's thread runs, and its waits find what is there            *)
(* (CommitsAreFound of RevisionWait).                                      *)
LiveSpec == Spec /\ WF_vars(Run)
-----------------------------------------------------------------------------
TypeOK ==
    /\ feed \in Seq(Revision) /\ wanted \in Filter
    /\ cancelled \in BOOLEAN /\ error \in BOOLEAN /\ saved \in 0..Len(feed)
    /\ observer \in Thread /\ told \subseteq DOMAIN feed
    /\ observer.cursor <= observer.upto
    /\ scan.pc \in {"off", "paging", "done"} /\ scan.after <= scan.began

(* "Every matching revision with a sequence greater than the request and   *)
(* at most the through sequence is in the page" (ADR 0027), whatever is    *)
(* committed while the page is read, and none that does not match.         *)
PageIsExact ==
    wanted # {} /\ At("delivering") =>
        observer.rows = {s \in Matching : observer.cursor < s /\ s <= observer.through}

(* The cursor, and so what the application has stored, never passes a      *)
(* matching revision the callback was not called with: a restart after a   *)
(* crash, a stop or an exception loses nothing.                            *)
NothingSkipped ==
    \A s \in Matching : s <= observer.cursor \/ s <= saved => s \in told

(* A traversal of the changed objects has returned every object changed    *)
(* after its sequence by a revision that was there when it began, and none *)
(* that was not changed, although commits fall between its pages.          *)
ScanIsComplete ==
    scan.pc = "done" => /\ ChangedBetween(scan.after, scan.began) \subseteq scan.got
                        /\ scan.got \subseteq ChangedBetween(scan.after, Len(feed))

(* Following the feed is a subscription.                                   *)
Promise == INSTANCE Subscription WITH
               matching <- Matching,
               handled  <- {s \in Matching : s <= observer.upto}
ImplementsSubscription == Promise!Spec

Undisturbed == observer.pc # "off" /\ ~cancelled /\ ~error

(* As long as nobody stops the observer and nothing raises, every revision *)
(* asked for is delivered; and stop() is answered: the thread it joins     *)
(* comes to its end.                                                       *)
ObserverServes ==
    /\ \A s \in 1..MaxRevisions :
          (Undisturbed /\ s \in Matching) ~> (~Undisturbed \/ s \in told)
    /\ cancelled ~> (~cancelled \/ observer.pc = "ended")
=============================================================================
