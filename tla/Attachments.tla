---------------------------- MODULE Attachments -----------------------------
(***************************************************************************)
(* External identifiers and metadata on the objects of a production file,  *)
(* in the transaction of MediaRoots, with a consumer of the change feed    *)
(* that keeps a copy of both and a reader that follows a metadata query    *)
(* page by page.                                                           *)
(*                                                                         *)
(* An event of metadata names the object and the property and not the      *)
(* values: the consumer loads them anew.  A property's values are rows     *)
(* with a position each; the rows are numbered by SQLite, largest + 1.     *)
(***************************************************************************)
EXTENDS MediaRoots, Integers, FiniteSets

CONSTANTS
    Target,        \* objects: numbers, ordered as stored
    Identifiable,  \* those of a kind that may carry external identifiers
    Given,         \* those that are there from the start: the production
    Property, Value,
    Unencodable,   \* a value beyond the limits of the encoding
    Name, Qualifier,
    Limit,         \* size of a page
    MaxValues      \* bound: values given in one call

ASSUME TargetAssumption == Target \subseteq Nat \ {0} /\ Identifiable \cup Given \subseteq Target
ASSUME ValueAssumption == Unencodable \notin Value /\ Limit \in Nat \ {0} /\ MaxValues \in Nat

Identifier == [name : Name, qualifier : Qualifier]

VARIABLES
    file,     \* objects, identifiers and metadata rows as committed
    copy,     \* the same as the open transaction sees them
    news,     \* what it will say: identifiers, and the last word on every property
    told,     \* what the consumer of the feed has copied
    calls,    \* calls so far
    walk      \* a reader's traversal of one metadata query

attachments == <<file, copy, news, told, calls>>
attVars     == <<vars, attachments, walk>>

Slot   == Target \X Property
Silent == [slot \in Slot |-> "nothing"]
NoWalk == [property |-> CHOOSE p \in Property : TRUE, exact |-> {}, after |-> <<0, 0, 0>>,
           got |-> {}, always |-> {}, done |-> TRUE]

AttInit ==
    /\ Init
    /\ file = [objects |-> Given, identifiers |-> {}, rows |-> {}] /\ copy = file
    /\ news = [identifiers |-> {}, slots |-> Silent]
    /\ told = [identifiers |-> {}, values |-> [slot \in Slot |-> <<>>]]
    /\ calls = 0 /\ walk = NoWalk
-----------------------------------------------------------------------------
(* The queries on a committed file.                                        *)
ExternalIdentifiers(f, t) == {a[2] : a \in {a \in f.identifiers : a[1] = t}}

FindByExternalIdentifier(f, name) ==
    {a[1] : a \in {a \in f.identifiers : a[2].name = name}}

RowsOf(f, slot) == {r \in f.rows : <<r.target, r.property>> = slot}

Before(k, j) == \/ k[1] < j[1]
                \/ k[1] = j[1] /\ k[2] < j[2]
                \/ k[1] = j[1] /\ k[2] = j[2] /\ k[3] < j[3]
Key(r) == <<r.target, r.position, r.id>>
Precedes(r, s) == Before(Key(r), Key(s))

(* ORDER BY position, id: the value that so many others precede.           *)
MetadataValues(f, slot) ==
    LET rows    == RowsOf(f, slot)
        rank(r) == Cardinality({q \in rows : Precedes(q, r)})
    IN [i \in 1..Cardinality(rows) |-> (CHOOSE r \in rows : rank(r) = i - 1).value]

(* exact is a set of one value, or the empty set for any.                  *)
Matches(f, property, exact) ==
    {r \in f.rows : r.property = property /\ (exact = {} \/ r.value \in exact)}

StartWalk(property, exact) ==
    /\ walk.done /\ writer = NoHandle
    /\ walk' = [NoWalk EXCEPT !.property = property, !.exact = exact, !.done = FALSE,
                              !.always = Matches(file, property, exact)]
    /\ UNCHANGED <<vars, attachments>>

(* ORDER BY the key LIMIT: a page, and where the next one goes on.         *)
FirstPage(page, rest) ==
    /\ \A r \in page, q \in rest : Precedes(q, r) => q \in page
    /\ Cardinality(page) <= Limit /\ (page = rest \/ Cardinality(page) = Limit)

Reads(rest) ==
    /\ ~walk.done /\ writer = NoHandle
    /\ \E page \in SUBSET rest :
          /\ FirstPage(page, rest)
          /\ \/ /\ page = rest
                /\ walk' = [walk EXCEPT !.got = @ \cup page, !.done = TRUE]
             \/ /\ page # rest
                /\ \E last \in page :
                      /\ \A q \in page : q = last \/ Precedes(q, last)
                      /\ walk' = [walk EXCEPT !.got = @ \cup page, !.after = Key(last)]
    /\ UNCHANGED <<vars, attachments>>

(* Variant: the cursor holds the position and not the object.              *)
NextPage_ByPosition ==
    Reads({r \in Matches(file, walk.property, walk.exact) :
              r.position > walk.after[2] \/ walk.after[1] = 0})

(* Keyset pages over object, position and row number.  Pages are read      *)
(* between transactions: during one they read the same file.               *)
NextPage ==
    Reads({r \in Matches(file, walk.property, walk.exact) : Before(walk.after, Key(r))})
-----------------------------------------------------------------------------
(* Calls on the open transaction.  A refused one changes nothing.          *)
HasCalls == calls + Len(journal) + Len(pendingEvents) < MaxEvents

Stored(h, c, said) ==
    /\ writer = h /\ HasCalls
    /\ copy' = c /\ news' = said /\ calls' = calls + 1
    /\ UNCHANGED <<vars, file, told, walk>>

SaysSlot(slot, word) == [news EXCEPT !.slots[slot] = word]

(* An import, an activity or a job.                                        *)
CreateObject(h, t) ==
    /\ t \notin copy.objects
    /\ Stored(h, [copy EXCEPT !.objects = @ \cup {t}], news)

AddExternalIdentifier(h, t, identifier) ==
    /\ t \in Identifiable \cap copy.objects
    /\ <<t, identifier>> \notin copy.identifiers
    /\ Stored(h, [copy EXCEPT !.identifiers = @ \cup {<<t, identifier>>}],
                 [news EXCEPT !.identifiers = @ \cup {<<t, identifier>>}])

(* qualifier IS ?: the one without qualifier does not match the others.    *)
RemoveExternalIdentifier(h, t, identifier) ==
    /\ t \in Identifiable /\ <<t, identifier>> \in copy.identifiers
    /\ Stored(h, [copy EXCEPT !.identifiers = @ \ {<<t, identifier>>}],
                 [news EXCEPT !.identifiers = @ \ {<<t, identifier>>}])

(* COALESCE(MAX(position) + 1, 0), and the same for the row number from 1. *)
After(used, start) == IF used = {} THEN start ELSE 1 + CHOOSE n \in used : \A k \in used : k <= n

NextMetadataPosition(c, slot) == After({r.position : r \in RowsOf(c, slot)}, 0)

(* Rows at the positions from start on, one for each value.                *)
InsertMetadataValues(c, slot, start, values) ==
    LET id == After({r.id : r \in c.rows}, 1)
    IN [c EXCEPT !.rows = @ \cup {[target |-> slot[1], property |-> slot[2],
                                   position |-> start + i - 1, value |-> values[i],
                                   id |-> id + i - 1] : i \in DOMAIN values}]

DeleteMetadataProperty(c, slot) == [c EXCEPT !.rows = @ \ RowsOf(c, slot)]

AddMetadataValue(h, slot, value) ==
    /\ value # Unencodable /\ slot[1] \in copy.objects
    /\ Stored(h, InsertMetadataValues(copy, slot, NextMetadataPosition(copy, slot), <<value>>),
              SaysSlot(slot, "changed"))

(* Variant: each value is encoded when its row is written.                 *)
ReplaceMetadataValues_EncodesLate(h, slot, values) ==
    /\ slot[1] \in copy.objects
    /\ LET bare == DeleteMetadataProperty(copy, slot)
           good == SelectSeq(values, LAMBDA v : v # Unencodable)
       IN IF Len(good) < Len(values) THEN Stored(h, bare, news)
          ELSE IF values = <<>> /\ bare = copy THEN UNCHANGED attVars
          ELSE Stored(h, InsertMetadataValues(bare, slot, 0, values),
                      SaysSlot(slot, IF values = <<>> THEN "removed" ELSE "changed"))

(* Everything is encoded before the first row goes.  No values: a removal, *)
(* of which nothing is said when there was nothing.                        *)
ReplaceMetadataValues(h, slot, values) ==
    LET bare == DeleteMetadataProperty(copy, slot)
    IN /\ slot[1] \in copy.objects /\ \A i \in DOMAIN values : values[i] # Unencodable
       /\ IF values = <<>> /\ bare = copy THEN UNCHANGED attVars
          ELSE Stored(h, InsertMetadataValues(bare, slot, 0, values),
                      SaysSlot(slot, IF values = <<>> THEN "removed" ELSE "changed"))

RemoveMetadataProperty(h, slot) ==
    /\ RowsOf(copy, slot) # {}
    /\ Stored(h, DeleteMetadataProperty(copy, slot), SaysSlot(slot, "removed"))
-----------------------------------------------------------------------------
(* What the consumer has after reading the revision just committed.        *)
Read(slot) == CASE news.slots[slot] = "nothing" -> told.values[slot]
                [] news.slots[slot] = "removed" -> <<>>
                [] news.slots[slot] = "changed" -> MetadataValues(copy, slot)

AttCommit(h) ==
    /\ Commit(h)
    /\ file' = copy /\ copy' = copy
    /\ told' = [identifiers |-> news.identifiers, values |-> [slot \in Slot |-> Read(slot)]]
    /\ news' = [news EXCEPT !.slots = Silent]
    /\ walk' = IF walk.done THEN walk
               ELSE [walk EXCEPT !.always = @ \cap Matches(copy, walk.property, walk.exact)]
    /\ UNCHANGED calls

AttAbandon(h) ==
    /\ Abandon(h)
    /\ copy' = file /\ news' = [identifiers |-> told.identifiers, slots |-> Silent]
    /\ UNCHANGED <<file, told, calls, walk>>

(* The calls of MediaRoots on the same handles and transactions.           *)
RootStep(h) ==
    /\ \/ Open(h) \/ Begin(h)
       \/ /\ HasCalls
          /\ \E r \in Root :
                \/ RemoveMediaRoot(h, r)
                \/ \E status \in {"enabled", "disabled"} :
                      AddMediaRoot(h, r, status) \/ SetMediaRootEnabled(h, r, status)
    /\ UNCHANGED <<attachments, walk>>

AttNext ==
    \/ \E h \in Handle :
          \/ RootStep(h) \/ AttCommit(h) \/ AttAbandon(h)
          \/ \E t \in Target : \/ CreateObject(h, t)
                               \/ \E i \in Identifier : \/ AddExternalIdentifier(h, t, i)
                                                        \/ RemoveExternalIdentifier(h, t, i)
          \/ \E slot \in Slot :
                \/ RemoveMetadataProperty(h, slot)
                \/ \E v \in Value \cup {Unencodable} : AddMetadataValue(h, slot, v)
                \/ \E n \in 0..MaxValues : \E values \in [1..n -> Value \cup {Unencodable}] :
                      ReplaceMetadataValues(h, slot, values)
    \/ NextPage
    \/ \E p \in Property, exact \in {{}} \cup {{v} : v \in Value} : StartWalk(p, exact)

AttSpec == AttInit /\ [][AttNext]_attVars
-----------------------------------------------------------------------------
(* A consumer that reads every revision, applies the identifiers it names  *)
(* and loads the properties it names, has what the file has, the order of  *)
(* the values included, and looks names up as the file does: through       *)
(* rollbacks, refused values and removals of what is not there.            *)
FeedTellsAttachments ==
    /\ told.identifiers = file.identifiers
    /\ \A slot \in Slot : /\ told.values[slot] = MetadataValues(file, slot)
                          /\ {r.position : r \in RowsOf(file, slot)} =
                                0..(Cardinality(RowsOf(file, slot)) - 1)
    /\ \A n \in Name, t \in Target :
          t \in FindByExternalIdentifier(file, n) <=>
              \E i \in ExternalIdentifiers(file, t) : i.name = n /\ <<t, i>> \in told.identifiers

(* An assertion that is there all along a traversal of its property is     *)
(* returned by it, whatever is added, replaced and removed in between.     *)
AssertionsAreFound == walk.done => walk.always \subseteq walk.got
=============================================================================
