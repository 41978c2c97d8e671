----------------------------- MODULE MediaRoots -----------------------------
(***************************************************************************)
(* Media roots of one production file, changed through several handles.    *)
(*                                                                         *)
(* A handle loads the roots when it opens the file and keeps them in       *)
(* memory (cache).  A transaction starts from that memory, not from the    *)
(* table: it decides on its own list (pendingRoots) what exists and what   *)
(* has changed, writes the table, and on commit its list becomes the       *)
(* handle's memory.  The table may have moved on in between, because a     *)
(* second handle can commit at any time.                                   *)
(***************************************************************************)
EXTENDS Naturals, Sequences

CONSTANTS
    Handle, NoHandle,     \* open handles of the file; no open transaction
    Root,                 \* media-root identifiers (random, never reused)
    MaxEvents             \* bound: events published and staged

ASSUME NoHandleAssumption == NoHandle \notin Handle
ASSUME MaxEventsAssumption == MaxEvents \in Nat

VARIABLES
    opened,        \* handles that have been opened, the creator's among them
    roots,         \* the committed table: what it says of every root
    journal,       \* published events, oldest first
    cache,         \* Production::media_roots of every handle
    writer,        \* the handle whose transaction is open, or NoHandle
    table,         \* the table as the open transaction sees it
    pendingRoots,  \* pending_roots of the open transaction
    pendingEvents  \* pending_events of the open transaction

vars == <<opened, roots, journal, cache, writer, table, pendingRoots, pendingEvents>>

Status == {"absent", "enabled", "disabled"}
Kinds  == {"added", "enabled", "disabled", "removed"}
Event(k, r) == [kind |-> k, root |-> r]
Empty   == [r \in Root |-> "absent"]

Init ==
    /\ roots = Empty /\ table = Empty /\ pendingRoots = Empty
    /\ cache = [h \in Handle |-> Empty]
    /\ journal = <<>> /\ pendingEvents = <<>>
    /\ writer = NoHandle
    /\ \E creator \in Handle : opened = {creator}
-----------------------------------------------------------------------------
Known(r) == \E i \in DOMAIN (journal \o pendingEvents) :
                (journal \o pendingEvents)[i] = Event("added", r)

HasRoom == Len(journal) + Len(pendingEvents) < MaxEvents

(* A call that changed the lists: the row written, if there is one, what   *)
(* the handle now believes, and the event.                                 *)
Stage(r, row, belief, kind) ==
    /\ HasRoom
    /\ table' = [table EXCEPT ![r] = row]
    /\ pendingRoots' = [pendingRoots EXCEPT ![r] = belief]
    /\ pendingEvents' = Append(pendingEvents, Event(kind, r))
    /\ UNCHANGED <<opened, roots, journal, cache, writer>>

(* Opening the file, for the first time or again, loads the table.         *)
Open(h) ==
    /\ writer # h
    /\ opened' = opened \cup {h}
    /\ cache' = [cache EXCEPT ![h] = roots]
    /\ UNCHANGED <<roots, journal, writer, table, pendingRoots, pendingEvents>>

Begin(h) ==
    /\ writer = NoHandle /\ h \in opened
    /\ writer' = h /\ table' = roots /\ pendingRoots' = cache[h]
    /\ UNCHANGED <<opened, roots, journal, cache, pendingEvents>>

(* A duplicate is refused by the table's key and changes nothing.          *)
AddMediaRoot(h, r, status) ==
    /\ writer = h /\ ~Known(r)
    /\ Stage(r, status, status, "added")

(* UPDATE ... WHERE id = ?: the row stays absent if another handle removed *)
(* it.  A root the handle does not know is NotFound, and one it believes   *)
(* to be in that state is left alone.                                      *)
SetMediaRootEnabled(h, r, status) ==
    /\ writer = h
    /\ pendingRoots[r] # "absent"
    /\ IF pendingRoots[r] = status
       THEN UNCHANGED vars
       ELSE Stage(r, IF table[r] = "absent" THEN "absent" ELSE status, status, status)

RemoveMediaRoot(h, r) ==
    /\ writer = h /\ pendingRoots[r] # "absent"
    /\ Stage(r, "absent", "absent", "removed")

(* Variant: the memory of the handle is not replaced.                      *)
Commit_KeepsCache(h) ==
    /\ writer = h
    /\ roots' = table /\ journal' = journal \o pendingEvents
    /\ writer' = NoHandle /\ table' = roots' /\ pendingRoots' = Empty
    /\ pendingEvents' = <<>>
    /\ UNCHANGED <<opened, cache>>

Commit(h) ==
    /\ writer = h
    /\ roots' = table /\ journal' = journal \o pendingEvents
    /\ cache' = [cache EXCEPT ![h] = pendingRoots]
    /\ writer' = NoHandle /\ table' = roots' /\ pendingRoots' = Empty
    /\ pendingEvents' = <<>> /\ UNCHANGED opened

(* rollback, a refused COMMIT and dropping the transaction.                *)
Abandon(h) ==
    /\ writer = h
    /\ writer' = NoHandle /\ table' = roots /\ pendingRoots' = Empty
    /\ pendingEvents' = <<>>
    /\ UNCHANGED <<opened, roots, journal, cache>>

Next == \E h \in Handle :
    \/ Open(h) \/ Begin(h) \/ Commit(h) \/ Abandon(h)
    \/ \E r \in Root :
          \/ RemoveMediaRoot(h, r)
          \/ \E status \in {"enabled", "disabled"} :
                AddMediaRoot(h, r, status) \/ SetMediaRootEnabled(h, r, status)

Spec == Init /\ [][Next]_vars
-----------------------------------------------------------------------------
(* The types, and no transaction: nothing staged.                          *)
TypeOK ==
    /\ opened \in SUBSET Handle
    /\ roots \in [Root -> Status] /\ table \in [Root -> Status]
    /\ pendingRoots \in [Root -> Status] /\ cache \in [Handle -> [Root -> Status]]
    /\ journal \in Seq([kind : Kinds, root : Root])
    /\ pendingEvents \in Seq([kind : Kinds, root : Root])
    /\ writer \in opened \cup {NoHandle}
    /\ writer = NoHandle => table = roots /\ pendingEvents = <<>>

Switches(r) == {i \in DOMAIN journal : journal[i].root = r
                                          /\ journal[i].kind \in {"enabled", "disabled"}}
Announced(kind, r) == \E i \in DOMAIN journal : journal[i] = Event(kind, r)

FeedTellsRoots ==
    \A r \in Root :
        /\ roots[r] # "absent" <=> Announced("added", r) /\ ~Announced("removed", r)
        /\ roots[r] # "absent" =>
              \A i \in Switches(r) : (\A k \in Switches(r) : k <= i)
                                        => journal[i].kind = roots[r]

(* As long as only one handle has ever been opened.                        *)
Alone == \A g, h \in opened : g = h

CacheFollowsTable ==
    Alone => \A h \in opened : /\ cache[h] = roots
                               /\ writer = h => pendingRoots = table

(* Whatever the memory of the handles, the feed is right about the roots   *)
(* the table holds: such a root was announced and never announced removed, *)
(* the last switch announced is the one in force, and a root that is gone  *)
(* was announced removed.  The memory of a handle that is alone is the     *)
(* table, through commits, rollbacks and refused commits, and so is the    *)
(* list of its open transaction.                                           *)
RootsAreKnown == FeedTellsRoots /\ CacheFollowsTable
=============================================================================
