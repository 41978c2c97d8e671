------------------------- MODULE AttachmentsProofs --------------------------
(***************************************************************************)
(* Proofs about MediaRoots, and about Attachments that shares its          *)
(* transactions, for every set of handles, roots, objects, properties and  *)
(* values and any number of calls.  What the feed says is compared twice   *)
(* with a table: what is published with the committed one, and what is     *)
(* published and staged with the one the open transaction sees.            *)
(***************************************************************************)
EXTENDS Attachments, FiniteSetTheorems, SequenceTheorems, WellFoundedInduction, TLAPS

Occurrence == [kind : Kinds, root : Root]

Said(J, kind, r) == \E i \in DOMAIN J : J[i] = Event(kind, r)
SwitchesIn(J, r) == {i \in DOMAIN J : J[i].root = r /\ J[i].kind \in {"enabled", "disabled"}}

(* What a table holds is what the events say, and nothing is said of a     *)
(* root before it is added.                                                *)
TellsRoot(J, tab, r) ==
    /\ tab[r] # "absent" <=> Said(J, "added", r) /\ ~Said(J, "removed", r)
    /\ tab[r] # "absent" => \A i \in SwitchesIn(J, r) :
                               (\A k \in SwitchesIn(J, r) : k <= i) => J[i].kind = tab[r]
    /\ \A i \in DOMAIN J : J[i].root = r => Said(J, "added", r)
Tells(J, tab) == \A r \in Root : TellsRoot(J, tab, r)

(* A handle believes only in roots that were added.                        *)
Believes(J, list) == \A r \in Root : list[r] # "absent" => Said(J, "added", r)

RInv ==
    /\ TypeOK
    /\ Tells(journal, roots) /\ Tells(journal \o pendingEvents, table)
    /\ \A h \in Handle : Believes(journal, cache[h])
    /\ Believes(journal \o pendingEvents, pendingRoots)
    /\ CacheFollowsTable

(* One more event: the others stand where they stood.                      *)
LEMMA OneMore ==
    ASSUME NEW J \in Seq(Occurrence), NEW e \in Occurrence
    PROVE  /\ Append(J, e) \in Seq(Occurrence)
           /\ Len(J) \in Nat /\ DOMAIN J = 1..Len(J)
           /\ DOMAIN Append(J, e) = 1..(Len(J) + 1)
           /\ \A i \in 1..Len(J) : Append(J, e)[i] = J[i]
           /\ Append(J, e)[Len(J) + 1] = e
<1>1. /\ Append(J, e) \in Seq(Occurrence) /\ Len(Append(J, e)) = Len(J) + 1
      /\ \A i \in 1..Len(J) : Append(J, e)[i] = J[i]
      /\ Append(J, e)[Len(J) + 1] = e
  BY AppendProperties
<1> QED
  BY <1>1, LenProperties

LEMMA SaysMore ==
    ASSUME NEW J \in Seq(Occurrence), NEW e \in Occurrence, NEW kind, NEW r
    PROVE  Said(Append(J, e), kind, r) <=> Said(J, kind, r) \/ e = Event(kind, r)
BY OneMore DEF Said

(* A call that writes a row and says so keeps the two together.            *)
LEMMA CallTells ==
    ASSUME NEW J \in Seq(Occurrence), NEW tab \in [Root -> Status], Tells(J, tab),
           NEW r \in Root, NEW row \in Status, NEW kind \in Kinds,
           \/ kind = "added" /\ ~Said(J, "added", r) /\ row # "absent"
           \/ /\ kind \in {"enabled", "disabled"} /\ Said(J, "added", r)
              /\ row = (IF tab[r] = "absent" THEN "absent" ELSE kind)
           \/ kind = "removed" /\ Said(J, "added", r) /\ row = "absent"
    PROVE  Tells(Append(J, Event(kind, r)), [tab EXCEPT ![r] = row])
<1> DEFINE e == Event(kind, r)  K == Append(J, e)  new == [tab EXCEPT ![r] = row]
<1>1. e \in Occurrence /\ e.kind = kind /\ e.root = r
  BY DEF Event, Occurrence
<1>2. /\ Len(J) \in Nat /\ DOMAIN J = 1..Len(J) /\ DOMAIN K = 1..(Len(J) + 1)
      /\ \A i \in 1..Len(J) : K[i] = J[i]
      /\ K[Len(J) + 1] = e
  BY <1>1, OneMore
<1>3. \A k, q : Said(K, k, q) <=> Said(J, k, q) \/ e = Event(k, q)
  BY <1>1, SaysMore
<1>4. \A k, q : e = Event(k, q) <=> k = kind /\ q = r
  BY DEF Event
<1>5. \A q \in Root : new[q] = IF q = r THEN row ELSE tab[q]
  OBVIOUS
<1> HIDE DEF e, K, new
<1>6. ASSUME NEW q \in Root, q # r PROVE TellsRoot(K, new, q)
  <2>1. TellsRoot(J, tab, q) /\ new[q] = tab[q]
    BY <1>5, <1>6 DEF Tells
  <2>2. \A k : Said(K, k, q) <=> Said(J, k, q)
    BY <1>3, <1>4, <1>6
  <2>3. SwitchesIn(K, q) = SwitchesIn(J, q)
    BY <1>1, <1>2, <1>6 DEF SwitchesIn
  <2>4. \A i \in SwitchesIn(J, q) : K[i] = J[i]
    BY <1>2 DEF SwitchesIn
  <2>5. \A i \in DOMAIN K : K[i].root = q => i \in DOMAIN J /\ J[i].root = q
    BY <1>1, <1>2, <1>6
  <2> QED
    BY <2>1, <2>2, <2>3, <2>4, <2>5 DEF TellsRoot
<1>7. TellsRoot(K, new, r)
  <2>1. TellsRoot(J, tab, r) /\ new[r] = row
    BY <1>5 DEF Tells
  <2>2. Said(K, "added", r)
    BY <1>3, <1>4
  <2>3. Said(K, "removed", r) <=> Said(J, "removed", r) \/ kind = "removed"
    BY <1>3, <1>4
  <2>4. row # "absent" <=> ~Said(K, "removed", r)
    <3>1. CASE kind = "added"
      <4>1. ~Said(J, "removed", r)
        <5>1. \A i \in DOMAIN J : J[i].root # r
          BY <1>3, <1>4, <2>1, <3>1 DEF TellsRoot
        <5> QED
          BY <5>1 DEF Said, Event
      <4> QED
        BY <2>3, <3>1, <4>1
    <3>2. CASE kind \in {"enabled", "disabled"}
      BY <2>1, <2>3, <3>2 DEF TellsRoot
    <3>3. CASE kind = "removed"
      BY <2>3, <3>3
    <3> QED
      BY <3>1, <3>2, <3>3 DEF Kinds
  <2>5. ASSUME row # "absent", NEW i \in SwitchesIn(K, r), \A k \in SwitchesIn(K, r) : k <= i
        PROVE  K[i].kind = row
    <3>1. CASE kind = "added"
      <4>1. \A n \in DOMAIN J : J[n].root # r
        BY <2>1, <3>1 DEF TellsRoot
      <4>2. SwitchesIn(K, r) = {}
        BY <1>1, <1>2, <3>1, <4>1 DEF SwitchesIn
      <4> QED
        BY <2>5, <4>2
    <3>2. CASE kind \in {"enabled", "disabled"}
      <4>1. Len(J) + 1 \in SwitchesIn(K, r)
        BY <1>1, <1>2, <3>2 DEF SwitchesIn
      <4>2. i = Len(J) + 1
        BY <1>2, <2>5, <4>1 DEF SwitchesIn
      <4> QED
        BY <1>1, <1>2, <2>5, <3>2, <4>2
    <3>3. CASE kind = "removed"
      BY <2>5, <3>3
    <3> QED
      BY <3>1, <3>2, <3>3 DEF Kinds
  <2> QED
    BY <2>1, <2>2, <2>4, <2>5 DEF TellsRoot
<1>8. Tells(K, new)
  BY <1>6, <1>7 DEF Tells
<1> QED
  BY <1>8 DEF K, new, e
-----------------------------------------------------------------------------
(* The sequences of events, published and staged.                          *)
LEMMA Sequences ==
    ASSUME TypeOK
    PROVE  /\ journal \in Seq(Occurrence) /\ pendingEvents \in Seq(Occurrence)
           /\ journal \o pendingEvents \in Seq(Occurrence)
           /\ journal \o <<>> = journal
<1>1. journal \in Seq(Occurrence) /\ pendingEvents \in Seq(Occurrence)
  BY DEF TypeOK, Occurrence
<1> QED
  BY <1>1, ConcatProperties, ConcatEmptySeq

LEMMA RInvInit == Init => RInv
<1> SUFFICES ASSUME Init PROVE RInv
  OBVIOUS
<1>1. /\ roots = Empty /\ table = Empty /\ pendingRoots = Empty
      /\ cache = [h \in Handle |-> Empty] /\ journal = <<>> /\ pendingEvents = <<>>
      /\ writer = NoHandle /\ opened \in SUBSET Handle
  BY DEF Init
<1>2. Empty \in [Root -> Status] /\ \A r \in Root : Empty[r] = "absent"
  BY DEF Empty, Status
<1>3. TypeOK
  BY <1>1, <1>2 DEF TypeOK
<1>4. journal \o pendingEvents = <<>> /\ DOMAIN journal = {}
  BY <1>1, <1>3, Sequences
<1>5. Tells(journal, roots)
  BY <1>1, <1>2, <1>4 DEF Tells, TellsRoot, Said
<1>6. \A h \in Handle : Believes(journal, cache[h])
  BY <1>1, <1>2 DEF Believes
<1>7. CacheFollowsTable
  BY <1>1, NoHandleAssumption DEF CacheFollowsTable
<1> QED
  BY <1>1, <1>2, <1>3, <1>4, <1>5, <1>6, <1>7 DEF RInv, Believes

(* A call on the open transaction.                                         *)
LEMMA StageKeeps ==
    ASSUME RInv, NEW h \in Handle, writer = h, NEW r \in Root, NEW row \in Status,
           NEW belief \in Status, NEW kind \in Kinds, Stage(r, row, belief, kind),
           \/ kind = "added" /\ ~Known(r) /\ row # "absent"
           \/ /\ kind \in {"enabled", "disabled"} /\ pendingRoots[r] # "absent"
              /\ row = (IF table[r] = "absent" THEN "absent" ELSE kind)
           \/ kind = "removed" /\ pendingRoots[r] # "absent" /\ row = "absent",
           row = belief \/ (pendingRoots[r] # "absent" /\ table[r] = "absent")
    PROVE  RInv'
<1> DEFINE J == journal \o pendingEvents  e == Event(kind, r)
<1>1. /\ J \in Seq(Occurrence) /\ journal \in Seq(Occurrence)
      /\ pendingEvents \in Seq(Occurrence)
  BY Sequences DEF RInv
<1>2. e \in Occurrence
  BY DEF Event, Occurrence
<1>3. /\ table' = [table EXCEPT ![r] = row]
      /\ pendingRoots' = [pendingRoots EXCEPT ![r] = belief]
      /\ pendingEvents' = Append(pendingEvents, e)
      /\ opened' = opened /\ roots' = roots /\ journal' = journal
      /\ cache' = cache /\ writer' = writer
  BY DEF Stage
<1>4. /\ table \in [Root -> Status] /\ pendingRoots \in [Root -> Status]
      /\ writer # NoHandle /\ opened \in SUBSET Handle
  BY NoHandleAssumption DEF RInv, TypeOK
<1>5. (journal \o pendingEvents)' = Append(J, e)
  <2>1. Append(pendingEvents, e) = pendingEvents \o <<e>> /\ Append(J, e) = J \o <<e>>
    BY <1>1, <1>2, AppendIsConcat
  <2>2. <<e>> \in Seq(Occurrence)
    BY <1>2
  <2>3. journal \o (pendingEvents \o <<e>>) = (journal \o pendingEvents) \o <<e>>
    BY <1>1, <2>2, ConcatAssociative
  <2> HIDE DEF e
  <2> QED
    BY <1>3, <2>1, <2>3
<1>6. pendingRoots[r] # "absent" => Said(J, "added", r)
  BY DEF RInv, Believes
<1>7. Known(r) <=> Said(J, "added", r)
  BY DEF Known, Said
<1> HIDE DEF J, e
<1>8. Tells(J, table)
  BY DEF RInv, J
<1>9. Tells(Append(J, e), [table EXCEPT ![r] = row])
  <2>1. CASE kind = "added" /\ ~Known(r) /\ row # "absent"
    BY <1>1, <1>4, <1>7, <1>8, <2>1, CallTells DEF e
  <2>2. CASE /\ kind \in {"enabled", "disabled"} /\ pendingRoots[r] # "absent"
             /\ row = (IF table[r] = "absent" THEN "absent" ELSE kind)
    BY <1>1, <1>4, <1>6, <1>8, <2>2, CallTells DEF e
  <2>3. CASE kind = "removed" /\ pendingRoots[r] # "absent" /\ row = "absent"
    BY <1>1, <1>4, <1>6, <1>8, <2>3, CallTells DEF e
  <2> QED
    BY <2>1, <2>2, <2>3
<1>10. Believes(Append(J, e), [pendingRoots EXCEPT ![r] = belief])
  <2>1. Said(Append(J, e), "added", r)
    BY <1>1, <1>2, <1>6, SaysMore DEF e
  <2>2. \A q \in Root : Said(J, "added", q) => Said(Append(J, e), "added", q)
    BY <1>1, <1>2, SaysMore
  <2>3. \A q \in Root : pendingRoots[q] # "absent" => Said(J, "added", q)
    BY DEF RInv, Believes, J
  <2>4. \A q \in Root : q # r => [pendingRoots EXCEPT ![r] = belief][q] = pendingRoots[q]
    BY <1>4
  <2> QED
    BY <2>1, <2>2, <2>3, <2>4 DEF Believes
<1>11. TypeOK'
  <2>1. table' \in [Root -> Status] /\ pendingRoots' \in [Root -> Status]
    BY <1>3, <1>4
  <2>2. pendingEvents' \in Seq(Occurrence)
    BY <1>1, <1>2, <1>3, AppendProperties
  <2> QED
    BY <1>3, <1>4, <2>1, <2>2 DEF RInv, TypeOK, Occurrence
<1>12. CacheFollowsTable'
  <2> SUFFICES ASSUME Alone PROVE \A g \in opened : cache[g] = roots /\
                                     (writer = g => pendingRoots' = table')
    BY <1>3 DEF CacheFollowsTable, Alone
  <2>1. \A g \in opened : cache[g] = roots /\ (writer = g => pendingRoots = table)
    BY DEF RInv, CacheFollowsTable
  <2>2. ASSUME pendingRoots = table PROVE pendingRoots' = table'
    <3>1. row = belief
      BY <2>2
    <3> QED
      BY <1>3, <2>2, <3>1
  <2> QED
    BY <2>1, <2>2
<1>13. Tells((journal \o pendingEvents)', table')
  BY <1>3, <1>5, <1>9
<1>14. Believes((journal \o pendingEvents)', pendingRoots')
  BY <1>3, <1>5, <1>10
<1>15. Tells(journal', roots') /\ \A g \in Handle : Believes(journal', cache'[g])
  BY <1>3 DEF RInv
<1> QED
  BY <1>11, <1>12, <1>13, <1>14, <1>15 DEF RInv

LEMMA CallKeeps ==
    ASSUME RInv, NEW h \in Handle, NEW r \in Root,
           \/ RemoveMediaRoot(h, r)
           \/ \E status \in {"enabled", "disabled"} :
                 AddMediaRoot(h, r, status) \/ SetMediaRootEnabled(h, r, status)
    PROVE  RInv' \/ UNCHANGED vars
<1>1. CASE RemoveMediaRoot(h, r)
  <2>1. /\ writer = h /\ pendingRoots[r] # "absent"
        /\ Stage(r, "absent", "absent", "removed")
    BY <1>1 DEF RemoveMediaRoot
  <2>2. "absent" \in Status /\ "removed" \in Kinds
    BY DEF Status, Kinds
  <2> QED
    BY <2>1, <2>2, StageKeeps
<1>2. ASSUME NEW status \in {"enabled", "disabled"}, AddMediaRoot(h, r, status)
      PROVE  RInv'
  <2>1. writer = h /\ ~Known(r) /\ Stage(r, status, status, "added")
    BY <1>2 DEF AddMediaRoot
  <2>2. status \in Status /\ status # "absent" /\ "added" \in Kinds
    BY DEF Status, Kinds
  <2> QED
    BY <2>1, <2>2, StageKeeps
<1>3. ASSUME NEW status \in {"enabled", "disabled"}, SetMediaRootEnabled(h, r, status)
      PROVE  RInv' \/ UNCHANGED vars
  <2>1. CASE pendingRoots[r] = status
    BY <1>3, <2>1 DEF SetMediaRootEnabled
  <2>2. CASE pendingRoots[r] # status
    <3>1. PICK row : row = (IF table[r] = "absent" THEN "absent" ELSE status)
      OBVIOUS
    <3>2. /\ writer = h /\ pendingRoots[r] # "absent"
          /\ Stage(r, row, status, status)
      BY <1>3, <2>2, <3>1 DEF SetMediaRootEnabled
    <3>3. status \in Status /\ row \in Status /\ status \in Kinds
      BY <3>1 DEF Status, Kinds
    <3> QED
      BY <3>1, <3>2, <3>3, StageKeeps
  <2> QED
    BY <2>1, <2>2
<1> QED
  BY <1>1, <1>2, <1>3

LEMMA OpenKeeps ==
    ASSUME RInv, NEW h \in Handle, Open(h)
    PROVE  RInv'
<1>1. /\ writer # h /\ opened' = opened \cup {h} /\ cache' = [cache EXCEPT ![h] = roots]
      /\ roots' = roots /\ journal' = journal /\ writer' = writer /\ table' = table
      /\ pendingRoots' = pendingRoots /\ pendingEvents' = pendingEvents
  BY DEF Open
<1>2. TypeOK' /\ cache \in [Handle -> [Root -> Status]]
  BY <1>1 DEF RInv, TypeOK
<1>3. Believes(journal, roots)
  BY DEF RInv, Tells, TellsRoot, Believes
<1>4. \A g \in Handle : Believes(journal', cache'[g])
  BY <1>1, <1>2, <1>3 DEF RInv
<1>5. CacheFollowsTable'
  <2> SUFFICES ASSUME Alone', NEW g \in opened'
               PROVE  cache'[g] = roots /\ (writer = g => pendingRoots = table)
    BY <1>1 DEF CacheFollowsTable
  <2>1. g = h
    BY <1>1 DEF Alone
  <2> QED
    BY <1>1, <1>2, <2>1
<1>6. Tells(journal', roots') /\ Tells((journal \o pendingEvents)', table')
  BY <1>1 DEF RInv
<1>7. Believes((journal \o pendingEvents)', pendingRoots')
  BY <1>1 DEF RInv
<1> QED
  BY <1>2, <1>4, <1>5, <1>6, <1>7 DEF RInv

LEMMA BeginKeeps ==
    ASSUME RInv, NEW h \in Handle, Begin(h)
    PROVE  RInv'
<1>1. /\ writer = NoHandle /\ h \in opened /\ writer' = h /\ table' = roots
      /\ pendingRoots' = cache[h] /\ opened' = opened /\ roots' = roots
      /\ journal' = journal /\ cache' = cache /\ pendingEvents' = pendingEvents
  BY DEF Begin
<1>2. /\ table = roots /\ pendingEvents = <<>> /\ cache[h] \in [Root -> Status]
  BY <1>1 DEF RInv, TypeOK
<1>3. TypeOK'
  BY <1>1, <1>2, NoHandleAssumption DEF RInv, TypeOK
<1>4. journal \o pendingEvents = journal
  BY <1>2, Sequences DEF RInv
<1>5. Tells((journal \o pendingEvents)', table') /\ Tells(journal', roots')
  BY <1>1, <1>2, <1>4 DEF RInv
<1>6. Believes((journal \o pendingEvents)', pendingRoots')
  BY <1>1, <1>4 DEF RInv
<1>7. \A g \in Handle : Believes(journal', cache'[g])
  BY <1>1 DEF RInv
<1>8. CacheFollowsTable'
  <2> SUFFICES ASSUME Alone, NEW g \in opened
               PROVE  cache[g] = roots /\ (h = g => cache[h] = roots)
    BY <1>1 DEF CacheFollowsTable, Alone
  <2>1. \A f \in opened : cache[f] = roots
    BY DEF RInv, CacheFollowsTable
  <2> QED
    BY <1>1, <2>1
<1> QED
  BY <1>3, <1>5, <1>6, <1>7, <1>8 DEF RInv

(* After the transaction: nothing is staged, and the list is empty.        *)
LEMMA NothingStaged ==
    ASSUME TypeOK', pendingRoots' = Empty, pendingEvents' = <<>>
    PROVE  /\ (journal \o pendingEvents)' = journal'
           /\ \A J : Believes(J, pendingRoots')
<1>1. journal' \in Seq(Occurrence)
  BY DEF TypeOK, Occurrence
<1>2. journal' \o <<>> = journal'
  BY <1>1, ConcatEmptySeq
<1>3. \A r \in Root : Empty[r] = "absent"
  BY DEF Empty
<1> QED
  BY <1>2, <1>3 DEF Believes

LEMMA CommitKeeps ==
    ASSUME RInv, NEW h \in Handle, Commit(h)
    PROVE  RInv'
<1> DEFINE J == journal \o pendingEvents
<1>1. /\ writer = h /\ roots' = table /\ journal' = J
      /\ cache' = [cache EXCEPT ![h] = pendingRoots]
      /\ writer' = NoHandle /\ table' = table /\ pendingRoots' = Empty
      /\ pendingEvents' = <<>> /\ opened' = opened
  BY DEF Commit
<1>2. TypeOK'
  <2>1. J \in Seq(Occurrence)
    BY Sequences DEF RInv
  <2>2. Empty \in [Root -> Status]
    BY DEF Empty, Status
  <2>3. <<>> \in Seq(Occurrence)
    OBVIOUS
  <2>4. cache' \in [Handle -> [Root -> Status]]
    BY <1>1 DEF RInv, TypeOK
  <2> HIDE DEF J
  <2> QED
    BY <1>1, <2>1, <2>2, <2>3, <2>4 DEF RInv, TypeOK, Occurrence
<1>3. (journal \o pendingEvents)' = J /\ \A K : Believes(K, pendingRoots')
  BY <1>1, <1>2, NothingStaged
<1>4. Tells(J, table) /\ Believes(J, pendingRoots)
  BY DEF RInv
<1>5. \A r \in Root : Said(journal, "added", r) => Said(J, "added", r)
  <2>1. journal \in Seq(Occurrence) /\ pendingEvents \in Seq(Occurrence)
    BY Sequences DEF RInv
  <2>2. /\ J \in Seq(Occurrence) /\ Len(J) = Len(journal) + Len(pendingEvents)
        /\ \A i \in 1..Len(journal) : J[i] = journal[i]
        /\ Len(journal) \in Nat /\ Len(pendingEvents) \in Nat
    BY <2>1, ConcatProperties, LenProperties
  <2>3. DOMAIN journal = 1..Len(journal) /\ DOMAIN J = 1..(Len(journal) + Len(pendingEvents))
    BY <2>1, <2>2, LenProperties
  <2> HIDE DEF J
  <2>4. \A i \in DOMAIN journal : i \in DOMAIN J /\ J[i] = journal[i]
    BY <2>2, <2>3
  <2> QED
    BY <2>4 DEF Said
<1> HIDE DEF J
<1>6. \A g \in Handle : Believes(journal', cache'[g])
  <2> SUFFICES ASSUME NEW g \in Handle PROVE Believes(J, cache'[g])
    BY <1>1
  <2>1. CASE g = h
    BY <1>1, <1>4, <2>1 DEF RInv, TypeOK
  <2>2. CASE g # h
    <3>1. cache'[g] = cache[g] /\ Believes(journal, cache[g])
      BY <1>1, <2>2 DEF RInv, TypeOK
    <3> QED
      BY <1>5, <3>1 DEF Believes
  <2> QED
    BY <2>1, <2>2
<1>7. CacheFollowsTable'
  <2> SUFFICES ASSUME Alone, NEW g \in opened PROVE cache'[g] = table
    BY <1>1, NoHandleAssumption DEF CacheFollowsTable, Alone, RInv, TypeOK
  <2>1. h \in opened /\ g = h
    BY <1>1, NoHandleAssumption DEF Alone, RInv, TypeOK
  <2>2. pendingRoots = table
    BY <1>1, <2>1 DEF RInv, CacheFollowsTable
  <2> QED
    BY <1>1, <2>1, <2>2 DEF RInv, TypeOK
<1>8. Tells(journal', roots') /\ Tells((journal \o pendingEvents)', table')
  BY <1>1, <1>3, <1>4
<1> QED
  BY <1>2, <1>3, <1>6, <1>7, <1>8 DEF RInv

LEMMA AbandonKeeps ==
    ASSUME RInv, NEW h \in Handle, Abandon(h)
    PROVE  RInv'
<1>1. /\ writer = h /\ writer' = NoHandle /\ table' = roots /\ pendingRoots' = Empty
      /\ pendingEvents' = <<>> /\ opened' = opened /\ roots' = roots
      /\ journal' = journal /\ cache' = cache
  BY DEF Abandon
<1>2. TypeOK'
  <2>1. Empty \in [Root -> Status] /\ <<>> \in Seq(Occurrence)
    BY DEF Empty, Status
  <2> QED
    BY <1>1, <2>1 DEF RInv, TypeOK, Occurrence
<1>3. (journal \o pendingEvents)' = journal /\ \A K : Believes(K, pendingRoots')
  BY <1>1, <1>2, NothingStaged
<1>4. CacheFollowsTable'
  BY <1>1, NoHandleAssumption DEF RInv, TypeOK, CacheFollowsTable, Alone
<1>5. Tells(journal', roots') /\ Tells((journal \o pendingEvents)', table')
  BY <1>1, <1>3 DEF RInv
<1>6. \A g \in Handle : Believes(journal', cache'[g])
  BY <1>1 DEF RInv
<1> QED
  BY <1>2, <1>3, <1>4, <1>5, <1>6 DEF RInv

(* Every step keeps the two tables, the events and the memory together.    *)
LEMMA RInvStep == RInv /\ [Next]_vars => RInv'
<1> SUFFICES ASSUME RInv, [Next]_vars PROVE RInv'
  OBVIOUS
<1>1. CASE UNCHANGED vars
  BY <1>1 DEF vars, RInv, TypeOK, CacheFollowsTable, Alone, Tells, Believes
<1>2. ASSUME NEW h \in Handle, Open(h) \/ Begin(h) \/ Commit(h) \/ Abandon(h) PROVE RInv'
  BY <1>2, OpenKeeps, BeginKeeps, CommitKeeps, AbandonKeeps
<1>3. ASSUME NEW h \in Handle, NEW r \in Root,
             \/ RemoveMediaRoot(h, r)
             \/ \E status \in {"enabled", "disabled"} :
                   AddMediaRoot(h, r, status) \/ SetMediaRootEnabled(h, r, status)
      PROVE  RInv'
  BY <1>1, <1>3, CallKeeps
<1> QED
  BY <1>1, <1>2, <1>3 DEF Next

LEMMA RInvMeans == RInv => RootsAreKnown
<1> SUFFICES ASSUME RInv PROVE FeedTellsRoots
  BY DEF RInv, RootsAreKnown
<1> QED
  BY DEF RInv, Tells, TellsRoot, Said, SwitchesIn, FeedTellsRoots, Announced, Switches

(* What the feed says of the media roots is what the table holds, although *)
(* every handle works from its own memory; and the memory of a handle that *)
(* is alone is the table, through commits, rollbacks and refused commits.  *)
THEOREM RootsStayKnown == Spec => []RootsAreKnown
<1>1. RInv /\ [Next]_vars => RInv'
  BY RInvStep
<1> QED
  BY <1>1, RInvInit, RInvMeans, PTL DEF Spec
-----------------------------------------------------------------------------
(***************************************************************************)
(* Attachments: the rows of metadata.                                      *)
(***************************************************************************)

Row == [target : Target, property : Property, position : Nat, value : Value, id : Nat]

FileType == [objects : SUBSET Target, identifiers : SUBSET (Target \X Identifier),
             rows : SUBSET Row]

InOrder(rows) == /\ IsFiniteSet(rows)
                 /\ {r.position : r \in rows} = 0..(Cardinality(rows) - 1)

(* Row numbers are unique, and every property has its values in order.     *)
Sound(f) ==
    /\ f \in FileType
    /\ \E top \in Nat : \A r \in f.rows : r.id <= top
    /\ \A r, q \in f.rows : r.id = q.id => r = q
    /\ \A slot \in Slot : InOrder(RowsOf(f, slot))

(* MAX + 1 is beyond everything in use.                                    *)
LEMMA AfterIsNew ==
    ASSUME NEW used \in SUBSET Nat, NEW top \in Nat, \A n \in used : n <= top, NEW start \in Nat
    PROVE  /\ After(used, start) \in Nat
           /\ \A n \in used : n < After(used, start)
<1>1. CASE used = {}
  BY <1>1 DEF After
<1>2. CASE used # {}
  <2> DEFINE gaps == {top - n : n \in used}
  <2>1. gaps \in SUBSET Nat /\ gaps # {}
    <3>1. \A n \in used : top - n \in Nat
      OBVIOUS
    <3> QED
      BY <1>2, <3>1
  <2>2. PICK g \in gaps : \A h \in gaps : ~(<<h, g>> \in OpToRel(<, Nat))
    BY <2>1, NatLessThanWellFounded, WFMin
  <2>3. PICK m \in used : g = top - m
    BY <2>2
  <2>4. ASSUME NEW n \in used PROVE n <= m
    <3>1. top - n \in gaps /\ top - n \in Nat
      BY <2>1
    <3>2. ~(top - n < top - m)
      BY <2>1, <2>2, <2>3, <3>1 DEF OpToRel
    <3> QED
      BY <3>2
  <2>5. \E x \in used : \A k \in used : k <= x
    BY <2>4
  <2> DEFINE last == CHOOSE x \in used : \A k \in used : k <= x
  <2>6. last \in used /\ \A k \in used : k <= last
    BY <2>5
  <2>7. After(used, start) = 1 + last
    BY <1>2 DEF After
  <2> HIDE DEF last
  <2> QED
    BY <2>6, <2>7
<1> QED
  BY <1>1, <1>2

(* The position after the last.                                            *)
LEMMA NextIsCount ==
    ASSUME NEW rows, InOrder(rows)
    PROVE  After({r.position : r \in rows}, 0) = Cardinality(rows)
<1> DEFINE n == Cardinality(rows)  used == {r.position : r \in rows}
<1>1. n \in Nat /\ used = 0..(n - 1)
  BY FS_CardinalityType DEF InOrder
<1> HIDE DEF n, used
<1>2. CASE n = 0
  <2>1. used = {}
    BY <1>1, <1>2
  <2> QED
    BY <1>2, <2>1 DEF After, n, used
<1>3. CASE n # 0
  <2>1. used # {} /\ n - 1 \in used /\ \A k \in used : k <= n - 1 /\ k \in Nat
    BY <1>1, <1>3
  <2> DEFINE last == CHOOSE x \in used : \A k \in used : k <= x
  <2>2. last \in used /\ \A k \in used : k <= last
    BY <2>1
  <2>3. After(used, 0) = 1 + last
    BY <2>1 DEF After
  <2> HIDE DEF last
  <2>4. last = n - 1
    BY <1>1, <2>1, <2>2
  <2> QED
    BY <1>1, <2>3, <2>4 DEF n, used
<1> QED
  BY <1>2, <1>3

(* Rows that are put behind those that are there.                          *)
LEMMA InsertKeeps ==
    ASSUME NEW c, Sound(c), NEW slot \in Slot, NEW n \in Nat, NEW values \in [1..n -> Value],
           NEW start, start = Cardinality(RowsOf(c, slot)),
           NEW new, new = InsertMetadataValues(c, slot, start, values)
    PROVE  /\ Sound(new) /\ new.objects = c.objects /\ new.identifiers = c.identifiers
           /\ \A other \in Slot : other # slot => RowsOf(new, other) = RowsOf(c, other)
<1> DEFINE id == After({r.id : r \in c.rows}, 1)
           row(i) == [target |-> slot[1], property |-> slot[2], position |-> start + i - 1,
                      value |-> values[i], id |-> id + i - 1]
           N == {row(i) : i \in 1..n}
           old == RowsOf(c, slot)
<1>1. c \in FileType /\ IsFiniteSet(old) /\ {r.position : r \in old} = 0..(start - 1)
  BY DEF Sound, InOrder
<1>2. start \in Nat
  BY <1>1, FS_CardinalityType
<1>3. id \in Nat /\ \A r \in c.rows : r.id < id
  <2>1. PICK top \in Nat : \A r \in c.rows : r.id <= top
    BY DEF Sound
  <2>2. {r.id : r \in c.rows} \in SUBSET Nat
    BY <1>1 DEF FileType, Row
  <2>3. \A k \in {r.id : r \in c.rows} : k <= top
    BY <2>1
  <2>4. id \in Nat /\ \A k \in {r.id : r \in c.rows} : k < id
    BY <2>2, <2>3, AfterIsNew
  <2> HIDE DEF id
  <2> QED
    BY <2>4
<1>4. new = [c EXCEPT !.rows = @ \cup N]
  <2>1. DOMAIN values = 1..n
    OBVIOUS
  <2> QED
    BY <2>1 DEF InsertMetadataValues
<1> HIDE DEF id
<1>5. slot[1] \in Target /\ slot[2] \in Property /\ slot = <<slot[1], slot[2]>>
  BY DEF Slot
<1>6. \A i \in 1..n : row(i) \in Row
  <2> SUFFICES ASSUME NEW i \in 1..n PROVE row(i) \in Row
    OBVIOUS
  <2>1. start + i - 1 \in Nat /\ id + i - 1 \in Nat /\ values[i] \in Value
    BY <1>2, <1>3
  <2> QED
    BY <1>5, <2>1 DEF Row
<1>7. \A i \in 1..n : /\ row(i).id = id + i - 1 /\ row(i).position = start + i - 1
                      /\ <<row(i).target, row(i).property>> = slot
  BY <1>5
<1> HIDE DEF row
<1>8. /\ new \in FileType /\ new.rows = c.rows \cup N
      /\ new.objects = c.objects /\ new.identifiers = c.identifiers
  BY <1>1, <1>4, <1>6 DEF FileType
<1>9. \A r \in N : \E i \in 1..n : r = row(i)
  OBVIOUS
<1>10. \A r \in N : r.id >= id /\ r.id \in Nat /\ r.id <= id + n /\ <<r.target, r.property>> = slot
  BY <1>3, <1>7, <1>9
<1>11. ASSUME NEW i \in 1..n, NEW j \in 1..n, row(i) = row(j) PROVE i = j
  <2>1. id + i - 1 = id + j - 1
    BY <1>7, <1>11
  <2> QED
    BY <1>3, <2>1
<1>12. IsFiniteSet(N) /\ Cardinality(N) = n
  <2> DEFINE f == [i \in 1..n |-> row(i)]
  <2>1. f \in Bijection(1..n, N)
    BY <1>11 DEF Bijection, Injection, Surjection, IsInjective
  <2>2. ExistsBijection(1..n, N)
    BY <2>1 DEF ExistsBijection
  <2> QED
    BY <2>2, FS_CountingElements, FS_NatBijection
<1> HIDE DEF N
<1>13. RowsOf(new, slot) = old \cup N
  BY <1>8, <1>10 DEF RowsOf
<1>14. \A other \in Slot : other # slot => RowsOf(new, other) = RowsOf(c, other)
  BY <1>8, <1>10 DEF RowsOf
<1>15. \A r \in c.rows : r.id \in Nat
  BY <1>1 DEF FileType, Row
<1>16. old \cap N = {}
  <2>1. \A r \in old : r \in c.rows
    BY DEF RowsOf
  <2> QED
    BY <1>3, <1>10, <1>15, <2>1
<1>17. InOrder(old \cup N)
  <2>1. IsFiniteSet(old \cup N) /\ Cardinality(old \cup N) = start + n
    <3>1. Cardinality(old \cap N) = 0
      BY <1>16, FS_EmptySet
    <3>2. /\ IsFiniteSet(old \cup N)
          /\ Cardinality(old \cup N) = Cardinality(old) + Cardinality(N) - Cardinality(old \cap N)
      BY <1>1, <1>12, FS_Union
    <3> QED
      BY <1>2, <1>12, <3>1, <3>2
  <2>2. \A r \in old : r.position \in 0..(start - 1)
    BY <1>1
  <2>3. \A k \in 0..(start - 1) : \E r \in old : r.position = k
    BY <1>1
  <2>4. \A r \in N : r.position \in start..(start + n - 1)
    BY <1>2, <1>7, <1>9
  <2>5. \A k \in start..(start + n - 1) : \E r \in N : r.position = k
    <3> SUFFICES ASSUME NEW k \in start..(start + n - 1) PROVE \E r \in N : r.position = k
      OBVIOUS
    <3>1. k - start + 1 \in 1..n /\ start + (k - start + 1) - 1 = k
      BY <1>2
    <3>2. row(k - start + 1) \in N /\ row(k - start + 1).position = k
      BY <1>7, <3>1 DEF N
    <3> QED
      BY <3>2
  <2>6. 0..(start + n - 1) = (0..(start - 1)) \cup (start..(start + n - 1))
    BY <1>2
  <2> HIDE DEF old
  <2>7. PICK all : all = old \cup N
    OBVIOUS
  <2>8. {r.position : r \in all} = 0..(start + n - 1)
    BY <2>2, <2>3, <2>4, <2>5, <2>6, <2>7
  <2>9. IsFiniteSet(all) /\ Cardinality(all) - 1 = start + n - 1
    BY <1>2, <2>1, <2>7
  <2> QED
    BY <2>7, <2>8, <2>9 DEF InOrder
<1>18. \A other \in Slot : InOrder(RowsOf(new, other))
  BY <1>13, <1>14, <1>17 DEF Sound
<1>19. \A r, q \in new.rows : r.id = q.id => r = q
  <2> SUFFICES ASSUME NEW r \in new.rows, NEW q \in new.rows, r.id = q.id PROVE r = q
    OBVIOUS
  <2>1. CASE r \in c.rows /\ q \in c.rows
    BY <2>1 DEF Sound
  <2>2. CASE r \in N /\ q \in N
    BY <1>3, <1>7, <1>9, <2>2
  <2>3. ~(r \in c.rows /\ q \in N) /\ ~(r \in N /\ q \in c.rows)
    BY <1>3, <1>10, <1>15
  <2> QED
    BY <1>8, <2>1, <2>2, <2>3
<1>20. \E top \in Nat : \A r \in new.rows : r.id <= top
  <2>1. \A r \in c.rows : r.id <= id + n
    BY <1>3, <1>15
  <2>2. id + n \in Nat
    BY <1>3
  <2> QED
    BY <1>8, <1>10, <2>1, <2>2
<1> QED
  BY <1>8, <1>14, <1>18, <1>19, <1>20 DEF Sound

(* A property that is removed leaves the others as they are.               *)
LEMMA DeleteKeeps ==
    ASSUME NEW c, Sound(c), NEW slot \in Slot,
           NEW bare, bare = DeleteMetadataProperty(c, slot)
    PROVE  /\ Sound(bare) /\ bare.objects = c.objects /\ bare.identifiers = c.identifiers
           /\ RowsOf(bare, slot) = {}
           /\ \A other \in Slot : other # slot => RowsOf(bare, other) = RowsOf(c, other)
<1>1. c \in FileType /\ bare = [c EXCEPT !.rows = @ \ RowsOf(c, slot)]
  BY DEF Sound, DeleteMetadataProperty
<1>2. /\ bare \in FileType /\ bare.rows = c.rows \ RowsOf(c, slot)
      /\ bare.objects = c.objects /\ bare.identifiers = c.identifiers
  BY <1>1 DEF FileType
<1>3. RowsOf(bare, slot) = {}
  BY <1>2 DEF RowsOf
<1>4. \A other \in Slot : other # slot => RowsOf(bare, other) = RowsOf(c, other)
  BY <1>2 DEF RowsOf
<1>5. InOrder({})
  <2>1. IsFiniteSet({}) /\ Cardinality({}) = 0 /\ 0..(0 - 1) = {}
    BY FS_EmptySet
  <2> QED
    BY <2>1 DEF InOrder
<1>6. \A other \in Slot : InOrder(RowsOf(bare, other))
  BY <1>3, <1>4, <1>5 DEF Sound
<1> QED
  BY <1>2, <1>3, <1>4, <1>6 DEF Sound
-----------------------------------------------------------------------------
(***************************************************************************)
(* The consumer's copy and the reader's traversal.                         *)
(***************************************************************************)

Word == {"nothing", "removed", "changed"}
News == [identifiers : SUBSET (Target \X Identifier), slots : [Slot -> Word]]

(* What is said of a transaction, compared with the file it started from.  *)
Tidings(said, c, f) ==
    /\ said \in News /\ said.identifiers = c.identifiers
    /\ \A slot \in Slot :
          /\ said.slots[slot] = "nothing" => RowsOf(c, slot) = RowsOf(f, slot)
          /\ said.slots[slot] = "removed" => RowsOf(c, slot) = {}

(* The consumer has what the file has.                                     *)
Copied == told = [identifiers |-> file.identifiers,
                  values |-> [slot \in Slot |-> MetadataValues(file, slot)]]

(* What stays all along is returned, or lies ahead of the cursor.          *)
Walks ==
    /\ DOMAIN walk = {"property", "exact", "after", "got", "always", "done"}
    /\ walk.done \in BOOLEAN
    /\ walk.done => walk.always \subseteq walk.got
    /\ ~walk.done => /\ walk.always \subseteq Matches(file, walk.property, walk.exact)
                     /\ \A r \in walk.always : r \in walk.got \/ Before(walk.after, Key(r))

AInv == Sound(file) /\ Sound(copy) /\ Tidings(news, copy, file) /\ Copied /\ Walks

(* A property without rows has no values.                                  *)
LEMMA NoValues ==
    ASSUME NEW f, NEW slot, RowsOf(f, slot) = {}
    PROVE  MetadataValues(f, slot) = <<>>
<1>1. Cardinality(RowsOf(f, slot)) = 0
  BY FS_EmptySet
<1>2. 1..0 = {}
  OBVIOUS
<1> QED
  BY <1>1, <1>2 DEF MetadataValues

(* The values are those of the property's rows.                            *)
LEMMA SameValues ==
    ASSUME NEW f, NEW g, NEW slot, RowsOf(f, slot) = RowsOf(g, slot)
    PROVE  MetadataValues(f, slot) = MetadataValues(g, slot)
BY DEF MetadataValues

LEMMA AInvInit == AttInit => AInv
<1> SUFFICES ASSUME AttInit PROVE AInv
  OBVIOUS
<1>1. /\ file = [objects |-> Given, identifiers |-> {}, rows |-> {}] /\ copy = file
      /\ news = [identifiers |-> {}, slots |-> Silent]
      /\ told = [identifiers |-> {}, values |-> [slot \in Slot |-> <<>>]]
      /\ walk = NoWalk
  BY DEF AttInit
<1>2. file \in FileType /\ file.rows = {} /\ file.identifiers = {}
  BY <1>1, TargetAssumption DEF FileType
<1>3. \A slot \in Slot : RowsOf(file, slot) = {}
  BY <1>2 DEF RowsOf
<1>4. InOrder({})
  <2>1. IsFiniteSet({}) /\ Cardinality({}) = 0 /\ 0..(0 - 1) = {}
    BY FS_EmptySet
  <2> QED
    BY <2>1 DEF InOrder
<1>5. Sound(file)
  <2>1. 0 \in Nat
    OBVIOUS
  <2> QED
    BY <1>2, <1>3, <1>4, <2>1 DEF Sound
<1>6. Tidings(news, copy, file)
  BY <1>1, <1>2 DEF Tidings, News, Silent, Word
<1>7. Copied
  <2>1. \A slot \in Slot : MetadataValues(file, slot) = <<>>
    BY <1>3, NoValues
  <2> QED
    BY <1>1, <1>2, <2>1 DEF Copied
<1>8. Walks
  BY <1>1 DEF Walks, NoWalk
<1> QED
  BY <1>1, <1>5, <1>6, <1>7, <1>8 DEF AInv

(* A call changes the copy and what will be said of it.                    *)
LEMMA StoredKeeps ==
    ASSUME AInv, NEW h, NEW c, NEW said, Stored(h, c, said), Sound(c), Tidings(said, c, file)
    PROVE  AInv'
<1>1. copy' = c /\ news' = said /\ file' = file /\ told' = told /\ walk' = walk
  BY DEF Stored
<1>2. Copied' /\ Walks'
  BY <1>1 DEF AInv, Copied, Walks
<1> QED
  BY <1>1, <1>2 DEF AInv

(* The last word on a property, when the others stay as they are.          *)
LEMMA LastWord ==
    ASSUME AInv, NEW c, Sound(c), NEW slot \in Slot, NEW word \in {"removed", "changed"},
           word = "removed" => RowsOf(c, slot) = {},
           c.identifiers = copy.identifiers,
           \A other \in Slot : other # slot => RowsOf(c, other) = RowsOf(copy, other)
    PROVE  Tidings(SaysSlot(slot, word), c, file)
<1>1. /\ news \in News /\ news.identifiers = copy.identifiers
      /\ \A other \in Slot :
            /\ news.slots[other] = "nothing" => RowsOf(copy, other) = RowsOf(file, other)
            /\ news.slots[other] = "removed" => RowsOf(copy, other) = {}
  BY DEF AInv, Tidings
<1> DEFINE said == SaysSlot(slot, word)
<1>2. word \in Word /\ word # "nothing"
  BY DEF Word
<1>3. said = [news EXCEPT !.slots = [news.slots EXCEPT ![slot] = word]]
  BY DEF SaysSlot
<1>4. [news.slots EXCEPT ![slot] = word] \in [Slot -> Word]
  BY <1>1, <1>2 DEF News
<1>5. /\ said \in News /\ said.identifiers = news.identifiers
      /\ said.slots = [news.slots EXCEPT ![slot] = word]
  BY <1>1, <1>3, <1>4 DEF News
<1>6. said.slots[slot] = word /\ \A other \in Slot : other # slot => said.slots[other] = news.slots[other]
  BY <1>1, <1>5 DEF News
<1> HIDE DEF said
<1>7. Tidings(said, c, file)
  BY <1>1, <1>2, <1>5, <1>6 DEF Tidings
<1> QED
  BY <1>7 DEF said

(* Objects and identifiers: no row of metadata changes.                    *)
LEMMA SameRows ==
    ASSUME NEW c, Sound(c), NEW new \in FileType, new.rows = c.rows
    PROVE  Sound(new) /\ \A slot : RowsOf(new, slot) = RowsOf(c, slot)
<1>1. \A slot : RowsOf(new, slot) = RowsOf(c, slot)
  BY DEF RowsOf
<1> QED
  BY <1>1 DEF Sound

LEMMA CreateObjectKeeps ==
    ASSUME AInv, NEW h, NEW t \in Target, CreateObject(h, t)
    PROVE  AInv'
<1> DEFINE c == [copy EXCEPT !.objects = @ \cup {t}]
<1>1. Stored(h, c, news)
  BY DEF CreateObject
<1>2. copy \in FileType
  BY DEF AInv, Sound
<1>3. c \in FileType /\ c.rows = copy.rows /\ c.identifiers = copy.identifiers
  BY <1>2 DEF FileType
<1> HIDE DEF c
<1>4. Sound(c) /\ \A slot : RowsOf(c, slot) = RowsOf(copy, slot)
  BY <1>3, SameRows DEF AInv
<1>5. Tidings(news, c, file)
  BY <1>3, <1>4 DEF AInv, Tidings
<1> QED
  BY <1>1, <1>4, <1>5, StoredKeeps

LEMMA IdentifiersKeep ==
    ASSUME AInv, NEW h, NEW ids \in SUBSET (Target \X Identifier),
           Stored(h, [copy EXCEPT !.identifiers = ids], [news EXCEPT !.identifiers = ids])
    PROVE  AInv'
<1> DEFINE c == [copy EXCEPT !.identifiers = ids]  said == [news EXCEPT !.identifiers = ids]
<1>1. copy \in FileType /\ news \in News
  BY DEF AInv, Sound, Tidings
<1>2. c \in FileType /\ c.rows = copy.rows /\ c.identifiers = ids
  BY <1>1 DEF FileType
<1>3. said \in News /\ said.identifiers = ids /\ said.slots = news.slots
  BY <1>1 DEF News
<1>4. Stored(h, c, said)
  OBVIOUS
<1> HIDE DEF c, said
<1>5. Sound(c) /\ \A slot : RowsOf(c, slot) = RowsOf(copy, slot)
  BY <1>2, SameRows DEF AInv
<1>6. Tidings(said, c, file)
  BY <1>2, <1>3, <1>5 DEF AInv, Tidings
<1> QED
  BY <1>4, <1>5, <1>6, StoredKeeps

LEMMA IdentifierCallsKeep ==
    ASSUME AInv, NEW h, NEW t \in Target, NEW i \in Identifier,
           AddExternalIdentifier(h, t, i) \/ RemoveExternalIdentifier(h, t, i)
    PROVE  AInv'
<1>1. /\ copy.identifiers \in SUBSET (Target \X Identifier)
      /\ news.identifiers = copy.identifiers
  BY DEF AInv, Sound, FileType, Tidings
<1>2. <<t, i>> \in Target \X Identifier
  OBVIOUS
<1>3. CASE AddExternalIdentifier(h, t, i)
  <2>1. Stored(h, [copy EXCEPT !.identifiers = copy.identifiers \cup {<<t, i>>}],
                  [news EXCEPT !.identifiers = copy.identifiers \cup {<<t, i>>}])
    BY <1>1, <1>3 DEF AddExternalIdentifier
  <2>2. copy.identifiers \cup {<<t, i>>} \in SUBSET (Target \X Identifier)
    BY <1>1, <1>2
  <2> QED
    BY <2>1, <2>2, IdentifiersKeep
<1>4. CASE RemoveExternalIdentifier(h, t, i)
  <2>1. Stored(h, [copy EXCEPT !.identifiers = copy.identifiers \ {<<t, i>>}],
                  [news EXCEPT !.identifiers = copy.identifiers \ {<<t, i>>}])
    BY <1>1, <1>4 DEF RemoveExternalIdentifier
  <2>2. copy.identifiers \ {<<t, i>>} \in SUBSET (Target \X Identifier)
    BY <1>1
  <2> QED
    BY <2>1, <2>2, IdentifiersKeep
<1> QED
  BY <1>3, <1>4

LEMMA AddValueKeeps ==
    ASSUME AInv, NEW h, NEW slot \in Slot, NEW value \in Value \cup {Unencodable},
           AddMetadataValue(h, slot, value)
    PROVE  AInv'
<1>1. value \in Value /\ <<value>> \in [1..1 -> Value]
  BY DEF AddMetadataValue
<1>2. PICK start : start = NextMetadataPosition(copy, slot)
  OBVIOUS
<1>3. start = Cardinality(RowsOf(copy, slot))
  BY <1>2, NextIsCount DEF AInv, Sound, NextMetadataPosition
<1>4. PICK c : c = InsertMetadataValues(copy, slot, start, <<value>>)
  OBVIOUS
<1>5. Stored(h, c, SaysSlot(slot, "changed"))
  BY <1>2, <1>4 DEF AddMetadataValue
<1>6. /\ Sound(c) /\ c.identifiers = copy.identifiers
      /\ \A other \in Slot : other # slot => RowsOf(c, other) = RowsOf(copy, other)
  <2>1. PICK n, values : n = 1 /\ values = <<value>>
    OBVIOUS
  <2>2. n \in Nat /\ values \in [1..n -> Value] /\ Sound(copy)
    BY <1>1, <2>1 DEF AInv
  <2>3. c = InsertMetadataValues(copy, slot, start, values)
    BY <1>4, <2>1
  <2> QED
    BY <1>3, <2>2, <2>3, InsertKeeps
<1>7. Tidings(SaysSlot(slot, "changed"), c, file)
  BY <1>6, LastWord
<1> QED
  BY <1>5, <1>6, <1>7, StoredKeeps

LEMMA RemovePropertyKeeps ==
    ASSUME AInv, NEW h, NEW slot \in Slot, RemoveMetadataProperty(h, slot)
    PROVE  AInv'
<1>1. PICK c : c = DeleteMetadataProperty(copy, slot)
  OBVIOUS
<1>2. Stored(h, c, SaysSlot(slot, "removed"))
  BY <1>1 DEF RemoveMetadataProperty
<1>3. /\ Sound(c) /\ c.identifiers = copy.identifiers /\ RowsOf(c, slot) = {}
      /\ \A other \in Slot : other # slot => RowsOf(c, other) = RowsOf(copy, other)
  BY <1>1, DeleteKeeps DEF AInv
<1>4. Tidings(SaysSlot(slot, "removed"), c, file)
  BY <1>3, LastWord
<1> QED
  BY <1>2, <1>3, <1>4, StoredKeeps

(* All values at once: those that were there go first.                     *)
LEMMA ReplaceKeeps ==
    ASSUME AInv, NEW h, NEW slot \in Slot, NEW n \in Nat,
           NEW values \in [1..n -> Value \cup {Unencodable}],
           ReplaceMetadataValues(h, slot, values), ~UNCHANGED attVars
    PROVE  AInv'
<1>1. values \in [1..n -> Value]
  BY DEF ReplaceMetadataValues
<1>2. PICK bare : bare = DeleteMetadataProperty(copy, slot)
  OBVIOUS
<1>3. PICK c : c = InsertMetadataValues(bare, slot, 0, values)
  OBVIOUS
<1>4. Stored(h, c, SaysSlot(slot, IF values = <<>> THEN "removed" ELSE "changed"))
  BY <1>2, <1>3 DEF ReplaceMetadataValues
<1>5. /\ Sound(bare) /\ bare.identifiers = copy.identifiers /\ RowsOf(bare, slot) = {}
      /\ \A other \in Slot : other # slot => RowsOf(bare, other) = RowsOf(copy, other)
  BY <1>2, DeleteKeeps DEF AInv
<1>6. Cardinality(RowsOf(bare, slot)) = 0
  BY <1>5, FS_EmptySet
<1>7. /\ Sound(c) /\ c.identifiers = copy.identifiers
      /\ \A other \in Slot : other # slot => RowsOf(c, other) = RowsOf(copy, other)
  <2>1. PICK start : start = 0
    OBVIOUS
  <2>2. start = Cardinality(RowsOf(bare, slot)) /\ c = InsertMetadataValues(bare, slot, start, values)
    BY <1>3, <1>6, <2>1
  <2>3. n \in Nat /\ Sound(bare)
    BY <1>5
  <2>4. /\ Sound(c) /\ c.identifiers = bare.identifiers
        /\ \A other \in Slot : other # slot => RowsOf(c, other) = RowsOf(bare, other)
    BY <1>1, <2>2, <2>3, InsertKeeps
  <2> QED
    BY <1>5, <2>4
<1>8. ASSUME values = <<>> PROVE RowsOf(c, slot) = {}
  <2>1. DOMAIN values = {}
    BY <1>8
  <2>2. c = [bare EXCEPT !.rows = @ \cup {}]
    BY <1>3, <2>1 DEF InsertMetadataValues
  <2>3. c.rows = bare.rows
    BY <2>2, <1>5 DEF Sound, FileType
  <2> QED
    BY <1>5, <2>3 DEF RowsOf
<1>9. PICK word \in {"removed", "changed"} :
         /\ word = (IF values = <<>> THEN "removed" ELSE "changed")
         /\ word = "removed" => RowsOf(c, slot) = {}
  BY <1>8
<1>10. Tidings(SaysSlot(slot, word), c, file)
  BY <1>7, <1>9, LastWord
<1> QED
  BY <1>4, <1>7, <1>9, <1>10, StoredKeeps

(* The rest of the transaction's life.                                     *)
LEMMA AttCommitKeeps ==
    ASSUME AInv, NEW h, AttCommit(h)
    PROVE  AInv'
<1>1. /\ file' = copy /\ copy' = copy
      /\ told' = [identifiers |-> news.identifiers, values |-> [slot \in Slot |-> Read(slot)]]
      /\ news' = [news EXCEPT !.slots = Silent]
      /\ walk' = IF walk.done THEN walk
                 ELSE [walk EXCEPT !.always = @ \cap Matches(copy, walk.property, walk.exact)]
  BY DEF AttCommit
<1>2. Sound(file') /\ Sound(copy')
  BY <1>1 DEF AInv
<1>3. /\ news \in News /\ news.identifiers = copy.identifiers
      /\ \A slot \in Slot :
            /\ news.slots[slot] = "nothing" => RowsOf(copy, slot) = RowsOf(file, slot)
            /\ news.slots[slot] = "removed" => RowsOf(copy, slot) = {}
  BY DEF AInv, Tidings
<1>4. ASSUME NEW slot \in Slot PROVE Read(slot) = MetadataValues(copy, slot)
  <2>1. news.slots[slot] \in Word
    BY <1>3 DEF News
  <2>2. CASE news.slots[slot] = "nothing"
    <3>1. Read(slot) = told.values[slot]
      BY <2>2 DEF Read
    <3>2. told.values[slot] = MetadataValues(file, slot)
      BY DEF AInv, Copied
    <3> QED
      BY <1>3, <2>2, <3>1, <3>2, SameValues
  <2>3. CASE news.slots[slot] = "removed"
    BY <1>3, <2>3, NoValues DEF Read
  <2>4. CASE news.slots[slot] = "changed"
    BY <2>4 DEF Read
  <2> QED
    BY <2>1, <2>2, <2>3, <2>4 DEF Word
<1>5. Copied'
  <2>1. told' = [identifiers |-> copy.identifiers,
                 values |-> [slot \in Slot |-> MetadataValues(copy, slot)]]
    BY <1>1, <1>3, <1>4
  <2> QED
    BY <1>1, <2>1 DEF Copied
<1>6. Tidings(news', copy', file')
  <2>1. /\ news' \in News /\ news'.identifiers = copy.identifiers
        /\ news'.slots = Silent
    BY <1>1, <1>3 DEF News, Silent, Word
  <2>2. \A slot \in Slot : news'.slots[slot] = "nothing"
    BY <2>1 DEF Silent
  <2> QED
    BY <1>1, <2>1, <2>2 DEF Tidings
<1>7. Walks'
  <2>1. CASE walk.done
    BY <1>1, <2>1 DEF AInv, Walks
  <2>2. CASE ~walk.done
    <3>1. walk' = [walk EXCEPT !.always = @ \cap Matches(copy, walk.property, walk.exact)]
      BY <1>1, <2>2
    <3>2. /\ DOMAIN walk' = {"property", "exact", "after", "got", "always", "done"}
          /\ walk'.always = walk.always \cap Matches(copy, walk.property, walk.exact)
          /\ walk'.done = walk.done /\ walk'.got = walk.got /\ walk'.after = walk.after
          /\ walk'.property = walk.property /\ walk'.exact = walk.exact
      BY <3>1 DEF AInv, Walks
    <3>3. \A r \in walk'.always : r \in walk.got \/ Before(walk.after, Key(r))
      BY <2>2, <3>2 DEF AInv, Walks
    <3>4. walk'.always \subseteq Matches(file', walk'.property, walk'.exact)
      BY <1>1, <3>2
    <3>5. walk'.done \in BOOLEAN /\ ~walk'.done
      BY <2>2, <3>2 DEF AInv, Walks
    <3> QED
      BY <3>2, <3>3, <3>4, <3>5 DEF Walks
  <2> QED
    BY <2>1, <2>2
<1> QED
  BY <1>2, <1>5, <1>6, <1>7 DEF AInv

LEMMA AttAbandonKeeps ==
    ASSUME AInv, NEW h, AttAbandon(h)
    PROVE  AInv'
<1>1. /\ file' = file /\ copy' = file /\ told' = told /\ walk' = walk
      /\ news' = [identifiers |-> told.identifiers, slots |-> Silent]
  BY DEF AttAbandon
<1>2. Sound(file') /\ Sound(copy') /\ Copied' /\ Walks'
  BY <1>1 DEF AInv, Copied, Walks
<1>3. /\ told.identifiers = file.identifiers
      /\ file.identifiers \in SUBSET (Target \X Identifier)
  BY DEF AInv, Copied, Sound, FileType
<1>4. news' \in News /\ \A slot \in Slot : news'.slots[slot] = "nothing"
  BY <1>1, <1>3 DEF News, Silent, Word
<1>5. Tidings(news', copy', file')
  BY <1>1, <1>3, <1>4 DEF Tidings
<1> QED
  BY <1>2, <1>5 DEF AInv

LEMMA StartWalkKeeps ==
    ASSUME AInv, NEW property, NEW exact, StartWalk(property, exact)
    PROVE  AInv'
<1>1. /\ file' = file /\ copy' = copy /\ told' = told /\ news' = news
      /\ walk' = [NoWalk EXCEPT !.property = property, !.exact = exact, !.done = FALSE,
                                !.always = Matches(file, property, exact)]
  BY DEF StartWalk, attachments
<1>2. /\ DOMAIN walk' = {"property", "exact", "after", "got", "always", "done"}
      /\ walk'.property = property /\ walk'.exact = exact /\ walk'.done = FALSE
      /\ walk'.always = Matches(file, property, exact) /\ walk'.after = <<0, 0, 0>>
  BY <1>1 DEF NoWalk
<1>3. ASSUME NEW r \in walk'.always PROVE Before(<<0, 0, 0>>, Key(r))
  <2>1. r \in Row
    BY <1>2, <1>3 DEF AInv, Sound, FileType, Matches
  <2>2. r.target \in Nat \ {0}
    BY <2>1, TargetAssumption DEF Row
  <2> QED
    BY <2>2 DEF Before, Key
<1>4. Walks'
  BY <1>1, <1>2, <1>3 DEF Walks
<1>5. Copied'
  BY <1>1 DEF AInv, Copied
<1> QED
  BY <1>1, <1>4, <1>5 DEF AInv

(* The key orders the rows of a file: no two have the same.                *)
LEMMA KeysAreOrdered ==
    ASSUME NEW r \in Row, NEW q \in Row, r.id # q.id
    PROVE  Precedes(r, q) \/ Precedes(q, r)
<1>1. /\ r.target \in Nat /\ q.target \in Nat
      /\ r.position \in Nat /\ q.position \in Nat /\ r.id \in Nat /\ q.id \in Nat
  BY TargetAssumption DEF Row
<1> QED
  BY <1>1 DEF Precedes, Before, Key

LEMMA NextPageKeeps ==
    ASSUME AInv, NextPage
    PROVE  AInv'
<1> DEFINE rest == {r \in Matches(file, walk.property, walk.exact) : Before(walk.after, Key(r))}
<1>1. /\ ~walk.done /\ file' = file /\ copy' = copy /\ told' = told /\ news' = news
  BY DEF NextPage, Reads, attachments
<1>2. PICK page \in SUBSET rest :
         /\ FirstPage(page, rest)
         /\ \/ /\ page = rest
               /\ walk' = [walk EXCEPT !.got = @ \cup page, !.done = TRUE]
            \/ /\ page # rest
               /\ \E last \in page :
                     /\ \A q \in page : q = last \/ Precedes(q, last)
                     /\ walk' = [walk EXCEPT !.got = @ \cup page, !.after = Key(last)]
  BY DEF NextPage, Reads
<1>3. /\ DOMAIN walk = {"property", "exact", "after", "got", "always", "done"}
      /\ walk.always \subseteq Matches(file, walk.property, walk.exact)
      /\ \A r \in walk.always : r \in walk.got \/ r \in rest
  BY <1>1 DEF AInv, Walks
<1>4. rest \subseteq file.rows /\ file.rows \subseteq Row
  BY DEF Matches, AInv, Sound, FileType
<1> HIDE DEF rest
<1>5. ASSUME page = rest, walk' = [walk EXCEPT !.got = @ \cup page, !.done = TRUE]
      PROVE  Walks'
  <2>1. /\ DOMAIN walk' = {"property", "exact", "after", "got", "always", "done"}
        /\ walk'.done = TRUE /\ walk'.got = walk.got \cup rest /\ walk'.always = walk.always
    BY <1>3, <1>5
  <2> QED
    BY <1>3, <2>1 DEF Walks
<1>6. ASSUME NEW last \in page, \A q \in page : q = last \/ Precedes(q, last),
             walk' = [walk EXCEPT !.got = @ \cup page, !.after = Key(last)]
      PROVE  Walks'
  <2>1. /\ DOMAIN walk' = {"property", "exact", "after", "got", "always", "done"}
        /\ walk'.done = walk.done /\ walk'.got = walk.got \cup page
        /\ walk'.always = walk.always /\ walk'.after = Key(last)
        /\ walk'.property = walk.property /\ walk'.exact = walk.exact
    BY <1>3, <1>6
  <2>2. ASSUME NEW r \in walk.always, r \notin walk.got, r \notin page
        PROVE  Before(Key(last), Key(r))
    <3>1. r \in rest /\ last \in rest /\ r # last
      BY <1>3, <2>2
    <3>2. ~Precedes(r, last)
      BY <1>2, <2>2, <3>1 DEF FirstPage
    <3>3. r.id # last.id /\ r \in Row /\ last \in Row
      BY <1>4, <3>1 DEF AInv, Sound
    <3> QED
      BY <3>2, <3>3, KeysAreOrdered DEF Precedes
  <2>3. walk'.done \in BOOLEAN /\ ~walk'.done
    BY <1>1, <2>1 DEF AInv, Walks
  <2> QED
    BY <1>1, <1>3, <2>1, <2>2, <2>3 DEF Walks
<1>7. Walks'
  BY <1>2, <1>5, <1>6
<1>8. Copied'
  BY <1>1 DEF AInv, Copied
<1> QED
  BY <1>1, <1>7, <1>8 DEF AInv
-----------------------------------------------------------------------------
LEMMA AInvStep == AInv /\ [AttNext]_attVars => AInv'
<1> SUFFICES ASSUME AInv, [AttNext]_attVars PROVE AInv'
  OBVIOUS
<1>1. ASSUME UNCHANGED <<attachments, walk>> PROVE AInv'
  <2>1. file' = file /\ copy' = copy /\ told' = told /\ news' = news /\ walk' = walk
    BY <1>1 DEF attachments
  <2> QED
    BY <2>1 DEF AInv, Copied, Walks
<1>2. CASE UNCHANGED attVars
  BY <1>1, <1>2 DEF attVars
<1>3. ASSUME NEW h \in Handle, RootStep(h) PROVE AInv'
  BY <1>1, <1>3 DEF RootStep
<1>4. ASSUME NEW h \in Handle, AttCommit(h) \/ AttAbandon(h) PROVE AInv'
  BY <1>4, AttCommitKeeps, AttAbandonKeeps
<1>5. ASSUME NEW h \in Handle, NEW t \in Target,
             \/ CreateObject(h, t)
             \/ \E i \in Identifier : \/ AddExternalIdentifier(h, t, i)
                                      \/ RemoveExternalIdentifier(h, t, i)
      PROVE  AInv'
  BY <1>5, CreateObjectKeeps, IdentifierCallsKeep
<1>6. ASSUME NEW h \in Handle, NEW slot \in Slot,
             \/ RemoveMetadataProperty(h, slot)
             \/ \E v \in Value \cup {Unencodable} : AddMetadataValue(h, slot, v)
      PROVE  AInv'
  BY <1>6, RemovePropertyKeeps, AddValueKeeps
<1>7. ASSUME NEW h \in Handle, NEW slot \in Slot, NEW n \in 0..MaxValues,
             NEW values \in [1..n -> Value \cup {Unencodable}],
             ReplaceMetadataValues(h, slot, values)
      PROVE  AInv'
  <2>1. n \in Nat
    BY ValueAssumption
  <2> QED
    BY <1>2, <1>7, <2>1, ReplaceKeeps
<1>8. CASE NextPage
  BY <1>8, NextPageKeeps
<1>9. ASSUME NEW p \in Property, NEW exact, StartWalk(p, exact) PROVE AInv'
  BY <1>9, StartWalkKeeps
<1> QED
  BY <1>2, <1>3, <1>4, <1>5, <1>6, <1>7, <1>8, <1>9 DEF AttNext

(* The rows of the file and of the open transaction, what will be said of  *)
(* it, the consumer's copy and the reader's traversal stay as described.   *)
THEOREM AttachmentsAreSound == AttSpec => []AInv
BY AInvInit, AInvStep, PTL DEF AttSpec

(* A consumer of the feed that loads what the events name has the          *)
(* identifiers and the values of the file, and finds names as the file     *)
(* does; a property's positions have no gap.                               *)
THEOREM FeedAlwaysTellsAttachments == AttSpec => []FeedTellsAttachments
<1>1. AInv => FeedTellsAttachments
  <2> SUFFICES ASSUME AInv PROVE FeedTellsAttachments
    OBVIOUS
  <2>1. /\ told.identifiers = file.identifiers
        /\ file.identifiers \subseteq Target \X Identifier
        /\ \A slot \in Slot : told.values[slot] = MetadataValues(file, slot)
        /\ \A slot \in Slot : InOrder(RowsOf(file, slot))
    BY DEF AInv, Copied, Sound, FileType
  <2>2. \A a \in file.identifiers : a = <<a[1], a[2]>>
    BY <2>1
  <2>3. ASSUME NEW n \in Name, NEW t \in Target
        PROVE  t \in FindByExternalIdentifier(file, n) <=>
                  \E i \in ExternalIdentifiers(file, t) :
                      i.name = n /\ <<t, i>> \in told.identifiers
    <3>1. t \in FindByExternalIdentifier(file, n) <=>
             \E a \in file.identifiers : a[1] = t /\ a[2].name = n
      BY DEF FindByExternalIdentifier
    <3>2. \A i : i \in ExternalIdentifiers(file, t) <=>
             \E a \in file.identifiers : a[1] = t /\ a[2] = i
      BY DEF ExternalIdentifiers
    <3>3. ASSUME NEW a \in file.identifiers, a[1] = t, a[2].name = n
          PROVE  \E i \in ExternalIdentifiers(file, t) :
                    i.name = n /\ <<t, i>> \in told.identifiers
      <4>1. a[2] \in ExternalIdentifiers(file, t)
        BY <3>2, <3>3
      <4>2. <<t, a[2]>> \in told.identifiers
        BY <2>1, <2>2, <3>3
      <4> QED
        BY <3>3, <4>1, <4>2
    <3>4. ASSUME NEW i, i.name = n, <<t, i>> \in told.identifiers
          PROVE  \E a \in file.identifiers : a[1] = t /\ a[2].name = n
      <4>1. <<t, i>> \in file.identifiers /\ <<t, i>>[1] = t /\ <<t, i>>[2] = i
        BY <2>1, <3>4
      <4> QED
        BY <3>4, <4>1
    <3> QED
      BY <3>1, <3>3, <3>4
  <2> QED
    BY <2>1, <2>3 DEF FeedTellsAttachments, InOrder
<1> QED
  BY <1>1, AttachmentsAreSound, PTL

(* A traversal of a metadata query returns every assertion that is there   *)
(* from its first page to its last, for every page size.                   *)
THEOREM AssertionsAreAlwaysFound == AttSpec => []AssertionsAreFound
<1>1. AInv => AssertionsAreFound
  BY DEF AInv, Walks, AssertionsAreFound
<1> QED
  BY <1>1, AttachmentsAreSound, PTL

(* The calls on identifiers and metadata share the transactions of the     *)
(* media roots and take nothing from what was shown of them.               *)
THEOREM RootsStayKnownBesides == AttSpec => Spec /\ []RootsAreKnown
<1>1. AttInit => Init
  BY DEF AttInit
<1>2. [AttNext]_attVars => [Next]_vars
  <2> SUFFICES ASSUME [AttNext]_attVars PROVE [Next]_vars
    OBVIOUS
  <2>1. CASE UNCHANGED attVars
    BY <2>1 DEF attVars
  <2>2. ASSUME NEW h \in Handle, RootStep(h) PROVE [Next]_vars
    BY <2>2 DEF RootStep, Next
  <2>3. ASSUME NEW h \in Handle, AttCommit(h) \/ AttAbandon(h) PROVE [Next]_vars
    BY <2>3 DEF AttCommit, AttAbandon, Next
  <2>4. ASSUME NEW h \in Handle, NEW c, NEW said, Stored(h, c, said) PROVE [Next]_vars
    BY <2>4 DEF Stored
  <2>5. CASE NextPage \/ \E p \in Property, exact \in {{}} \cup {{v} : v \in Value} : StartWalk(p, exact)
    BY <2>5 DEF NextPage, Reads, StartWalk
  <2>6. ASSUME NEW h \in Handle, NEW t \in Target,
               \/ CreateObject(h, t)
               \/ \E i \in Identifier : \/ AddExternalIdentifier(h, t, i)
                                        \/ RemoveExternalIdentifier(h, t, i)
        PROVE  [Next]_vars
    BY <2>4, <2>6 DEF CreateObject, AddExternalIdentifier, RemoveExternalIdentifier
  <2>7. ASSUME NEW h \in Handle, NEW slot \in Slot,
               \/ RemoveMetadataProperty(h, slot)
               \/ \E v \in Value \cup {Unencodable} : AddMetadataValue(h, slot, v)
               \/ \E values : ReplaceMetadataValues(h, slot, values)
        PROVE  [Next]_vars
    BY <2>1, <2>4, <2>7 DEF RemoveMetadataProperty, AddMetadataValue, ReplaceMetadataValues
  <2> QED
    BY <2>1, <2>2, <2>3, <2>5, <2>6, <2>7 DEF AttNext
<1>3. AttSpec => Spec
  BY <1>1, <1>2, PTL DEF AttSpec, Spec
<1> QED
  BY <1>3, RootsStayKnown, PTL
=============================================================================
