--------------------------- MODULE JobStoreProofs ---------------------------
(***************************************************************************)
(* Proofs about JobStore for every set of handles, jobs, tokens and        *)
(* outputs and every bound.  The argument has three layers.  TypeCorrect   *)
(* is inductive by itself.  On top of it, IInv says that the file the open *)
(* transaction would publish is consistent, not only the committed one;    *)
(* without that half a commit could publish anything.  StagedFollows says  *)
(* how far the open transaction may have moved each job from its committed *)
(* row, of which leases and the refinement of JobLedger are consequences.  *)
(***************************************************************************)
EXTENDS JobStore, SequenceTheorems, TLAPS

(* Every constructor of a job row satisfies the table's CHECK constraint.  *)
LEMMA RowTypes ==
    /\ Absent \in JobRow /\ Requested \in JobRow
    /\ Failed \in JobRow /\ Cancelled \in JobRow
    /\ \A c \in Claim, e \in 0..MaxTime : Claimed(c, e) \in JobRow
    /\ \A r \in Repr : Succeeded(r) \in JobRow
BY NullAssumption, BoundAssumption
   DEF Absent, Requested, Failed, Cancelled, Claimed, Succeeded, Row, JobRow, States

(* The open transaction's copy stays a file when one job row changes.      *)
LEMMA SetJobType ==
    ASSUME work \in File, NEW j \in Job, NEW row \in JobRow
    PROVE  SetJob(j, row) \in File
BY DEF SetJob, File

(* The journal with the staged events appended: its length, the entries it *)
(* keeps and the entries it adds.                                          *)
LEMMA PublishedProps ==
    ASSUME NEW journal \in Seq(Entry), NEW events \in Seq(EventType)
    PROVE  /\ Published(journal, events) \in Seq(Entry)
           /\ Len(Published(journal, events)) = Len(journal) + Len(events)
           /\ \A i \in 1..Len(journal) : Published(journal, events)[i] = journal[i]
           /\ \A i \in 1..Len(events) :
                 Published(journal, events)[Len(journal) + i] =
                    [rev |-> LastSequence(journal) + 1, event |-> events[i]]
<1> DEFINE stamped == [i \in DOMAIN events |->
                          [rev |-> LastSequence(journal) + 1, event |-> events[i]]]
<1>1. LastSequence(journal) \in Nat
  <2>1. ASSUME journal # <<>> PROVE journal[Len(journal)] \in Entry
    <3>1. Len(journal) \in 1..Len(journal)
      BY <2>1, EmptySeq, LenProperties
    <3> QED
      BY <3>1, ElementOfSeq
  <2> QED
    BY <2>1 DEF LastSequence, Entry
<1>2. events \in [1..Len(events) -> EventType] /\ Len(events) \in Nat
  BY LenProperties
<1>3. stamped \in [1..Len(events) -> Entry]
  BY <1>1, <1>2 DEF Entry
<1>4. stamped \in Seq(Entry)
  BY <1>2, <1>3, SeqDef
<1>5. Len(stamped) = Len(events)
  BY <1>2, <1>3, <1>4, LenProperties
<1>6. \A i \in 1..Len(events) :
         stamped[i] = [rev |-> LastSequence(journal) + 1, event |-> events[i]]
  BY <1>2
<1>7. Published(journal, events) = journal \o stamped
  BY DEF Published
<1> HIDE DEF stamped
<1>8. /\ journal \o stamped \in Seq(Entry)
      /\ Len(journal \o stamped) = Len(journal) + Len(stamped)
      /\ \A i \in 1..(Len(journal) + Len(stamped)) : (journal \o stamped)[i] =
            IF i <= Len(journal) THEN journal[i] ELSE stamped[i - Len(journal)]
  BY <1>4, ConcatProperties
<1>9. Len(journal) \in Nat
  BY LenProperties
<1>10. ASSUME NEW i \in 1..Len(events)
       PROVE  (journal \o stamped)[Len(journal) + i] = stamped[i]
  <2>1. /\ Len(journal) + i \in 1..(Len(journal) + Len(stamped))
        /\ ~(Len(journal) + i <= Len(journal))
        /\ (Len(journal) + i) - Len(journal) = i
    BY <1>2, <1>5, <1>9
  <2> QED
    BY <2>1, <1>8
<1> QED
  BY <1>2, <1>5, <1>6, <1>7, <1>8, <1>9, <1>10
-----------------------------------------------------------------------------
(* A mutation keeps the types when its new copy and its events have them.  *)
LEMMA StageType ==
    ASSUME TypeOK, NEW h \in Handle, NEW file \in File, NEW events \in Seq(EventType),
           Stage(h, file, events), issued' \in SUBSET Claim
    PROVE  TypeOK'
BY NullAssumption DEF TypeOK, Stage

LEMMA EventTypes ==
    /\ \A k \in JobEvents, j \in Job : <<Event(k, j)>> \in Seq(EventType)
    /\ <<>> \in Seq(EventType)
BY DEF EventType, Event

(* Whatever the fault, the completion's partial file and events are typed. *)
LEMMA CompleteJobInnerType ==
    ASSUME work \in File, NEW j \in Job, NEW r \in Repr, NEW fault \in Faults
    PROVE  /\ CompleteJobInner(j, r, fault).file \in File
           /\ CompleteJobInner(j, r, fault).events \in Seq(EventType)
<1>1. Succeeded(r) \in JobRow
  BY RowTypes
<1>2. <<Event("RepresentationAdded", r)>> \in Seq(EventType)
  BY DEF EventType, OutputEvents, Event
<1>3. <<Event("ActivityCreated", r), Event("JobSucceeded", j)>> \in Seq(EventType)
  BY DEF EventType, OutputEvents, JobEvents, Event
<1>4. /\ [work EXCEPT !.reprs = @ \cup {r}] \in File
      /\ [[work EXCEPT !.reprs = @ \cup {r}] EXCEPT !.activities = @ \cup {r},
             !.jobs[j] = Succeeded(r)] \in File
  BY <1>1 DEF File
<1> QED
  BY <1>2, <1>3, <1>4 DEF CompleteJobInner, Faults

LEMMA TypeStep == TypeOK /\ [Next]_vars => TypeOK'
<1> SUFFICES ASSUME TypeOK, [Next]_vars PROVE TypeOK'
  OBVIOUS
<1> USE BoundAssumption
<1>0. work \in File
  BY DEF TypeOK
<1>1. CASE Tick
  BY <1>1 DEF Tick, TypeOK
<1>2. ASSUME NEW h \in Handle, Begin(h) PROVE TypeOK'
  BY <1>2, NullAssumption DEF Begin, TypeOK
<1>3. ASSUME NEW h \in Handle, Commit(h) PROVE TypeOK'
  <2>1. work.journal \in Seq(Entry) /\ pending \in Seq(EventType)
    BY DEF TypeOK, File
  <2>2. Published(work.journal, pending) \in Seq(Entry)
    BY <2>1, PublishedProps
  <2>3. [work EXCEPT !.journal = Published(@, pending)] \in File
    BY <2>2, <1>0 DEF File
  <2> QED
    BY <2>3, <1>3 DEF Commit, TypeOK
<1>4. ASSUME NEW h \in Handle, Abandon(h) PROVE TypeOK'
  BY <1>4 DEF Abandon, TypeOK
<1>5. ASSUME NEW h \in Handle, NEW j \in Job, RequestJob(h, j) PROVE TypeOK'
  BY <1>0, <1>5, RowTypes, SetJobType, EventTypes, StageType
     DEF RequestJob, TypeOK, JobEvents
<1>6. ASSUME NEW h \in Handle, NEW j \in Job, CancelJob(h, j) PROVE TypeOK'
  BY <1>0, <1>6, RowTypes, SetJobType, EventTypes, StageType
     DEF CancelJob, TypeOK, JobEvents
<1>7. ASSUME NEW h \in Handle, NEW j \in Job, NEW c \in Claim, ReleaseJobClaim(h, j, c)
      PROVE  TypeOK'
  BY <1>0, <1>7, RowTypes, SetJobType, EventTypes, StageType
     DEF ReleaseJobClaim, TypeOK, JobEvents
<1>8. ASSUME NEW h \in Handle, NEW j \in Job, NEW c \in Claim, NEW now \in Now,
             FailJob(h, j, c, now)
      PROVE  TypeOK'
  BY <1>0, <1>8, RowTypes, SetJobType, EventTypes, StageType
     DEF FailJob, TypeOK, JobEvents
<1>9. ASSUME NEW h \in Handle, NEW j \in Job, NEW c \in Claim, NEW now \in Now,
             NEW expires \in 1..MaxTime, ClaimJob(h, j, c, now, expires)
      PROVE  TypeOK'
  <2>1. Claimed(c, expires) \in JobRow
    BY RowTypes
  <2>2. issued' \in SUBSET Claim
    BY <1>9 DEF ClaimJob, TypeOK
  <2> QED
    BY <1>0, <1>9, <2>1, <2>2, SetJobType, EventTypes, StageType DEF ClaimJob, JobEvents
<1>10. ASSUME NEW h \in Handle, NEW j \in Job, NEW c \in Claim, NEW now \in Now,
              NEW expires \in 1..MaxTime, RenewJobClaim(h, j, c, now, expires)
       PROVE  TypeOK'
  <2>1. Claimed(c, expires) \in JobRow
    BY RowTypes
  <2>2. issued' \in SUBSET Claim
    BY <1>10 DEF RenewJobClaim, TypeOK
  <2> QED
    BY <1>0, <1>10, <2>1, <2>2, SetJobType, EventTypes, StageType
       DEF RenewJobClaim, JobEvents
<1>11. ASSUME NEW h \in Handle, NEW j \in Job, NEW c \in Claim, NEW now \in Now,
              NEW r \in Repr, NEW fault \in Faults, CompleteJob(h, j, c, now, r, fault)
       PROVE  TypeOK'
  BY <1>0, <1>11, CompleteJobInnerType, EventTypes, StageType DEF CompleteJob, TypeOK
<1>12. CASE UNCHANGED vars
  BY <1>12 DEF vars, TypeOK
<1> QED
  BY <1>1, <1>2, <1>3, <1>4, <1>5, <1>6, <1>7, <1>8, <1>9, <1>10, <1>11, <1>12 DEF Next

LEMMA TypeInit == Init => TypeOK
<1> SUFFICES ASSUME Init PROVE TypeOK
  OBVIOUS
<1>1. EmptyFile \in File
  BY RowTypes DEF EmptyFile, File
<1> QED
  BY <1>1, BoundAssumption DEF Init, TypeOK

(* Every reachable state is well typed: job rows obey their CHECK          *)
(* constraint through every transition, and a closed transaction leaves    *)
(* nothing staged.                                                         *)
THEOREM TypeCorrect == Spec => []TypeOK
BY TypeInit, TypeStep, PTL DEF Spec
-----------------------------------------------------------------------------
(***************************************************************************)
(* The second layer: what the open transaction would publish.              *)
(***************************************************************************)

IInv == /\ TypeOK
        /\ Consistent(db.journal, db)
        /\ StagedIsConsistent

(* longer is journal with entries for the given events at its end.         *)
Grows(journal, longer, events) ==
    /\ longer \in Seq(Entry)
    /\ Len(longer) = Len(journal) + Len(events)
    /\ \A i \in 1..Len(journal) : longer[i] = journal[i]
    /\ \A i \in 1..Len(events) : longer[Len(journal) + i].event = events[i]
    /\ \A i, k \in 1..Len(events) :
          longer[Len(journal) + i].rev = longer[Len(journal) + k].rev

LEMMA EntryFields ==
    ASSUME NEW n, NEW e
    PROVE  [rev |-> n, event |-> e].rev = n /\ [rev |-> n, event |-> e].event = e
OBVIOUS

(* Staging more events grows the revision that a commit would publish.     *)
LEMMA StagingGrows ==
    ASSUME NEW journal \in Seq(Entry),
           NEW events \in Seq(EventType), NEW more \in Seq(EventType)
    PROVE  Grows(Published(journal, events), Published(journal, events \o more), more)
<1> DEFINE all == events \o more
<1>1. /\ all \in Seq(EventType) /\ Len(all) = Len(events) + Len(more)
      /\ \A i \in 1..(Len(events) + Len(more)) :
            all[i] = IF i <= Len(events) THEN events[i] ELSE more[i - Len(events)]
  BY ConcatProperties
<1>2. Len(journal) \in Nat /\ Len(events) \in Nat /\ Len(more) \in Nat
  BY LenProperties
<1> HIDE DEF all
<1> DEFINE J == Published(journal, events)
           K == Published(journal, all)
           rev == LastSequence(journal) + 1
<1>3. /\ J \in Seq(Entry) /\ Len(J) = Len(journal) + Len(events)
      /\ \A i \in 1..Len(journal) : J[i] = journal[i]
      /\ \A i \in 1..Len(events) : J[Len(journal) + i] = [rev |-> rev, event |-> events[i]]
  BY PublishedProps
<1>4. /\ K \in Seq(Entry) /\ Len(K) = Len(journal) + Len(all)
      /\ \A i \in 1..Len(journal) : K[i] = journal[i]
      /\ \A i \in 1..Len(all) : K[Len(journal) + i] = [rev |-> rev, event |-> all[i]]
  BY <1>1, PublishedProps
<1> HIDE DEF J, K, rev
<1>5. Len(K) = Len(J) + Len(more)
  BY <1>1, <1>2, <1>3, <1>4
<1>6. ASSUME NEW i \in 1..Len(J) PROVE K[i] = J[i]
  <2>1. CASE i <= Len(journal)
    BY <2>1, <1>2, <1>3, <1>4
  <2>2. CASE i > Len(journal)
    <3> DEFINE d == i - Len(journal)
    <3>1. d \in 1..Len(events) /\ d \in 1..Len(all) /\ i = Len(journal) + d
      BY <2>2, <1>1, <1>2, <1>3
    <3>2. all[d] = events[d]
      BY <3>1, <1>1, <1>2
    <3> HIDE DEF d
    <3> QED
      BY <3>1, <3>2, <1>3, <1>4
  <2> QED
    BY <2>1, <2>2, <1>2, <1>3
<1>7. ASSUME NEW i \in 1..Len(more)
      PROVE  K[Len(J) + i] = [rev |-> rev, event |-> more[i]]
  <2> DEFINE d == Len(events) + i
  <2>1. d \in 1..Len(all) /\ Len(J) + i = Len(journal) + d
    BY <1>1, <1>2, <1>3
  <2>2. all[d] = more[i]
    <3>1. ~(d <= Len(events)) /\ d - Len(events) = i /\ d \in 1..(Len(events) + Len(more))
      BY <1>2
    <3> HIDE DEF d
    <3> QED
      BY <3>1, <1>1
  <2> HIDE DEF d
  <2> QED
    BY <2>1, <2>2, <1>4
<1>8. /\ \A i \in 1..Len(more) : K[Len(J) + i].event = more[i]
      /\ \A i \in 1..Len(more) : K[Len(J) + i].rev = rev
  <2> SUFFICES ASSUME NEW i \in 1..Len(more)
               PROVE  K[Len(J) + i].event = more[i] /\ K[Len(J) + i].rev = rev
    OBVIOUS
  <2>1. K[Len(J) + i] = [rev |-> rev, event |-> more[i]]
    BY <1>7
  <2> QED
    BY <2>1, EntryFields
<1>9. Grows(J, K, more)
  BY <1>4, <1>5, <1>6, <1>8 DEF Grows
<1> QED
  BY <1>9 DEF J, K, all


(* Events of one job transition: the last is about j, the others about     *)
(* outputs.                                                                *)
ToldOf(events, k, j) ==
    /\ Len(events) > 0
    /\ k \in JobEvents
    /\ events[Len(events)] = Event(k, j)
    /\ \A i \in 1..(Len(events) - 1) : events[i].kind \notin JobEvents

(* Which entries of the longer journal are about which job.                *)
LEMMA AboutGrown ==
    ASSUME NEW J \in Seq(Entry), NEW K, NEW events \in Seq(EventType), Grows(J, K, events),
           NEW k, NEW j \in Job, ToldOf(events, k, j)
    PROVE  /\ DOMAIN J = 1..Len(J) /\ DOMAIN K = 1..Len(K)
           /\ Len(J) \in Nat /\ Len(K) \in Nat /\ Len(K) > Len(J)
           /\ K[Len(K)].event = Event(k, j)
           /\ \A i \in DOMAIN J : K[i] = J[i]
           /\ \A i \in DOMAIN K : i \in DOMAIN J \/ i = Len(K)
                                   \/ K[i].event.kind \notin JobEvents
           /\ \A i \in DOMAIN K, x \in Job : IsAbout(K[i], x) =>
                   (i \in DOMAIN J /\ IsAbout(J[i], x)) \/ (i = Len(K) /\ x = j)
<1>1. /\ Len(J) \in Nat /\ DOMAIN J = 1..Len(J)
      /\ K \in Seq(Entry) /\ Len(K) \in Nat /\ DOMAIN K = 1..Len(K)
      /\ Len(events) \in Nat
  BY LenProperties DEF Grows
<1>2. Len(K) = Len(J) + Len(events) /\ Len(events) > 0
  BY DEF Grows, ToldOf
<1>3. K[Len(K)].event = Event(k, j)
  <2>1. Len(events) \in 1..Len(events)
    BY <1>1, <1>2
  <2> QED
    BY <2>1, <1>2 DEF Grows, ToldOf
<1>4. \A i \in DOMAIN J : K[i] = J[i]
  BY <1>1 DEF Grows
<1>5. ASSUME NEW i \in DOMAIN K, i \notin DOMAIN J, i # Len(K)
      PROVE  K[i].event.kind \notin JobEvents
  <2> DEFINE d == i - Len(J)
  <2>1. d \in 1..(Len(events) - 1) /\ d \in 1..Len(events) /\ i = Len(J) + d
    <3>1. i \in 1..Len(K) /\ i \notin 1..Len(J) /\ i # Len(K)
      BY <1>1, <1>5
    <3>2. /\ Len(J) \in Nat /\ Len(events) \in Nat
          /\ Len(K) = Len(J) + Len(events)
      BY <1>1, <1>2
    <3> QED
      BY <3>1, <3>2
  <2> HIDE DEF d
  <2>2. K[i].event = events[d]
    BY <2>1 DEF Grows
  <2> QED
    BY <2>1, <2>2 DEF ToldOf
<1>6. ASSUME NEW i \in DOMAIN K, NEW x \in Job, IsAbout(K[i], x)
      PROVE  (i \in DOMAIN J /\ IsAbout(J[i], x)) \/ (i = Len(K) /\ x = j)
  BY <1>3, <1>4, <1>5, <1>6 DEF IsAbout, Event
<1> QED
  BY <1>1, <1>2, <1>3, <1>4, <1>5, <1>6

(* The row of an open or new job moves to the state its event announces.   *)
Moves(before, k, row) ==
    /\ row.state = After(k) /\ row.state # "absent"
    /\ before.state \notin Terminal
    /\ k = "JobRequested" <=> before.state = "absent"

(* One transition of a job that had not ended keeps the table and the      *)
(* journal in agreement, and the histories legal.                          *)
LEMMA TransitionTold ==
    ASSUME NEW J \in Seq(Entry), NEW K, NEW events \in Seq(EventType), Grows(J, K, events),
           NEW k, NEW j \in Job, ToldOf(events, k, j),
           NEW jobs \in [Job -> JobRow], NEW row \in JobRow,
           Moves(jobs[j], k, row), Explains(J, jobs), IsLegal(J)
    PROVE  Explains(K, [jobs EXCEPT ![j] = row]) /\ IsLegal(K)
<1> USE DEF Moves
<1> DEFINE after == [jobs EXCEPT ![j] = row]
<1>1. /\ DOMAIN J = 1..Len(J) /\ DOMAIN K = 1..Len(K)
      /\ Len(J) \in Nat /\ Len(K) \in Nat /\ Len(K) > Len(J)
      /\ K[Len(K)].event = Event(k, j)
      /\ \A i \in DOMAIN J : K[i] = J[i]
      /\ \A i \in DOMAIN K, x \in Job : IsAbout(K[i], x) =>
              (i \in DOMAIN J /\ IsAbout(J[i], x)) \/ (i = Len(K) /\ x = j)
  BY AboutGrown
<1>2. IsAbout(K[Len(K)], j) /\ Len(K) \in DOMAIN K /\ DOMAIN J \subseteq DOMAIN K
  BY <1>1 DEF IsAbout, Event, ToldOf
<1>3. after[j] = row /\ \A x \in Job : x # j => after[x] = jobs[x]
  OBVIOUS
<1> HIDE DEF after
<1>4. Explains(K, after)
  <2> SUFFICES ASSUME NEW x \in Job
               PROVE  /\ after[x].state = "absent" <=> ~\E i \in DOMAIN K : IsAbout(K[i], x)
                      /\ \A i \in DOMAIN K : IsLastOf(K, i, x) =>
                            after[x].state = After(K[i].event.kind)
    BY DEF Explains
  <2>1. CASE x = j
    <3>1. after[x].state # "absent" /\ \E i \in DOMAIN K : IsAbout(K[i], x)
      BY <2>1, <1>2, <1>3
    <3>2. ASSUME NEW i \in DOMAIN K, IsLastOf(K, i, x)
          PROVE  after[x].state = After(K[i].event.kind)
      <4>1. i = Len(K)
        BY <2>1, <3>2, <1>1, <1>2 DEF IsLastOf
      <4> QED
        BY <4>1, <2>1, <1>1, <1>3 DEF Event
    <3> QED
      BY <3>1, <3>2
  <2>2. CASE x # j
    <3>1. after[x] = jobs[x]
      BY <2>2, <1>3
    <3>2. \A i \in DOMAIN K : IsAbout(K[i], x) <=> i \in DOMAIN J /\ IsAbout(J[i], x)
      BY <2>2, <1>1, <1>2
    <3>3. ASSUME NEW i \in DOMAIN K, IsLastOf(K, i, x)
          PROVE  IsLastOf(J, i, x) /\ J[i] = K[i]
      BY <3>3, <3>2, <1>1, <1>2 DEF IsLastOf
    <3>4. /\ jobs[x].state = "absent" <=> ~\E i \in DOMAIN J : IsAbout(J[i], x)
          /\ \A i \in DOMAIN J : IsLastOf(J, i, x) => jobs[x].state = After(J[i].event.kind)
      BY DEF Explains
    <3>5. \A i \in DOMAIN K : IsLastOf(K, i, x) => i \in DOMAIN J
      BY <3>3 DEF IsLastOf
    <3> QED
      BY <3>1, <3>2, <3>3, <3>4, <3>5, <1>2
  <2> QED
    BY <2>1, <2>2
<1>5. \A i \in DOMAIN J : IsAbout(J[i], j) =>
         After(J[i].event.kind) \notin Terminal /\ k # "JobRequested"
  <2> SUFFICES ASSUME NEW i \in DOMAIN J, IsAbout(J[i], j)
               PROVE  After(J[i].event.kind) \notin Terminal /\ k # "JobRequested"
    OBVIOUS
  <2>1. jobs[j].state # "absent"
    BY DEF Explains
  <2>2. ASSUME After(J[i].event.kind) \in Terminal PROVE FALSE
    <3>1. \A m \in DOMAIN J : IsAbout(J[m], j) => ~(i < m)
      BY <2>2 DEF IsLegal
    <3>2. IsLastOf(J, i, j)
      BY <3>1, <1>1 DEF IsLastOf
    <3> QED
      BY <3>2, <2>2 DEF Explains
  <2> QED
    BY <2>1, <2>2
<1>6. IsLegal(K)
  <2> SUFFICES ASSUME NEW i \in DOMAIN K, NEW m \in DOMAIN K, NEW x \in Job,
                      i < m, IsAbout(K[i], x), IsAbout(K[m], x)
               PROVE  /\ After(K[i].event.kind) \notin Terminal
                      /\ K[m].event.kind # "JobRequested"
    BY DEF IsLegal
  <2>1. i \in DOMAIN J /\ IsAbout(J[i], x) /\ K[i] = J[i]
    BY <1>1
  <2>2. CASE m \in DOMAIN J
    BY <2>1, <2>2, <1>1 DEF IsLegal
  <2>3. CASE m \notin DOMAIN J
    <3>1. m = Len(K) /\ x = j /\ K[m].event.kind = k
      BY <2>3, <1>1 DEF Event
    <3> QED
      BY <3>1, <2>1, <1>5
  <2> QED
    BY <2>2, <2>3
<1> QED
  BY <1>4, <1>6 DEF after


OnlyChanges(j, jobs, after) == \A x \in Job : x # j => after[x] = jobs[x]

(* A success that the journal already tells stays explained by its output: *)
(* the job is terminal, so no later transition touches its row.            *)
LEMMA OldSuccesses ==
    ASSUME NEW J \in Seq(Entry), NEW K, NEW events \in Seq(EventType), Grows(J, K, events),
           NEW k, NEW j \in Job, ToldOf(events, k, j),
           NEW jobs \in [Job -> JobRow], jobs[j].state \notin Terminal,
           NEW after, OnlyChanges(j, jobs, after),
           Explains(J, jobs), IsLegal(J), CarriesOutput(J, jobs)
    PROVE  \A i \in DOMAIN J :
              J[i].event.kind = "JobSucceeded" => AnnouncesOutput(K, i, after)
<1> SUFFICES ASSUME NEW i \in DOMAIN J, J[i].event.kind = "JobSucceeded"
             PROVE  AnnouncesOutput(K, i, after)
  OBVIOUS
<1> DEFINE x == J[i].event.subject
<1>1. /\ DOMAIN J \subseteq DOMAIN K /\ DOMAIN J = 1..Len(J) /\ Len(J) \in Nat
      /\ \A m \in DOMAIN J : K[m] = J[m]
  BY AboutGrown
<1>2. x \in Job /\ IsAbout(J[i], x)
  <2>1. J[i] \in Entry
    BY <1>1, ElementOfSeq
  <2> QED
    BY <2>1 DEF Entry, EventType, OutputEvents, JobEvents, IsAbout
<1>3. After(J[i].event.kind) = "succeeded"
  BY DEF After
<1>4. IsLastOf(J, i, x)
  BY <1>1, <1>2, <1>3 DEF IsLegal, IsLastOf, Terminal
<1>5. jobs[x].state = "succeeded"
  BY <1>2, <1>3, <1>4 DEF Explains
<1>6. x # j
  BY <1>5 DEF Terminal
<1>7. after[x] = jobs[x]
  BY <1>2, <1>6 DEF OnlyChanges
<1> SUFFICES ASSUME NEW kind \in OutputEvents
             PROVE  \E m \in DOMAIN K :
                       /\ K[m].rev = K[i].rev
                       /\ K[m].event = Event(kind, after[K[i].event.subject].output)
  BY DEF AnnouncesOutput
<1>8. PICK m \in DOMAIN J :
         J[m].rev = J[i].rev /\ J[m].event = Event(kind, jobs[x].output)
  BY DEF CarriesOutput, AnnouncesOutput
<1>9. K[m] = J[m] /\ K[i] = J[i] /\ m \in DOMAIN K
  BY <1>1
<1> QED
  BY <1>7, <1>8, <1>9

(* Outputs are untouched by a transition that is not a success.            *)
LEMMA OutputsKept ==
    ASSUME NEW file \in File, NEW j \in Job, NEW row \in JobRow,
           file.jobs[j].state # "succeeded", row.state # "succeeded",
           NEW file2 \in File, file2.jobs = [file.jobs EXCEPT ![j] = row],
           file2.reprs = file.reprs, file2.activities = file.activities,
           OutputsMatch(file)
    PROVE  OutputsMatch(file2)
<1> DEFINE done == {x \in Job : file.jobs[x].state = "succeeded"}
           done2 == {x \in Job : file2.jobs[x].state = "succeeded"}
<1>1. file.jobs \in [Job -> JobRow]
  BY DEF File
<1>2. done2 = done /\ \A x \in done : file2.jobs[x] = file.jobs[x]
  BY <1>1
<1>3. {file2.jobs[x].output : x \in done2} = {file.jobs[x].output : x \in done}
  BY <1>2
<1> QED
  BY <1>2, <1>3 DEF OutputsMatch

(* A success adds its output and activity, which no other job owns.        *)
LEMMA OutputsAdded ==
    ASSUME NEW file \in File, NEW j \in Job, NEW r \in Repr, r \notin file.reprs,
           file.jobs[j].state # "succeeded",
           NEW file2 \in File, file2.jobs = [file.jobs EXCEPT ![j] = Succeeded(r)],
           file2.reprs = file.reprs \cup {r}, file2.activities = file.activities \cup {r},
           OutputsMatch(file)
    PROVE  OutputsMatch(file2)
<1> DEFINE done == {x \in Job : file.jobs[x].state = "succeeded"}
           done2 == {x \in Job : file2.jobs[x].state = "succeeded"}
<1>1. file.jobs \in [Job -> JobRow]
  BY DEF File
<1>2. Succeeded(r).state = "succeeded" /\ Succeeded(r).output = r
  BY DEF Succeeded, Row
<1>3. file2.jobs[j] = Succeeded(r) /\ \A x \in Job : x # j => file2.jobs[x] = file.jobs[x]
  BY <1>1
<1>4. done2 = done \cup {j} /\ j \notin done
  BY <1>2, <1>3
<1>5. \A x \in done : file2.jobs[x] = file.jobs[x]
  BY <1>3, <1>4
<1>6. {file2.jobs[x].output : x \in done2} = {file.jobs[x].output : x \in done} \cup {r}
  BY <1>2, <1>3, <1>4, <1>5
<1>7. /\ file.reprs = {file.jobs[x].output : x \in done}
      /\ file.activities = file.reprs
      /\ \A x, y \in done : file.jobs[x].output = file.jobs[y].output => x = y
  BY DEF OutputsMatch
<1>8. \A x \in done : file.jobs[x].output # r
  BY <1>7
<1>9. \A x, y \in done2 : file2.jobs[x].output = file2.jobs[y].output => x = y
  BY <1>2, <1>3, <1>4, <1>5, <1>7, <1>8
<1> QED
  BY <1>6, <1>7, <1>9 DEF OutputsMatch

-----------------------------------------------------------------------------
LEMMA StagedNonEmpty ==
    ASSUME NEW events \in Seq(EventType), NEW more \in Seq(EventType), Len(more) > 0
    PROVE  events \o more # <<>>
<1>1. Len(events \o more) = Len(events) + Len(more)
  BY ConcatProperties
<1>2. Len(events) \in Nat /\ Len(more) \in Nat
  BY LenProperties
<1>3. Len(events \o more) # 0
  BY <1>1, <1>2
<1> QED
  BY <1>3, EmptySeq

(* A transition other than success, staged with its event.                 *)
LEMMA SimpleTransition ==
    ASSUME IInv, NEW h \in Handle, NEW j \in Job, NEW row \in JobRow,
           NEW k \in JobEvents \ {"JobSucceeded"},
           row.state = After(k), work.jobs[j].state \notin Terminal,
           k = "JobRequested" <=> work.jobs[j].state = "absent",
           Stage(h, SetJob(j, row), <<Event(k, j)>>)
    PROVE  StagedIsConsistent' /\ db' = db
<1> DEFINE more == <<Event(k, j)>>
           J == Published(work.journal, pending)
           K == Published(work.journal, pending \o more)
<1>1. /\ work \in File /\ work.jobs \in [Job -> JobRow]
      /\ work.journal \in Seq(Entry) /\ pending \in Seq(EventType)
  BY DEF IInv, TypeOK, File
<1>2. SetJob(j, row) \in File
  BY <1>1, SetJobType
<1>3. /\ work' = SetJob(j, row) /\ pending' = pending \o more /\ db' = db
  BY DEF Stage
<1>4. /\ work'.jobs = [work.jobs EXCEPT ![j] = row]
      /\ work'.reprs = work.reprs /\ work'.activities = work.activities
      /\ work'.journal = work.journal
  BY <1>1, <1>3 DEF SetJob, File
<1>5. more \in Seq(EventType) /\ Len(more) = 1 /\ more[1] = Event(k, j)
  BY EventTypes
<1>6. ToldOf(more, k, j)
  BY <1>5 DEF ToldOf
<1>7. J \in Seq(Entry) /\ Grows(J, K, more)
  BY <1>1, <1>5, PublishedProps, StagingGrows
<1>8. /\ Explains(J, work.jobs) /\ IsLegal(J) /\ CarriesOutput(J, work.jobs)
      /\ OutputsMatch(work) /\ work.journal = db.journal
  BY DEF IInv, StagedIsConsistent, Consistent
<1> HIDE DEF J, K, more
<1>9. Moves(work.jobs[j], k, row) /\ row.state # "succeeded"
  BY DEF After, JobEvents, Moves
<1>10. Explains(K, work'.jobs) /\ IsLegal(K)
  BY <1>1, <1>4, <1>5, <1>6, <1>7, <1>8, <1>9, TransitionTold, SMTT(30)
<1>11. OutputsMatch(work')
  <2>1. work.jobs[j].state # "succeeded"
    BY DEF Terminal
  <2> QED
    BY <2>1, <1>1, <1>2, <1>3, <1>4, <1>8, <1>9, OutputsKept, ZenonT(60)
<1>12. CarriesOutput(K, work'.jobs)
  <2> SUFFICES ASSUME NEW i \in DOMAIN K, K[i].event.kind = "JobSucceeded"
               PROVE  AnnouncesOutput(K, i, work'.jobs)
    BY DEF CarriesOutput
  <2>1. /\ K[Len(K)].event = Event(k, j)
        /\ \A n \in DOMAIN J : K[n] = J[n]
        /\ \A n \in DOMAIN K : n \in DOMAIN J \/ n = Len(K) \/ K[n].event.kind \notin JobEvents
    BY <1>5, <1>6, <1>7, AboutGrown
  <2>2. i \in DOMAIN J /\ J[i].event.kind = "JobSucceeded"
    BY <2>1 DEF Event, JobEvents
  <2> DEFINE after == [work.jobs EXCEPT ![j] = row]
  <2>3. OnlyChanges(j, work.jobs, after)
    BY <1>1 DEF OnlyChanges
  <2> HIDE DEF after
  <2>4. J \in Seq(Entry) /\ more \in Seq(EventType) /\ Grows(J, K, more) /\ ToldOf(more, k, j)
    BY <1>5, <1>6, <1>7
  <2>5. work.jobs \in [Job -> JobRow] /\ work.jobs[j].state \notin Terminal
    BY <1>1
  <2>6. Explains(J, work.jobs) /\ IsLegal(J) /\ CarriesOutput(J, work.jobs)
    BY <1>8
  <2>7. \A m \in DOMAIN J :
           J[m].event.kind = "JobSucceeded" => AnnouncesOutput(K, m, after)
    BY <2>3, <2>4, <2>5, <2>6, OldSuccesses
  <2> QED
    BY <2>2, <2>7, <1>4 DEF after
<1>13. pending' # <<>>
  <2>0. Len(more) > 0
    BY <1>5
  <2>1. pending \o more # <<>>
    BY <2>0, <1>1, <1>5, StagedNonEmpty, Zenon
  <2> QED
    BY <2>1, <1>3
<1>14. Published(work'.journal, pending') = K
  BY <1>3, <1>4 DEF K
<1> QED
  BY <1>3, <1>4, <1>8, <1>10, <1>11, <1>12, <1>13, <1>14
     DEF StagedIsConsistent, Consistent


(* A completion that ran to its end: output, activity and job row change   *)
(* together and their three events enter the same revision.                *)
LEMMA CompletionTransition ==
    ASSUME IInv, NEW h \in Handle, NEW j \in Job, NEW r \in Repr, r \notin work.reprs,
           work.jobs[j].state = "claimed",
           Stage(h, CompleteJobInner(j, r, "none").file,
                    CompleteJobInner(j, r, "none").events)
    PROVE  StagedIsConsistent' /\ db' = db
<1> DEFINE more == <<Event("RepresentationAdded", r), Event("ActivityCreated", r),
                     Event("JobSucceeded", j)>>
           J == Published(work.journal, pending)
           K == Published(work.journal, pending \o more)
<1>1. /\ work \in File /\ work.jobs \in [Job -> JobRow]
      /\ work.journal \in Seq(Entry) /\ pending \in Seq(EventType)
  BY DEF IInv, TypeOK, File
<1>2. /\ CompleteJobInner(j, r, "none").events = more
      /\ CompleteJobInner(j, r, "none").file =
            [[work EXCEPT !.reprs = @ \cup {r}]
                EXCEPT !.activities = @ \cup {r}, !.jobs[j] = Succeeded(r)]
  BY DEF CompleteJobInner
<1>3. pending' = pending \o more /\ db' = db
  BY <1>2 DEF Stage
<1>4. work' = CompleteJobInner(j, r, "none").file /\ work' \in File
  BY <1>1, CompleteJobInnerType DEF Stage, Faults
<1>5. /\ work'.jobs = [work.jobs EXCEPT ![j] = Succeeded(r)]
      /\ work'.reprs = work.reprs \cup {r}
      /\ work'.activities = work.activities \cup {r}
      /\ work'.journal = work.journal
  BY <1>1, <1>2, <1>4 DEF File
<1>6. /\ more \in Seq(EventType) /\ Len(more) = 3
      /\ more[1] = Event("RepresentationAdded", r)
      /\ more[2] = Event("ActivityCreated", r)
      /\ more[3] = Event("JobSucceeded", j)
  BY DEF EventType, Event, JobEvents, OutputEvents
<1> HIDE DEF more
<1>7. ToldOf(more, "JobSucceeded", j)
  <2>1. \A i \in 1..2 : more[i].kind \notin JobEvents
    BY <1>6 DEF Event, JobEvents
  <2> QED
    BY <2>1, <1>6 DEF ToldOf, JobEvents
<1>8. J \in Seq(Entry) /\ Grows(J, K, more)
  BY <1>1, <1>6, PublishedProps, StagingGrows
<1>9. /\ Explains(J, work.jobs) /\ IsLegal(J) /\ CarriesOutput(J, work.jobs)
      /\ OutputsMatch(work) /\ work.journal = db.journal
  BY DEF IInv, StagedIsConsistent, Consistent
<1>10. Published(work'.journal, pending') = K
  BY <1>3, <1>5
<1> HIDE DEF J, K
<1>11. /\ Succeeded(r) \in JobRow /\ Succeeded(r).state = "succeeded"
       /\ Succeeded(r).output = r
  BY RowTypes DEF Succeeded, Row
<1>12. /\ Moves(work.jobs[j], "JobSucceeded", Succeeded(r))
       /\ work.jobs[j].state \notin Terminal /\ work.jobs[j].state # "succeeded"
  BY <1>11 DEF After, Terminal, Moves
<1>13. Explains(K, work'.jobs) /\ IsLegal(K)
  BY <1>1, <1>5, <1>6, <1>7, <1>8, <1>9, <1>11, <1>12, TransitionTold
<1>14. OutputsMatch(work')
  BY <1>1, <1>4, <1>5, <1>9, <1>12, OutputsAdded
<1>15. CarriesOutput(K, work'.jobs)
  <2> DEFINE after == [work.jobs EXCEPT ![j] = Succeeded(r)]
  <2>1. OnlyChanges(j, work.jobs, after) /\ after[j] = Succeeded(r)
    BY <1>1 DEF OnlyChanges
  <2> HIDE DEF after
  <2>2. \A m \in DOMAIN J :
           J[m].event.kind = "JobSucceeded" => AnnouncesOutput(K, m, after)
    BY <2>1, <1>1, <1>6, <1>7, <1>8, <1>9, <1>12, OldSuccesses
  <2>3. /\ K[Len(K)].event = Event("JobSucceeded", j)
        /\ DOMAIN K = 1..Len(K) /\ Len(J) \in Nat
        /\ \A n \in DOMAIN J : K[n] = J[n]
        /\ \A n \in DOMAIN K : n \in DOMAIN J \/ n = Len(K) \/ K[n].event.kind \notin JobEvents
    BY <1>6, <1>7, <1>8, AboutGrown
  <2>4. /\ Len(K) = Len(J) + 3
        /\ K[Len(J) + 1].event = more[1] /\ K[Len(J) + 2].event = more[2]
        /\ K[Len(J) + 1].rev = K[Len(J) + 3].rev
        /\ K[Len(J) + 2].rev = K[Len(J) + 3].rev
    BY <1>6, <1>8, <2>3 DEF Grows
  <2>5. AnnouncesOutput(K, Len(K), after)
    <3> SUFFICES ASSUME NEW kind \in OutputEvents
                 PROVE  \E m \in DOMAIN K :
                           /\ K[m].rev = K[Len(K)].rev
                           /\ K[m].event = Event(kind, after[K[Len(K)].event.subject].output)
      BY DEF AnnouncesOutput
    <3>1. K[Len(K)].event.subject = j
      BY <2>3 DEF Event
    <3>2. after[j].output = r
      BY <2>1, <1>11
    <3>3. Len(J) + 1 \in DOMAIN K /\ Len(J) + 2 \in DOMAIN K
      BY <2>3, <2>4
    <3>4. CASE kind = "RepresentationAdded"
      BY <3>1, <3>2, <3>3, <3>4, <2>4, <1>6
    <3>5. CASE kind = "ActivityCreated"
      BY <3>1, <3>2, <3>3, <3>5, <2>4, <1>6
    <3> QED
      BY <3>4, <3>5 DEF OutputEvents
  <2>6. CarriesOutput(K, after)
    <3> SUFFICES ASSUME NEW i \in DOMAIN K, K[i].event.kind = "JobSucceeded"
                 PROVE  AnnouncesOutput(K, i, after)
      BY DEF CarriesOutput
    <3>1. CASE i = Len(K)
      BY <3>1, <2>5
    <3>2. CASE i # Len(K)
      <4>1. i \in DOMAIN J /\ J[i].event.kind = "JobSucceeded"
        BY <3>2, <2>3 DEF JobEvents
      <4> QED
        BY <4>1, <2>2
    <3> QED
      BY <3>1, <3>2
  <2> QED
    BY <2>6, <1>5 DEF after
<1>16. pending' # <<>>
  <2>1. Len(more) > 0
    BY <1>6
  <2>2. pending \o more # <<>>
    BY <2>1, <1>1, <1>6, StagedNonEmpty, Zenon
  <2> QED
    BY <2>2, <1>3
<1> QED
  BY <1>3, <1>5, <1>9, <1>10, <1>13, <1>14, <1>15, <1>16 DEF StagedIsConsistent, Consistent


(* Publishing nothing leaves the journal as it is.                         *)
LEMMA PublishedNothing ==
    ASSUME NEW journal \in Seq(Entry)
    PROVE  Published(journal, <<>>) = journal
<1>1. <<>> \in Seq(EventType) /\ Len(<<>>) = 0
  BY EmptySeq
<1>2. /\ Published(journal, <<>>) \in Seq(Entry)
      /\ Len(Published(journal, <<>>)) = Len(journal) + 0
      /\ \A i \in 1..Len(journal) : Published(journal, <<>>)[i] = journal[i]
  BY <1>1, PublishedProps
<1>3. Len(journal) + 0 = Len(journal)
  BY LenProperties
<1> QED
  BY <1>2, <1>3, SeqEqual

(* Where each constructor of a row stands among the states.                *)
LEMMA RowStates ==
    /\ Requested.state = "requested" /\ Failed.state = "failed"
    /\ Cancelled.state = "cancelled" /\ Absent.state = "absent"
    /\ \A c, e : Claimed(c, e).state = "claimed"
BY DEF Requested, Failed, Cancelled, Absent, Claimed, Row

LEMMA AfterKinds ==
    /\ After("JobRequested") = "requested" /\ After("JobClaimReleased") = "requested"
    /\ After("JobClaimed") = "claimed" /\ After("JobClaimRenewed") = "claimed"
    /\ After("JobFailed") = "failed" /\ After("JobCancelled") = "cancelled"
BY DEF After

LEMMA ConsistentStep == IInv /\ [Next]_vars => IInv'
<1> SUFFICES ASSUME IInv, [Next]_vars PROVE IInv'
  OBVIOUS
<1>0. TypeOK /\ TypeOK'
  BY TypeStep DEF IInv
<1> DEFINE Rest == Consistent(db.journal, db) /\ StagedIsConsistent
<1> SUFFICES Rest'
  BY <1>0 DEF IInv
<1> USE DEF JobEvents, Terminal
<1>a. Consistent(db.journal, db) /\ StagedIsConsistent
  BY DEF IInv
<1>b. /\ db.journal \in Seq(Entry) /\ work.journal \in Seq(Entry)
      /\ work \in File /\ db \in File
      /\ Published(db.journal, <<>>) = db.journal
  BY <1>0, PublishedNothing DEF TypeOK, File
<1>c. ASSUME StagedIsConsistent', db' = db PROVE Rest'
  BY <1>c, <1>a
<1>1. CASE Tick
  BY <1>1, <1>a DEF Tick, StagedIsConsistent
<1>2. ASSUME NEW h \in Handle, Begin(h) PROVE Rest'
  BY <1>2, <1>a, <1>b DEF Begin, StagedIsConsistent
<1>3. ASSUME NEW h \in Handle, Abandon(h) PROVE Rest'
  BY <1>3, <1>a, <1>b DEF Abandon, StagedIsConsistent
<1>4. ASSUME NEW h \in Handle, Commit(h) PROVE Rest'
  <2> DEFINE K == Published(work.journal, pending)
  <2>1. Consistent(K, work)
    BY <1>a DEF StagedIsConsistent
  <2>2. /\ db' = [work EXCEPT !.journal = K] /\ work' = db' /\ pending' = <<>>
    BY <1>4 DEF Commit
  <2> HIDE DEF K
  <2>3. /\ db'.journal = K /\ db'.jobs = work.jobs
        /\ db'.reprs = work.reprs /\ db'.activities = work.activities
    BY <2>2, <1>b DEF File
  <2>4. Consistent(db'.journal, db')
    BY <2>1, <2>3 DEF Consistent, OutputsMatch
  <2>5. db'.journal \in Seq(Entry)
    BY <1>0 DEF TypeOK, File
  <2>6. Published(db'.journal, <<>>) = db'.journal
    BY <2>5, PublishedNothing
  <2> QED
    BY <2>2, <2>4, <2>6 DEF StagedIsConsistent
<1>5. ASSUME NEW h \in Handle, NEW j \in Job, RequestJob(h, j) PROVE Rest'
  <2>1. /\ Stage(h, SetJob(j, Requested), <<Event("JobRequested", j)>>)
        /\ work.jobs[j].state = "absent"
    BY <1>5 DEF RequestJob
  <2> QED
    BY <2>1, <1>c, RowTypes, RowStates, AfterKinds, SimpleTransition
<1>6. ASSUME NEW h \in Handle, NEW j \in Job, CancelJob(h, j) PROVE Rest'
  <2>1. /\ Stage(h, SetJob(j, Cancelled), <<Event("JobCancelled", j)>>)
        /\ work.jobs[j].state \in {"requested", "claimed"}
    BY <1>6 DEF CancelJob
  <2> QED
    BY <2>1, <1>c, RowTypes, RowStates, AfterKinds, SimpleTransition
<1>7. ASSUME NEW h \in Handle, NEW j \in Job, NEW c \in Claim, ReleaseJobClaim(h, j, c)
      PROVE  Rest'
  <2>1. /\ Stage(h, SetJob(j, Requested), <<Event("JobClaimReleased", j)>>)
        /\ work.jobs[j].state = "claimed"
    BY <1>7 DEF ReleaseJobClaim
  <2> QED
    BY <2>1, <1>c, RowTypes, RowStates, AfterKinds, SimpleTransition
<1>8. ASSUME NEW h \in Handle, NEW j \in Job, NEW c \in Claim, NEW now \in Now,
             FailJob(h, j, c, now)
      PROVE  Rest'
  <2>1. /\ Stage(h, SetJob(j, Failed), <<Event("JobFailed", j)>>)
        /\ work.jobs[j].state = "claimed"
    BY <1>8 DEF FailJob, HoldsLease
  <2> QED
    BY <2>1, <1>c, RowTypes, RowStates, AfterKinds, SimpleTransition
<1>9. ASSUME NEW h \in Handle, NEW j \in Job, NEW c \in Claim, NEW now \in Now,
             NEW expires \in 1..MaxTime, ClaimJob(h, j, c, now, expires)
      PROVE  Rest'
  <2>1. /\ Stage(h, SetJob(j, Claimed(c, expires)), <<Event("JobClaimed", j)>>)
        /\ work.jobs[j].state \in {"requested", "claimed"}
    BY <1>9 DEF ClaimJob
  <2>2. Claimed(c, expires) \in JobRow
    BY RowTypes, BoundAssumption
  <2> QED
    BY <2>1, <2>2, <1>c, RowStates, AfterKinds, SimpleTransition
<1>10. ASSUME NEW h \in Handle, NEW j \in Job, NEW c \in Claim, NEW now \in Now,
              NEW expires \in 1..MaxTime, RenewJobClaim(h, j, c, now, expires)
       PROVE  Rest'
  <2>1. /\ Stage(h, SetJob(j, Claimed(c, expires)), <<Event("JobClaimRenewed", j)>>)
        /\ work.jobs[j].state = "claimed"
    BY <1>10 DEF RenewJobClaim, HoldsLease
  <2>2. Claimed(c, expires) \in JobRow
    BY RowTypes, BoundAssumption
  <2> QED
    BY <2>1, <2>2, <1>c, RowStates, AfterKinds, SimpleTransition
<1>11. ASSUME NEW h \in Handle, NEW j \in Job, NEW c \in Claim, NEW now \in Now,
              NEW r \in Repr, NEW fault \in Faults, CompleteJob(h, j, c, now, r, fault)
       PROVE  Rest'
  <2>1. CASE fault = "none"
    <3>1. /\ Stage(h, CompleteJobInner(j, r, "none").file,
                       CompleteJobInner(j, r, "none").events)
          /\ work.jobs[j].state = "claimed" /\ r \notin work.reprs
      BY <1>11, <2>1 DEF CompleteJob, HoldsLease
    <3> QED
      BY <3>1, <1>c, CompletionTransition
  <2>2. CASE fault # "none"
    <3>1. Stage(h, work, <<>>)
      BY <1>11, <2>2 DEF CompleteJob
    <3>2. work' = work /\ pending' = pending \o <<>> /\ db' = db
      BY <3>1 DEF Stage
    <3>3. pending' = pending
      BY <3>2, <1>0, ConcatEmptySeq DEF TypeOK
    <3> QED
      BY <3>2, <3>3, <1>a DEF StagedIsConsistent
  <2> QED
    BY <2>1, <2>2
<1>12. CASE UNCHANGED vars
  BY <1>12, <1>a DEF vars, StagedIsConsistent
<1> QED
  BY <1>1, <1>2, <1>3, <1>4, <1>5, <1>6, <1>7, <1>8, <1>9, <1>10, <1>11, <1>12 DEF Next

(* The empty file and the empty journal agree.                             *)
LEMMA ConsistentInit == Init => IInv
<1> SUFFICES ASSUME Init PROVE IInv
  OBVIOUS
<1>1. TypeOK
  BY TypeInit
<1>2. /\ db = EmptyFile /\ work = EmptyFile /\ pending = <<>>
      /\ EmptyFile.journal = <<>> /\ EmptyFile.reprs = {} /\ EmptyFile.activities = {}
      /\ \A j \in Job : EmptyFile.jobs[j] = Absent
  BY DEF Init, EmptyFile
<1>3. DOMAIN EmptyFile.journal = {}
  BY <1>2
<1>4. Consistent(<<>>, EmptyFile)
  <2>1. Explains(<<>>, EmptyFile.jobs) /\ IsLegal(<<>>) /\ CarriesOutput(<<>>, EmptyFile.jobs)
    BY <1>2, <1>3, RowStates DEF Explains, IsLegal, CarriesOutput, IsLastOf
  <2>2. {j \in Job : EmptyFile.jobs[j].state = "succeeded"} = {}
    BY <1>2, RowStates
  <2> QED
    BY <2>1, <2>2, <1>2 DEF Consistent, OutputsMatch
<1>5. Published(<<>>, <<>>) = <<>>
  BY PublishedNothing, EmptySeq
<1> QED
  BY <1>1, <1>2, <1>4, <1>5 DEF IInv, StagedIsConsistent

(* In every reachable state the committed file is consistent, and so is    *)
(* the file that the open transaction would publish.                       *)
THEOREM AlwaysConsistent == Spec => []IInv
BY ConsistentInit, ConsistentStep, PTL DEF Spec

(* The change feed tells the state of every job: its last published event  *)
(* determines it, whatever transactions failed or were abandoned.          *)
THEOREM FeedTellsJobs == Spec => []JournalExplainsJobs
<1>1. IInv => JournalExplainsJobs
  BY DEF IInv, Consistent, JournalExplainsJobs
<1> QED
  BY <1>1, AlwaysConsistent, PTL

(* Outputs and activities exist exactly for succeeded jobs, one each.      *)
THEOREM OutputsBelongToSuccesses == Spec => []NoOrphanOutputs
<1>1. IInv => NoOrphanOutputs
  BY DEF IInv, Consistent, NoOrphanOutputs
<1> QED
  BY <1>1, AlwaysConsistent, PTL

(* The feed never shows an event of a job after it ended, nor a second     *)
(* request of the same job.                                                *)
THEOREM HistoriesAreLegal == Spec => []LegalHistories
<1>1. IInv => LegalHistories
  BY DEF IInv, Consistent, LegalHistories
<1> QED
  BY <1>1, AlwaysConsistent, PTL

(* The revision that announces a success announces its output and activity.*)
THEOREM SuccessIsComplete == Spec => []SuccessCarriesOutput
<1>1. IInv => SuccessCarriesOutput
  BY DEF IInv, Consistent, SuccessCarriesOutput
<1> QED
  BY <1>1, AlwaysConsistent, PTL

(* What an open transaction would publish if it committed now tells its    *)
(* own copy of the jobs, after any completion that failed half way.        *)
THEOREM StagedTellsJobs == Spec => []StagedIsConsistent
<1>1. IInv => StagedIsConsistent
  BY DEF IInv
<1> QED
  BY <1>1, AlwaysConsistent, PTL
-----------------------------------------------------------------------------
(***************************************************************************)
(* The third layer: how far the open transaction may have moved a job from *)
(* its committed row.  A commit makes that distance one step of what a     *)
(* reader sees, so it decides both who may lose a lease and what a         *)
(* revision may do to a job.                                               *)
(***************************************************************************)

HandedBack(j) == \E i \in DOMAIN pending : pending[i] = Event("JobClaimReleased", j)

(* A committed lease is still there, was handed back or has run out, or    *)
(* its job has ended.                                                      *)
LeaseFollows(j) ==
    LET before == db.jobs[j]  after == work.jobs[j]
    IN before.state = "claimed" =>
          \/ after.state \in Terminal
          \/ before.expires <= clock
          \/ HandedBack(j)
          \/ /\ after.state = "claimed" /\ after.claim = before.claim
             /\ after.expires >= before.expires

(* What has ended stays as it is, what exists stays.                       *)
RowFollows(j) ==
    /\ db.jobs[j].state \in Terminal => work.jobs[j] = db.jobs[j]
    /\ db.jobs[j].state # "absent" => work.jobs[j].state # "absent"

StagedFollows == \A j \in Job : RowFollows(j) /\ LeaseFollows(j)

(* A lease is replaced by its renewal, or when it has run out.             *)
LeaseMoves(before, row) ==
    row.state = "claimed" =>
        \/ before.state # "claimed"
        \/ before.expires <= clock
        \/ row.claim = before.claim /\ row.expires >= before.expires

(* One more transition of a job that had not ended keeps the distance.     *)
LEMMA TransitionFollows ==
    ASSUME IInv, StagedFollows, TypeOK', NEW h \in Handle, NEW j \in Job, NEW row \in JobRow,
           NEW events \in Seq(EventType),
           NEW file, Stage(h, file, events), file.jobs = [work.jobs EXCEPT ![j] = row],
           work.jobs[j].state \notin Terminal, row.state # "absent",
           row.state = "requested" =>
                work.jobs[j].state = "absent" \/ events = <<Event("JobClaimReleased", j)>>,
           LeaseMoves(work.jobs[j], row)
    PROVE  StagedFollows'
<1>1. /\ work.jobs \in [Job -> JobRow] /\ db.jobs \in [Job -> JobRow]
      /\ pending \in Seq(EventType) /\ clock \in 0..MaxTime
  BY DEF IInv, TypeOK, File
<1>2. /\ db' = db /\ clock' = clock /\ work'.jobs = [work.jobs EXCEPT ![j] = row]
      /\ pending' = pending \o events
  BY DEF Stage
<1>3. /\ DOMAIN pending = 1..Len(pending) /\ Len(pending) \in Nat /\ Len(events) \in Nat
      /\ DOMAIN pending' = 1..(Len(pending) + Len(events))
      /\ \A i \in 1..(Len(pending) + Len(events)) :
            pending'[i] = IF i <= Len(pending) THEN pending[i] ELSE events[i - Len(pending)]
  BY <1>1, <1>2, ConcatProperties, LenProperties
<1>4. ASSUME NEW x \in Job, HandedBack(x) PROVE HandedBack(x)'
  <2>1. PICK i \in DOMAIN pending : pending[i] = Event("JobClaimReleased", x)
    BY <1>4 DEF HandedBack
  <2>2. i \in DOMAIN pending' /\ pending'[i] = pending[i]
    BY <1>3
  <2> QED
    BY <2>1, <2>2 DEF HandedBack
<1>5. ASSUME events = <<Event("JobClaimReleased", j)>> PROVE HandedBack(j)'
  <2>1. Len(events) = 1 /\ events[1] = Event("JobClaimReleased", j)
    BY <1>5
  <2>2. /\ Len(pending) + 1 \in DOMAIN pending'
        /\ pending'[Len(pending) + 1] = Event("JobClaimReleased", j)
    BY <2>1, <1>3
  <2> QED
    BY <2>2 DEF HandedBack
<1> SUFFICES ASSUME NEW x \in Job PROVE (RowFollows(x) /\ LeaseFollows(x))'
  BY DEF StagedFollows
<1>6. RowFollows(x) /\ LeaseFollows(x)
  BY DEF StagedFollows
<1>7. CASE x # j
  <2>1. work'.jobs[x] = work.jobs[x]
    BY <1>1, <1>2, <1>7
  <2>2. RowFollows(x)'
    BY <2>1, <1>2, <1>6 DEF RowFollows
  <2>3. LeaseFollows(x)'
    BY <2>1, <1>2, <1>4, <1>6 DEF LeaseFollows
  <2> QED
    BY <2>2, <2>3
<1>8. CASE x = j
  <2>1. work'.jobs[j] = row
    BY <1>1, <1>2
  <2>2. RowFollows(j)'
    BY <2>1, <1>2, <1>6, <1>8 DEF RowFollows
  <2> DEFINE before == db.jobs[j]  now == work.jobs[j]
  <2>3. /\ before.expires \in Nat /\ now.expires \in Nat /\ row.expires \in Nat /\ clock \in Nat
        /\ row.state \in States /\ now.state \in States
    BY <1>1, BoundAssumption DEF JobRow
  <2>4. ASSUME before.state = "claimed"
        PROVE  \/ row.state \in Terminal
               \/ before.expires <= clock
               \/ HandedBack(j)'
               \/ row.state = "claimed" /\ row.claim = before.claim /\ row.expires >= before.expires
    <3>1. \/ before.expires <= clock
          \/ HandedBack(j)
          \/ /\ now.state = "claimed" /\ now.claim = before.claim
             /\ now.expires >= before.expires
      BY <1>6, <1>8, <2>4 DEF LeaseFollows
    <3>2. now.state # "absent"
      BY <1>6, <1>8, <2>4 DEF RowFollows
    <3>3. CASE row.state = "requested"
      BY <3>2, <3>3, <1>5
    <3>4. CASE row.state = "claimed"
      BY <3>1, <3>4, <1>4, <2>3 DEF LeaseMoves
    <3> QED
      BY <3>3, <3>4, <2>3 DEF States, Terminal
  <2>5. LeaseFollows(j)'
    BY <2>1, <2>4, <1>2 DEF LeaseFollows
  <2> QED
    BY <2>2, <2>5, <1>8
<1> QED
  BY <1>7, <1>8

(* Every transition of a job keeps the distance, and a transaction that    *)
(* begins or ends leaves none.                                             *)
LEMMA FollowsStep == IInv /\ StagedFollows /\ [Next]_vars => StagedFollows'
<1> SUFFICES ASSUME IInv, StagedFollows, [Next]_vars PROVE StagedFollows'
  OBVIOUS
<1>0. TypeOK /\ TypeOK' /\ work \in File /\ work.jobs \in [Job -> JobRow]
  BY TypeStep DEF IInv, TypeOK, File
<1> USE DEF JobEvents, LeaseMoves
<1>a. ASSUME NEW j \in Job, NEW row PROVE SetJob(j, row).jobs = [work.jobs EXCEPT ![j] = row]
  BY <1>0 DEF SetJob, File
<1>b. ASSUME NEW j \in Job, NEW k \in JobEvents PROVE <<Event(k, j)>> \in Seq(EventType)
  BY EventTypes
<1>1. CASE Tick
  <2>1. /\ db' = db /\ work' = work /\ pending' = pending /\ clock' = clock + 1
        /\ clock \in Nat /\ \A j \in Job : db.jobs[j].expires \in Nat
    BY <1>1, <1>0, BoundAssumption DEF Tick, TypeOK, File, JobRow
  <2>2. \A j \in Job : db.jobs[j].expires <= clock => db.jobs[j].expires <= clock'
    BY <2>1
  <2> QED
    BY <2>1, <2>2 DEF StagedFollows, RowFollows, LeaseFollows, HandedBack
<1>2. ASSUME NEW h \in Handle, Begin(h) \/ Abandon(h) \/ Commit(h) PROVE StagedFollows'
  <2>1. work'.jobs = db'.jobs
    BY <1>2, <1>0 DEF Begin, Abandon, Commit
  <2>2. \A j \in Job : db'.jobs[j].expires \in Nat
    BY <1>0, BoundAssumption DEF TypeOK, File, JobRow
  <2> QED
    BY <2>1, <2>2 DEF StagedFollows, RowFollows, LeaseFollows
<1>3. ASSUME NEW h \in Handle, NEW j \in Job, RequestJob(h, j) PROVE StagedFollows'
  BY <1>0, <1>3, <1>a, <1>b, RowTypes, RowStates, TransitionFollows DEF RequestJob, Terminal
<1>4. ASSUME NEW h \in Handle, NEW j \in Job, CancelJob(h, j) PROVE StagedFollows'
  BY <1>0, <1>4, <1>a, <1>b, RowTypes, RowStates, TransitionFollows DEF CancelJob, Terminal
<1>5. ASSUME NEW h \in Handle, NEW j \in Job, NEW c \in Claim, ReleaseJobClaim(h, j, c)
      PROVE  StagedFollows'
  BY <1>0, <1>5, <1>a, <1>b, RowTypes, RowStates, TransitionFollows
     DEF ReleaseJobClaim, Terminal
<1>6. ASSUME NEW h \in Handle, NEW j \in Job, NEW c \in Claim, NEW now \in Now,
             FailJob(h, j, c, now)
      PROVE  StagedFollows'
  BY <1>0, <1>6, <1>a, <1>b, RowTypes, RowStates, TransitionFollows
     DEF FailJob, HoldsLease, Terminal
<1>7. ASSUME NEW h \in Handle, NEW j \in Job, NEW c \in Claim, NEW now \in Now,
             NEW expires \in 1..MaxTime, ClaimJob(h, j, c, now, expires)
      PROVE  StagedFollows'
  <2>1. Claimed(c, expires) \in JobRow /\ Claimed(c, expires).state = "claimed"
    BY RowTypes, RowStates, BoundAssumption
  <2>2. /\ Stage(h, SetJob(j, Claimed(c, expires)), <<Event("JobClaimed", j)>>)
        /\ \/ work.jobs[j].state = "requested"
           \/ work.jobs[j].state = "claimed" /\ work.jobs[j].expires <= now
    BY <1>7 DEF ClaimJob
  <2>3. /\ work.jobs[j].expires \in Nat /\ clock \in Nat /\ now \in 0..clock
    BY <1>0, BoundAssumption DEF TypeOK, JobRow, Now
  <2>4. work.jobs[j].state # "claimed" \/ work.jobs[j].expires <= clock
    BY <2>2, <2>3
  <2> QED
    BY <1>0, <1>a, <1>b, <2>1, <2>2, <2>4, TransitionFollows, ZenonT(60) DEF Terminal
<1>8. ASSUME NEW h \in Handle, NEW j \in Job, NEW c \in Claim, NEW now \in Now,
             NEW expires \in 1..MaxTime, RenewJobClaim(h, j, c, now, expires)
      PROVE  StagedFollows'
  <2>1. /\ Claimed(c, expires) \in JobRow /\ Claimed(c, expires).state = "claimed"
        /\ Claimed(c, expires).claim = c /\ Claimed(c, expires).expires = expires
    BY RowTypes, RowStates, BoundAssumption DEF Claimed, Row
  <2>2. /\ Stage(h, SetJob(j, Claimed(c, expires)), <<Event("JobClaimRenewed", j)>>)
        /\ work.jobs[j].state = "claimed" /\ work.jobs[j].claim = c
        /\ expires >= work.jobs[j].expires
    BY <1>0, <1>8, BoundAssumption DEF RenewJobClaim, HoldsLease, JobRow
  <2>3. LeaseMoves(work.jobs[j], Claimed(c, expires))
    BY <2>1, <2>2
  <2> QED
    BY <1>0, <1>a, <1>b, <2>1, <2>2, <2>3, TransitionFollows DEF Terminal
<1>9. ASSUME NEW h \in Handle, NEW j \in Job, NEW c \in Claim, NEW now \in Now,
             NEW r \in Repr, NEW fault \in Faults, CompleteJob(h, j, c, now, r, fault)
      PROVE  StagedFollows'
  <2> DEFINE inner == CompleteJobInner(j, r, "none")
  <2>1. CASE fault = "none"
    <3>1. Stage(h, inner.file, inner.events) /\ work.jobs[j].state = "claimed"
      BY <1>9, <2>1 DEF CompleteJob, HoldsLease
    <3>2. inner.file.jobs = [work.jobs EXCEPT ![j] = Succeeded(r)]
      BY <1>0 DEF CompleteJobInner, File
    <3>3. inner.events \in Seq(EventType)
      BY <1>0, CompleteJobInnerType DEF Faults
    <3>4. Succeeded(r) \in JobRow /\ Succeeded(r).state = "succeeded"
      BY RowTypes DEF Succeeded, Row
    <3> HIDE DEF inner
    <3> QED
      BY <3>1, <3>2, <3>3, <3>4, <1>0, TransitionFollows DEF Terminal
  <2>2. CASE fault # "none"
    <3>1. Stage(h, work, <<>>)
      BY <1>9, <2>2 DEF CompleteJob
    <3>2. work' = work /\ pending' = pending \o <<>> /\ db' = db /\ clock' = clock
      BY <3>1 DEF Stage
    <3>3. pending' = pending
      BY <3>2, <1>0, ConcatEmptySeq DEF TypeOK
    <3> QED
      BY <3>2, <3>3 DEF StagedFollows, RowFollows, LeaseFollows, HandedBack
  <2> QED
    BY <2>1, <2>2
<1>10. CASE UNCHANGED vars
  BY <1>10 DEF vars, StagedFollows, RowFollows, LeaseFollows, HandedBack
<1> QED
  BY <1>1, <1>2, <1>3, <1>4, <1>5, <1>6, <1>7, <1>8, <1>9, <1>10 DEF Next

(* Whatever transaction is open, its copy of a job can be reached from the *)
(* committed row without passing an end, and a committed lease that is     *)
(* gone from it had run out or was handed back.                            *)
THEOREM StagedIsReachable == Spec => []StagedFollows
<1>1. Init => StagedFollows
  BY RowStates DEF Init, StagedFollows, RowFollows, LeaseFollows, EmptyFile
<1>2. IInv /\ StagedFollows /\ [Next]_vars => StagedFollows'
  BY FollowsStep
<1> QED
  BY <1>1, <1>2, AlwaysConsistent, PTL DEF Spec

-----------------------------------------------------------------------------
(* A commit publishes the staged jobs under one more sequence number, or,  *)
(* when nothing was staged, nothing.                                       *)
LEMMA CommitPublishes ==
    ASSUME IInv, NEW h \in Handle, Commit(h)
    PROVE  /\ db'.jobs = work.jobs /\ db'.reprs = work.reprs
           /\ db'.journal = Published(db.journal, pending)
           /\ pending = <<>> => db' = db
<1>1. /\ work \in File /\ db \in File /\ work.journal = db.journal
      /\ pending = <<>> => work = db
  BY DEF IInv, TypeOK, StagedIsConsistent
<1>2. db' = [work EXCEPT !.journal = Published(@, pending)]
  BY DEF Commit
<1>3. /\ db'.jobs = work.jobs /\ db'.reprs = work.reprs
      /\ db'.journal = Published(db.journal, pending)
  BY <1>1, <1>2 DEF File
<1>4. ASSUME pending = <<>> PROVE db' = db
  <2>1. Published(db.journal, <<>>) = db.journal
    BY <1>1, PublishedNothing DEF File
  <2> QED
    BY <1>1, <1>2, <1>4, <2>1 DEF File
<1> QED
  BY <1>3, <1>4

(* Only a commit changes what a reader sees.                               *)
LEMMA OnlyCommitShows ==
    ASSUME [Next]_vars, \A h \in Handle : ~Commit(h)
    PROVE  db' = db
<1>1. CASE Tick \/ UNCHANGED vars \/ \E h \in Handle : Begin(h) \/ Abandon(h)
  BY <1>1 DEF Tick, vars, Begin, Abandon
<1>2. ASSUME NEW h \in Handle, NEW j \in Job,
             \/ RequestJob(h, j) \/ CancelJob(h, j)
             \/ \E c \in Claim : ReleaseJobClaim(h, j, c)
      PROVE  db' = db
  BY <1>2 DEF RequestJob, CancelJob, ReleaseJobClaim, Stage
<1>3. ASSUME NEW h \in Handle, NEW j \in Job, NEW c \in Claim, NEW now \in Now,
             \/ FailJob(h, j, c, now)
             \/ \E expires \in 1..MaxTime :
                   ClaimJob(h, j, c, now, expires) \/ RenewJobClaim(h, j, c, now, expires)
             \/ \E r \in Repr, fault \in Faults : CompleteJob(h, j, c, now, r, fault)
      PROVE  db' = db
  BY <1>3 DEF FailJob, ClaimJob, RenewJobClaim, CompleteJob, Stage
<1> QED
  BY <1>1, <1>2, <1>3 DEF Next

(* What was staged about a job is an entry of the revision.                *)
LEMMA StagedIsNew ==
    ASSUME IInv, NEW h \in Handle, Commit(h), NEW i \in DOMAIN pending
    PROVE  \E e \in NewEntries : e.event = pending[i]
<1>1. db.journal \in Seq(Entry) /\ pending \in Seq(EventType)
  BY DEF IInv, TypeOK, File
<1>2. PICK J : J = Published(db.journal, pending)
  OBVIOUS
<1>3. /\ db'.journal \in Seq(Entry)
      /\ Len(db'.journal) = Len(db.journal) + Len(pending)
      /\ db'.journal[Len(db.journal) + i] =
            [rev |-> LastSequence(db.journal) + 1, event |-> pending[i]]
  <2>1. db'.journal = J
    BY <1>2, CommitPublishes
  <2>2. i \in 1..Len(pending)
    BY <1>1, LenProperties
  <2>3. /\ J \in Seq(Entry)
        /\ Len(J) = Len(db.journal) + Len(pending)
        /\ J[Len(db.journal) + i] =
              [rev |-> LastSequence(db.journal) + 1, event |-> pending[i]]
    BY <1>1, <1>2, <2>2, PublishedProps
  <2> QED
    BY <2>1, <2>3
<1>4. Len(db.journal) + i \in DOMAIN db'.journal \ DOMAIN db.journal
  <2>1. /\ DOMAIN db.journal = 1..Len(db.journal) /\ Len(db.journal) \in Nat
        /\ DOMAIN db'.journal = 1..Len(db'.journal)
        /\ i \in 1..Len(pending) /\ Len(pending) \in Nat
    BY <1>1, <1>3, LenProperties
  <2> QED
    BY <2>1, <1>3
<1>5. db'.journal[Len(db.journal) + i] \in NewEntries
  BY <1>4 DEF NewEntries
<1> QED
  BY <1>3, <1>5, EntryFields

(* A worker that has not handed its job back keeps it until its lease ran  *)
(* out, for any number of connections and whatever they stage before they  *)
(* commit: no step shows a reader another token in the place of a lease    *)
(* that still runs.                                                        *)
THEOREM LeasesAreKept == Spec => TakeoverOnlyAfterExpiry
<1> DEFINE Kept == \A j \in Job :
              LET before == db.jobs[j]  after == db'.jobs[j]
              IN before.state = "claimed" /\ after.state = "claimed"
                    /\ after.claim # before.claim
                 => \/ before.expires <= clock
                    \/ \E e \in NewEntries : e.event = Event("JobClaimReleased", j)
<1>1. IInv /\ StagedFollows /\ [Next]_vars => Kept
  <2> SUFFICES ASSUME IInv, StagedFollows, [Next]_vars, NEW j \in Job,
                      db.jobs[j].state = "claimed", db'.jobs[j].state = "claimed",
                      db'.jobs[j].claim # db.jobs[j].claim
               PROVE  \/ db.jobs[j].expires <= clock
                      \/ \E e \in NewEntries : e.event = Event("JobClaimReleased", j)
    OBVIOUS
  <2>1. PICK h \in Handle : Commit(h)
    BY OnlyCommitShows
  <2>2. db'.jobs[j] = work.jobs[j]
    BY <2>1, CommitPublishes
  <2>3. db.jobs[j].expires <= clock \/ HandedBack(j)
    BY <2>2 DEF StagedFollows, LeaseFollows, Terminal
  <2>4. HandedBack(j) => \E e \in NewEntries : e.event = Event("JobClaimReleased", j)
    BY <2>1, StagedIsNew DEF HandedBack
  <2> QED
    BY <2>3, <2>4
<1>2. IInv /\ StagedFollows /\ [Next]_vars => [Kept]_vars
  BY <1>1
<1>3. TakeoverOnlyAfterExpiry <=> [][Kept]_vars
  BY DEF TakeoverOnlyAfterExpiry
<1> HIDE DEF Kept
<1> QED
  BY <1>2, <1>3, AlwaysConsistent, StagedIsReachable, PTL DEF Spec

(* The next revision's number is one more than the last.                   *)
LEMMA NextSequence ==
    ASSUME NEW journal \in Seq(Entry), NEW events \in Seq(EventType), events # <<>>
    PROVE  LastSequence(Published(journal, events)) = LastSequence(journal) + 1
<1> DEFINE longer == Published(journal, events)
<1>1. Len(journal) \in Nat /\ Len(events) \in Nat /\ Len(events) # 0
  BY LenProperties, EmptySeq
<1>2. /\ longer \in Seq(Entry) /\ Len(longer) = Len(journal) + Len(events)
      /\ longer[Len(journal) + Len(events)] =
            [rev |-> LastSequence(journal) + 1, event |-> events[Len(events)]]
  BY <1>1, PublishedProps
<1> HIDE DEF longer
<1>3. longer # <<>>
  BY <1>1, <1>2, EmptySeq
<1>4. longer[Len(longer)].rev = LastSequence(journal) + 1
  BY <1>2
<1> QED
  BY <1>3, <1>4 DEF LastSequence, longer

(* One commit is one publication of the ledger, and everything else is     *)
(* invisible between commits.                                              *)
LEMMA LedgerStep ==
    IInv /\ IInv' /\ StagedFollows /\ [Next]_vars => [Ledger!Publish]_(Ledger!ledgerVars)
<1> SUFFICES ASSUME IInv, IInv', StagedFollows, [Next]_vars
             PROVE  [Ledger!Publish]_(Ledger!ledgerVars)
  OBVIOUS
<1> DEFINE status == [j \in Job |-> db.jobs[j].state]
           output == [j \in Job |-> db.jobs[j].output]
           revision == LastSequence(db.journal)
<1>1. CASE db' = db
  <2>1. status' = status /\ output' = output /\ revision' = revision
    BY <1>1
  <2> QED
    BY <2>1 DEF Ledger!ledgerVars
<1>2. CASE db' # db
  <2>1. PICK h \in Handle : Commit(h)
    BY <1>2, OnlyCommitShows
  <2>2. /\ db'.jobs = work.jobs /\ pending # <<>>
        /\ db'.journal = Published(db.journal, pending)
    BY <1>2, <2>1, CommitPublishes
  <2>3. /\ db.journal \in Seq(Entry) /\ pending \in Seq(EventType)
        /\ db.jobs \in [Job -> JobRow] /\ db'.jobs \in [Job -> JobRow]
    BY DEF IInv, TypeOK, File
  <2>4. revision' = revision + 1
    BY <2>2, <2>3, NextSequence
  <2>5. /\ \A j \in Job : db.jobs[j].state \in States /\ db'.jobs[j].state \in States
        /\ \A j \in Job : db.jobs[j].output # NoRepr <=> db.jobs[j].state = "succeeded"
        /\ \A j \in Job : db'.jobs[j].output # NoRepr <=> db'.jobs[j].state = "succeeded"
    BY <2>3 DEF JobRow
  <2>6. \A j \in Job : RowFollows(j) /\ db'.jobs[j] = work.jobs[j]
    BY <2>2 DEF StagedFollows
  <2>7. ASSUME NEW j \in Job PROVE status'[j] \in Ledger!Reachable(status[j])
    <3>1. /\ db.jobs[j].state \in Terminal => db'.jobs[j].state = db.jobs[j].state
          /\ db.jobs[j].state # "absent" => db'.jobs[j].state # "absent"
      BY <2>6 DEF RowFollows
    <3>2. status'[j] = db'.jobs[j].state /\ status[j] = db.jobs[j].state
      OBVIOUS
    <3> QED
      BY <2>5, <3>1, <3>2
         DEF States, Terminal, Ledger!Reachable, Ledger!Open, Ledger!Terminal
  <2>8. \A j \in Job : output'[j] # NoRepr <=> status'[j] = "succeeded"
    BY <2>5
  <2>9. \A j \in Job : output[j] # NoRepr => output'[j] = output[j]
    BY <2>5, <2>6 DEF RowFollows, Terminal
  <2>10. \A i, j \in Job : i # j /\ output'[i] # NoRepr => output'[i] # output'[j]
    <3>1. OutputsMatch(db)'
      BY DEF IInv, Consistent
    <3> QED
      BY <3>1, <2>5 DEF OutputsMatch
  <2> HIDE DEF status, output, revision
  <2> QED
    BY <2>4, <2>7, <2>8, <2>9, <2>10 DEF Ledger!Publish, status, output, revision
<1> QED
  BY <1>1, <1>2

(* What a reader sees between commits is a behaviour of JobLedger: for any *)
(* number of connections and whatever a transaction stages, a revision     *)
(* moves jobs forward only, success brings one output of its own, and      *)
(* nothing moves without a new revision number.                            *)
THEOREM StoreImplementsLedger == Spec => ImplementsLedger
<1>1. Init => Ledger!Init
  BY RowStates DEF Init, Ledger!Init, EmptyFile, Absent, Row, LastSequence
<1> QED
  BY <1>1, LedgerStep, AlwaysConsistent, StagedIsReachable, PTL
     DEF Spec, ImplementsLedger, Ledger!Spec
=============================================================================
