------------------------------ MODULE JobStore ------------------------------
(***************************************************************************)
(* Jobs in one production file: the operations of SqliteTransaction that   *)
(* request, claim, renew, release, fail, complete and cancel a job, inside *)
(* the transactions that stage and publish them.                           *)
(*                                                                         *)
(* Any number of handles (connections, processes) share the file.  BEGIN   *)
(* IMMEDIATE gives one of them the write lock; it works on its own copy    *)
(* (work) and a list of staged events (pending), and COMMIT makes both     *)
(* visible at once.  Everybody else reads the committed file (db).         *)
(*                                                                         *)
(* A lease is compared with the time the caller passes in.  The caller     *)
(* reads its clock before it waits for the lock, so that time is any past  *)
(* or present value of the clock, never a future one.                      *)
(***************************************************************************)
EXTENDS Naturals, Sequences, FiniteSets

CONSTANTS
    Handle, NoHandle,      \* connections to the file
    Job,                   \* job identifiers
    Claim, NoClaim,        \* claim tokens (random identifiers, never reused)
    Repr, NoRepr,          \* output representations a completion may bring
    MaxTime,               \* bound: the clock stops here
    MaxEvents              \* bound: events published and staged

ASSUME NullAssumption ==
    NoHandle \notin Handle /\ NoClaim \notin Claim /\ NoRepr \notin Repr
ASSUME BoundAssumption == MaxTime \in Nat /\ MaxEvents \in Nat

VARIABLES
    db,        \* the committed file
    writer,    \* the handle whose transaction is open, or NoHandle
    work,      \* the file as the open transaction sees it
    pending,   \* pending_events of the open transaction
    issued,    \* every claim token generated so far
    clock      \* wall-clock time

vars == <<db, writer, work, pending, issued, clock>>
-----------------------------------------------------------------------------
(* Rows of table jobs.  One constructor per state: its CHECK constraint    *)
(* ties the claim and completion columns to the state.                     *)

Row(s, c, e, r) == [state |-> s, claim |-> c, expires |-> e, output |-> r]

Absent         == Row("absent", NoClaim, 0, NoRepr)
Requested      == Row("requested", NoClaim, 0, NoRepr)
Claimed(c, e)  == Row("claimed", c, e, NoRepr)
Succeeded(r)   == Row("succeeded", NoClaim, 0, r)
Failed         == Row("failed", NoClaim, 0, NoRepr)
Cancelled      == Row("cancelled", NoClaim, 0, NoRepr)

States   == {"absent", "requested", "claimed", "succeeded", "failed", "cancelled"}
Terminal == {"succeeded", "failed", "cancelled"}

JobRow == {row \in [state : States, claim : Claim \cup {NoClaim},
                    expires : 0..MaxTime, output : Repr \cup {NoRepr}] :
              /\ row.claim # NoClaim <=> row.state = "claimed"
              /\ row.output # NoRepr <=> row.state = "succeeded"}

JobEvents    == {"JobRequested", "JobClaimed", "JobClaimRenewed",
                 "JobClaimReleased", "JobFailed", "JobSucceeded", "JobCancelled"}
OutputEvents == {"RepresentationAdded", "ActivityCreated"}
Event(k, x)  == [kind |-> k, subject |-> x]
EventType    == [kind : JobEvents, subject : Job]
                    \cup [kind : OutputEvents, subject : Repr]
Entry        == [rev : Nat, event : EventType]

File == [jobs : [Job -> JobRow], reprs : SUBSET Repr, activities : SUBSET Repr,
         journal : Seq(Entry)]

(* The next revision's sequence number: coalesce(max(sequence), 0) + 1.    *)
LastSequence(journal) == IF journal = <<>> THEN 0 ELSE journal[Len(journal)].rev

(* Variant: a sequence number for every event.                             *)
Published_RevisionPerEvent(journal, events) ==
    journal \o [i \in DOMAIN events |->
                   [rev |-> LastSequence(journal) + i, event |-> events[i]]]

(* The journal with the staged events as one more revision.                *)
Published(journal, events) ==
    journal \o [i \in DOMAIN events |->
                   [rev |-> LastSequence(journal) + 1, event |-> events[i]]]

EmptyFile == [jobs |-> [j \in Job |-> Absent], reprs |-> {}, activities |-> {},
              journal |-> <<>>]

Init == /\ db = EmptyFile /\ work = EmptyFile
        /\ writer = NoHandle /\ pending = <<>>
        /\ issued = {} /\ clock = 0
-----------------------------------------------------------------------------
(* A mutation of the open transaction: its new working copy and the events *)
(* it pushes.  Enough room for the events is the only modelling bound.     *)
Stage(h, file, events) ==
    /\ writer = h
    /\ Len(db.journal) + Len(pending) + Len(events) <= MaxEvents
    /\ work' = file
    /\ pending' = pending \o events
    /\ UNCHANGED <<db, writer, clock>>

SetJob(j, row) == [work EXCEPT !.jobs[j] = row]

(* The caller's idea of the current time.                                  *)
Now == 0..clock

(* UPDATE ... WHERE state = 2 AND claim_id = c AND expires > now           *)
HoldsLease(j, c, now) ==
    LET row == work.jobs[j]
    IN row.state = "claimed" /\ row.claim = c /\ row.expires > now
-----------------------------------------------------------------------------
(* Variants that a plausible bug would give.  No behaviour of Spec takes   *)
(* them; they show that the properties below can fail.                     *)

ClaimJob_AnyLease(h, j, c, now, expires) ==
    /\ c \notin issued
    /\ expires > now
    /\ work.jobs[j].state \in {"requested", "claimed"}
    /\ Stage(h, SetJob(j, Claimed(c, expires)), <<Event("JobClaimed", j)>>)
    /\ issued' = issued \cup {c}

CancelJob_Terminal(h, j) ==
    /\ work.jobs[j].state # "absent"
    /\ Stage(h, SetJob(j, Cancelled), <<Event("JobCancelled", j)>>)
    /\ UNCHANGED issued

CancelJob_Silent(h, j) ==
    /\ work.jobs[j].state \in {"requested", "claimed"}
    /\ Stage(h, SetJob(j, Cancelled), <<>>)
    /\ UNCHANGED issued

-----------------------------------------------------------------------------
(* BEGIN IMMEDIATE succeeds only when no other transaction has the lock;   *)
(* otherwise the call waits out busy_timeout and fails without a change.   *)
Begin(h) ==
    /\ writer = NoHandle
    /\ writer' = h /\ work' = db /\ pending' = <<>>
    /\ UNCHANGED <<db, issued, clock>>

RequestJob(h, j) ==
    /\ work.jobs[j].state = "absent"
    /\ Stage(h, SetJob(j, Requested), <<Event("JobRequested", j)>>)
    /\ UNCHANGED issued

ClaimJob(h, j, c, now, expires) ==
    /\ c \notin issued
    /\ expires > now
    /\ LET row == work.jobs[j]
       IN \/ row.state = "requested"
          \/ row.state = "claimed" /\ row.expires <= now
    /\ Stage(h, SetJob(j, Claimed(c, expires)), <<Event("JobClaimed", j)>>)
    /\ issued' = issued \cup {c}

RenewJobClaim(h, j, c, now, expires) ==
    /\ expires > now
    /\ HoldsLease(j, c, now)
    /\ expires > work.jobs[j].expires
    /\ Stage(h, SetJob(j, Claimed(c, expires)), <<Event("JobClaimRenewed", j)>>)
    /\ UNCHANGED issued

(* No expiry check: an overdue worker may still hand its job back.         *)
ReleaseJobClaim(h, j, c) ==
    /\ work.jobs[j].state = "claimed" /\ work.jobs[j].claim = c
    /\ Stage(h, SetJob(j, Requested), <<Event("JobClaimReleased", j)>>)
    /\ UNCHANGED issued

FailJob(h, j, c, now) ==
    /\ HoldsLease(j, c, now)
    /\ Stage(h, SetJob(j, Failed), <<Event("JobFailed", j)>>)
    /\ UNCHANGED issued
-----------------------------------------------------------------------------
(* complete_job_inner once its checks passed, stopped by an error inside   *)
(* add_representation (rows inserted, events not yet pushed), inside       *)
(* create_activity (a cycle, a missing resource), or not at all.           *)
Faults == {"add_representation", "create_activity", "none"}

CompleteJobInner(j, r, fault) ==
    LET added    == [work EXCEPT !.reprs = @ \cup {r}]
        recorded == [added EXCEPT !.activities = @ \cup {r},
                                  !.jobs[j] = Succeeded(r)]
        addedEvent == <<Event("RepresentationAdded", r)>>
    IN CASE fault = "add_representation" -> [file |-> added, events |-> <<>>]
         [] fault = "create_activity" -> [file |-> added, events |-> addedEvent]
         [] OTHER -> [file |-> recorded,
                      events |-> addedEvent \o <<Event("ActivityCreated", r),
                                                 Event("JobSucceeded", j)>>]

(* Variant: the error leaves what the completion did so far.               *)
CompleteJob_NoSavepoint(h, j, c, now, r, fault) ==
    /\ HoldsLease(j, c, now)
    /\ fault = "none" => r \notin work.reprs
    /\ LET inner == CompleteJobInner(j, r, fault)
       IN Stage(h, inner.file, inner.events)
    /\ UNCHANGED issued

(* An error rolls back to the savepoint and truncates the staged events.   *)
CompleteJob(h, j, c, now, r, fault) ==
    /\ HoldsLease(j, c, now)
    /\ fault = "none" => r \notin work.reprs
    /\ LET inner == CompleteJobInner(j, r, fault)
       IN IF fault = "none" THEN Stage(h, inner.file, inner.events)
                            ELSE Stage(h, work, <<>>)
    /\ UNCHANGED issued

CancelJob(h, j) ==
    /\ work.jobs[j].state \in {"requested", "claimed"}
    /\ Stage(h, SetJob(j, Cancelled), <<Event("JobCancelled", j)>>)
    /\ UNCHANGED issued
-----------------------------------------------------------------------------
(* commit: persist_revision when anything was staged, then COMMIT.         *)
Commit(h) ==
    /\ writer = h
    /\ db' = [work EXCEPT !.journal = Published(@, pending)]
    /\ work' = db'
    /\ writer' = NoHandle /\ pending' = <<>>
    /\ UNCHANGED <<issued, clock>>

(* rollback, dropping an open transaction, a COMMIT that SQLite refuses    *)
(* (a reader kept its lock past busy_timeout) and the death of the process *)
(* all leave the file as it was.                                           *)
Abandon(h) ==
    /\ writer = h
    /\ writer' = NoHandle /\ work' = db /\ pending' = <<>>
    /\ UNCHANGED <<db, issued, clock>>

Tick ==
    /\ clock < MaxTime
    /\ clock' = clock + 1
    /\ UNCHANGED <<db, writer, work, pending, issued>>

Next ==
    \/ Tick
    \/ \E h \in Handle : Begin(h) \/ Commit(h) \/ Abandon(h)
    \/ \E h \in Handle, j \in Job : RequestJob(h, j) \/ CancelJob(h, j)
    \/ \E h \in Handle, j \in Job, c \in Claim : ReleaseJobClaim(h, j, c)
    \/ \E h \in Handle, j \in Job, c \in Claim, now \in Now :
          \/ FailJob(h, j, c, now)
          \/ \E expires \in 1..MaxTime :
                ClaimJob(h, j, c, now, expires) \/ RenewJobClaim(h, j, c, now, expires)
          \/ \E r \in Repr, fault \in Faults : CompleteJob(h, j, c, now, r, fault)

Spec == Init /\ [][Next]_vars
-----------------------------------------------------------------------------
(* Every row keeps the columns its state allows (the CHECK constraint of   *)
(* table jobs), every journal entry is an event of a job or an output, and *)
(* without a writer nothing is staged.                                     *)
TypeOK ==
    /\ db \in File /\ work \in File
    /\ writer \in Handle \cup {NoHandle}
    /\ pending \in Seq(EventType)
    /\ issued \in SUBSET Claim
    /\ clock \in 0..MaxTime
    /\ writer = NoHandle => pending = <<>> /\ work = db

After(kind) == CASE kind \in {"JobRequested", "JobClaimReleased"} -> "requested"
                 [] kind \in {"JobClaimed", "JobClaimRenewed"}    -> "claimed"
                 [] kind = "JobSucceeded" -> "succeeded"
                 [] kind = "JobFailed"    -> "failed"
                 [] kind = "JobCancelled" -> "cancelled"

IsAbout(entry, j) == entry.event.kind \in JobEvents /\ entry.event.subject = j

IsLastOf(journal, i, j) ==
    /\ i \in DOMAIN journal /\ IsAbout(journal[i], j)
    /\ \A k \in DOMAIN journal : IsAbout(journal[k], j) => k <= i

(* The table and a journal tell the same story of every job.               *)
Explains(journal, jobs) ==
    \A j \in Job :
        /\ jobs[j].state = "absent" <=> ~\E i \in DOMAIN journal : IsAbout(journal[i], j)
        /\ \A i \in DOMAIN journal :
              IsLastOf(journal, i, j) => jobs[j].state = After(journal[i].event.kind)

OutputsMatch(file) ==
    LET done == {j \in Job : file.jobs[j].state = "succeeded"}
    IN /\ file.reprs = {file.jobs[j].output : j \in done}
       /\ file.activities = file.reprs
       /\ \A i, j \in done : file.jobs[i].output = file.jobs[j].output => i = j

IsLegal(journal) ==
    \A i, k \in DOMAIN journal : \A j \in Job :
        i < k /\ IsAbout(journal[i], j) /\ IsAbout(journal[k], j) =>
            /\ After(journal[i].event.kind) \notin Terminal
            /\ journal[k].event.kind # "JobRequested"

(* The revision of entry i announces the output of its job.                *)
AnnouncesOutput(journal, i, jobs) ==
    \A kind \in OutputEvents : \E k \in DOMAIN journal :
        /\ journal[k].rev = journal[i].rev
        /\ journal[k].event = Event(kind, jobs[journal[i].event.subject].output)

CarriesOutput(journal, jobs) ==
    \A i \in DOMAIN journal :
        journal[i].event.kind = "JobSucceeded" => AnnouncesOutput(journal, i, jobs)

(* A consumer that only reads the change feed always knows the state of    *)
(* every job: the last published event about a job tells it, through       *)
(* rollbacks, failed completions and lease takeovers.                      *)
JournalExplainsJobs == Explains(db.journal, db.jobs)

(* Outputs and provenance exist exactly for the jobs that succeeded: a     *)
(* failed completion leaves neither a representation nor an activity, and  *)
(* no two jobs share an output.                                            *)
NoOrphanOutputs == OutputsMatch(db)

(* The history the feed shows of one job is a legal life: it begins with   *)
(* its request and nothing follows a terminal event.                       *)
LegalHistories == IsLegal(db.journal)

(* Success is never announced apart from its facts: the revision that says *)
(* JobSucceeded also announces an output and its activity.                 *)
SuccessCarriesOutput == CarriesOutput(db.journal, db.jobs)

NewEntries == {db'.journal[i] : i \in DOMAIN db'.journal \ DOMAIN db.journal}

(* A worker that has not handed its job back keeps it until its lease ran  *)
(* out: no other token replaces its own before that time.                  *)
TakeoverOnlyAfterExpiry ==
    [][ \A j \in Job :
          LET before == db.jobs[j]  after == db'.jobs[j]
          IN before.state = "claimed" /\ after.state = "claimed"
                /\ after.claim # before.claim
             => \/ before.expires <= clock
                \/ \E e \in NewEntries : e.event = Event("JobClaimReleased", j) ]_vars

(* What the open transaction has staged is already a consistent next       *)
(* revision: committing at any moment would keep every promise above.      *)
Consistent(journal, file) ==
    /\ Explains(journal, file.jobs)
    /\ OutputsMatch(file)
    /\ IsLegal(journal)
    /\ CarriesOutput(journal, file.jobs)

StagedIsConsistent ==
    /\ work.journal = db.journal
    /\ Consistent(Published(work.journal, pending), work)
    /\ pending = <<>> => work = db

(* What a reader sees between commits is a behaviour of the ledger.        *)
Ledger == INSTANCE JobLedger WITH
    status   <- [j \in Job |-> db.jobs[j].state],
    output   <- [j \in Job |-> db.jobs[j].output],
    revision <- LastSequence(db.journal)

ImplementsLedger == Ledger!Spec
=============================================================================
