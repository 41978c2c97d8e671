---------------------------- MODULE RevisionWait ----------------------------
(***************************************************************************)
(* Waiters of one open production: threads that sleep until a revision     *)
(* after a given sequence number is committed, the deadline passes, the    *)
(* production closes its waiters, or somebody cancels the waiter.          *)
(*                                                                         *)
(* A commit through the production the waiter came from bumps a generation *)
(* under a mutex and notifies a condition variable; a commit of any other  *)
(* connection is noticed by polling PRAGMA data_version.  The mutex is     *)
(* modelled explicitly (holder), because a cancellation sets its flag      *)
(* without it: a waiter that has found nothing and not yet gone to sleep   *)
(* must not miss the notification that follows.                            *)
(***************************************************************************)
EXTENDS Integers

CONSTANTS
    Waiter, Nobody,       \* waiters of the production; a free mutex
    MaxVersion            \* bound: commits to the file

ASSUME NobodyAssumption == Nobody \notin Waiter
ASSUME MaxVersionAssumption == MaxVersion \in Nat

VARIABLES
    sequence,     \* the journal holds the revisions 1..sequence
    version,      \* PRAGMA data_version: changes with every commit that wrote
    locker,       \* who holds SQLite's exclusive lock to commit
    unnotified,   \* the production has committed and not yet notified
    signal,       \* generation and closed flag, guarded by the mutex
    holder,       \* the waiter inside sleep's critical section, or Nobody
    closing,      \* the closed flag is set, the notification still to come
    cancelled,    \* the flag of each waiter
    cancelling,   \* waiters with the flag set, the notification still to come
    waiter        \* each waiter's thread

env  == <<sequence, version, locker, unnotified>>
ends == <<closing, cancelled, cancelling>>
vars == <<env, signal, holder, ends, waiter>>

NoVersion == -1
Terminal  == {"closed", "cancelled"}
Outcomes  == Terminal \cup {"revisions", "timed_out"}
Steps     == {"idle", "check", "version", "read", "deadline", "sleep", "found", "parked"}

WaiterRec == [pc : Steps, after : Nat, unread : BOOLEAN, seen : {NoVersion} \cup Nat,
              version : Nat, generation : Nat, expired : BOOLEAN,
              last : Outcomes \cup {"none"}]

(* A wait starts with fresh locals and they die with it; the version seen  *)
(* is a field and lives on.                                                *)
Thread(pc, after, seen, last) ==
    [pc |-> pc, after |-> after, seen |-> seen, last |-> last, unread |-> TRUE,
     version |-> 0, generation |-> 0, expired |-> FALSE]

Init ==
    /\ sequence = 0 /\ version = 0 /\ locker = "free" /\ unnotified = FALSE
    /\ signal = [generation |-> 0, closed |-> FALSE]
    /\ holder = Nobody
    /\ closing = FALSE /\ cancelling = {} /\ cancelled = [w \in Waiter |-> FALSE]
    /\ waiter = [w \in Waiter |-> Thread("idle", 0, NoVersion, "none")]
-----------------------------------------------------------------------------
(* Steps of a waiter's thread.                                             *)

At(w, pc)     == waiter[w].pc = pc
Move(w, pc)   == waiter' = [waiter EXCEPT ![w].pc = pc]
Return(w, o)  == waiter' = [waiter EXCEPT ![w] = Thread("idle", 0, @.seen, o)]
Found(w)      == waiter' = [waiter EXCEPT
                    ![w] = Thread("idle", 0, @.version, "revisions")]
MutexFree     == holder = Nobody
Woken(w)      == \/ signal.generation # waiter[w].generation
                 \/ signal.closed
                 \/ cancelled[w]
Busy          == locker # "free"

(* Variant: the first pass trusts the version an earlier wait has seen.    *)
StartWait_TrustsVersion(w, after) ==
    /\ At(w, "idle")
    /\ waiter' = [waiter EXCEPT ![w] = [Thread("check", after, @.seen, @.last)
                                            EXCEPT !.unread = FALSE]]
    /\ UNCHANGED <<env, signal, holder, ends>>

StartWait(w, after) ==
    /\ At(w, "idle")
    /\ waiter' = [waiter EXCEPT ![w] = Thread("check", after, @.seen, @.last)]
    /\ UNCHANGED <<env, signal, holder, ends>>

(* Variant: reporting a cancellation consumes it.                          *)
CheckSignal_Consumes(w) ==
    /\ At(w, "check") /\ MutexFree
    /\ IF signal.closed THEN Return(w, "closed") /\ UNCHANGED cancelled
       ELSE IF cancelled[w]
            THEN Return(w, "cancelled") /\ cancelled' = [cancelled EXCEPT ![w] = FALSE]
       ELSE /\ waiter' = [waiter EXCEPT ![w].pc = "version",
                                        ![w].generation = signal.generation]
            /\ UNCHANGED cancelled
    /\ UNCHANGED <<env, signal, holder, closing, cancelling>>

(* generation(): the terminal outcomes first, then the generation to sleep *)
(* against.                                                                *)
CheckSignal(w) ==
    /\ At(w, "check") /\ MutexFree
    /\ IF signal.closed THEN Return(w, "closed")
       ELSE IF cancelled[w] THEN Return(w, "cancelled")
       ELSE waiter' = [waiter EXCEPT ![w].pc = "version",
                                     ![w].generation = signal.generation]
    /\ UNCHANGED <<env, signal, holder, ends>>

(* A busy file counts as unchanged until the next poll.                    *)
ObserveVersion(w) ==
    /\ At(w, "version")
    /\ IF ~Busy /\ (waiter[w].unread \/ waiter[w].seen # version)
       THEN waiter' = [waiter EXCEPT ![w].pc = "read", ![w].version = version]
       ELSE Move(w, "deadline")
    /\ UNCHANGED <<env, signal, holder, ends>>

(* Variant: the version is recorded even when the read found a busy file.  *)
ReadJournal_RecordsBusy(w) ==
    /\ At(w, "read")
    /\ IF ~Busy /\ sequence > waiter[w].after THEN Found(w)
       ELSE waiter' = [waiter EXCEPT ![w].pc = "deadline", ![w].unread = FALSE,
                                     ![w].seen = waiter[w].version]
    /\ UNCHANGED <<env, signal, holder, ends>>

(* Variant: the read blocks until the writer is done.                      *)
ReadJournal_Blocks(w) ==
    /\ At(w, "read") /\ ~Busy
    /\ IF sequence > waiter[w].after THEN Found(w)
       ELSE waiter' = [waiter EXCEPT ![w].pc = "deadline", ![w].unread = FALSE,
                                     ![w].seen = waiter[w].version]
    /\ UNCHANGED <<env, signal, holder, ends>>

(* One SELECT.  The version is recorded only after a read that succeeded,  *)
(* and it is the one observed before that read.                            *)
ReadJournal(w) ==
    /\ At(w, "read")
    /\ IF Busy THEN Move(w, "deadline")
       ELSE IF sequence > waiter[w].after THEN Found(w)
       ELSE waiter' = [waiter EXCEPT ![w].pc = "deadline", ![w].unread = FALSE,
                                     ![w].seen = waiter[w].version]
    /\ UNCHANGED <<env, signal, holder, ends>>

CheckDeadline(w) ==
    /\ At(w, "deadline")
    /\ IF waiter[w].expired THEN Return(w, "timed_out") ELSE Move(w, "sleep")
    /\ UNCHANGED <<env, signal, holder, ends>>

(* sleep takes the mutex and looks for a reason not to park.  The interval *)
(* may already have run out while it waited for the mutex.                 *)
SleepLock(w) ==
    /\ At(w, "sleep") /\ MutexFree
    /\ IF Woken(w)
       THEN Move(w, "check") /\ UNCHANGED holder
       ELSE \/ Move(w, "check") /\ UNCHANGED holder
            \/ Move(w, "found") /\ holder' = w
    /\ UNCHANGED <<env, signal, ends>>

(* wait_timeout releases the mutex and parks the thread in one step.       *)
Park(w) ==
    /\ At(w, "found")
    /\ Move(w, "parked") /\ holder' = Nobody
    /\ UNCHANGED <<env, signal, ends>>

(* The poll interval is over: whatever the flags say, look at the file.    *)
PollElapses(w) ==
    /\ At(w, "parked") /\ MutexFree
    /\ Move(w, "check")
    /\ UNCHANGED <<env, signal, holder, ends>>

WakeSpuriously(w) ==
    /\ At(w, "parked")
    /\ Move(w, "sleep")
    /\ UNCHANGED <<env, signal, holder, ends>>

Expire(w) ==
    /\ ~At(w, "idle") /\ ~waiter[w].expired
    /\ waiter' = [waiter EXCEPT ![w].expired = TRUE]
    /\ UNCHANGED <<env, signal, holder, ends>>
-----------------------------------------------------------------------------
(* Commits.  The exclusive lock keeps readers out until the commit is      *)
(* complete or given up; only the production's own commits are followed by *)
(* a notification, and only when they published a revision.                *)

NotifyAll == waiter' = [w \in Waiter |->
                            IF At(w, "parked") THEN [waiter[w] EXCEPT !.pc = "sleep"]
                                               ELSE waiter[w]]

LockFile(who) ==
    /\ locker = "free" /\ version < MaxVersion
    /\ who = "production" => ~unnotified
    /\ locker' = who
    /\ UNCHANGED <<sequence, version, unnotified, signal, holder, ends, waiter>>

CommitFile(publishes) ==
    /\ Busy
    /\ locker' = "free" /\ version' = version + 1
    /\ sequence' = IF publishes THEN sequence + 1 ELSE sequence
    /\ unnotified' = (unnotified \/ (publishes /\ locker = "production"))
    /\ UNCHANGED <<signal, holder, ends, waiter>>

GiveUp ==
    /\ Busy
    /\ locker' = "free"
    /\ UNCHANGED <<sequence, version, unnotified, signal, holder, ends, waiter>>

NotifyCommit ==
    /\ unnotified /\ MutexFree
    /\ unnotified' = FALSE
    /\ signal' = [signal EXCEPT !.generation = @ + 1]
    /\ NotifyAll
    /\ UNCHANGED <<sequence, version, locker, holder, ends>>
-----------------------------------------------------------------------------
(* close() drops the mutex before it notifies.  The production may close   *)
(* its waiters more than once and go on committing.                        *)
Close ==
    /\ MutexFree
    /\ locker # "production" /\ ~unnotified
    /\ signal' = [signal EXCEPT !.closed = TRUE]
    /\ closing' = TRUE
    /\ UNCHANGED <<env, holder, cancelled, cancelling, waiter>>

CloseNotify ==
    /\ closing /\ closing' = FALSE
    /\ NotifyAll
    /\ UNCHANGED <<env, signal, holder, cancelled, cancelling>>

(* cancel() sets the flag without the mutex, then takes it to notify.      *)
Cancel(w) ==
    /\ cancelled' = [cancelled EXCEPT ![w] = TRUE]
    /\ cancelling' = cancelling \cup {w}
    /\ UNCHANGED <<env, signal, holder, closing, waiter>>

(* Variant: the notification does not wait for the mutex.                  *)
CancelNotify_NoMutex(w) ==
    /\ w \in cancelling
    /\ cancelling' = cancelling \ {w}
    /\ NotifyAll
    /\ UNCHANGED <<env, signal, holder, closing, cancelled>>

CancelNotify(w) ==
    /\ w \in cancelling /\ MutexFree
    /\ cancelling' = cancelling \ {w}
    /\ NotifyAll
    /\ UNCHANGED <<env, signal, holder, closing, cancelled>>
-----------------------------------------------------------------------------
Proceed(w) ==
    \/ CheckSignal(w) \/ ObserveVersion(w) \/ ReadJournal(w)
    \/ CheckDeadline(w) \/ SleepLock(w) \/ Park(w) \/ PollElapses(w)

Next ==
    \/ \E w \in Waiter :
          \/ \E after \in 0..sequence : StartWait(w, after)
          \/ Proceed(w)
          \/ WakeSpuriously(w) \/ Expire(w) \/ Cancel(w) \/ CancelNotify(w)
    \/ \E who \in {"production", "other"} : LockFile(who)
    \/ \E publishes \in BOOLEAN : CommitFile(publishes)
    \/ GiveUp \/ NotifyCommit \/ Close \/ CloseNotify

Spec == Init /\ [][Next]_vars

(* A thread inside a wait keeps running, gets a mutex it keeps asking for  *)
(* (nobody holds this one for more than a few instructions) and leaves its *)
(* parking place when the interval is over.  Nothing is assumed of the     *)
(* writers, of the notifications or of the deadline.                       *)
LiveSpec == Spec /\ \A w \in Waiter : SF_vars(Proceed(w)) /\ SF_vars(PollElapses(w))
-----------------------------------------------------------------------------
(* The mutex is held exactly by the thread between its check and its sleep. *)
TypeOK ==
    /\ sequence \in 0..version /\ version \in 0..MaxVersion
    /\ locker \in {"free", "production", "other"}
    /\ unnotified \in BOOLEAN /\ closing \in BOOLEAN
    /\ signal \in [generation : Nat, closed : BOOLEAN]
    /\ holder \in Waiter \cup {Nobody}
    /\ cancelled \in [Waiter -> BOOLEAN] /\ cancelling \in SUBSET Waiter
    /\ waiter \in [Waiter -> WaiterRec]
    /\ \A w \in Waiter : At(w, "found") <=> holder = w

(* A waiter that decided to sleep, or sleeps, has not missed a reason to   *)
(* wake: no commit was signalled since it read the generation, and a close *)
(* or a cancellation has its notification still to come.                   *)
NoLostWakeup ==
    \A w \in Waiter : At(w, "found") \/ At(w, "parked") =>
        /\ signal.generation = waiter[w].generation
        /\ signal.closed => closing
        /\ cancelled[w] => w \in cancelling

(* The version a waiter compares with never hides a revision from it: if   *)
(* the version has not changed since its last read of this wait, there is  *)
(* nothing after its cursor.                                               *)
NothingHidden ==
    \A w \in Waiter :
        ~At(w, "idle") /\ ~waiter[w].unread /\ waiter[w].seen = version
            => sequence <= waiter[w].after

(* Once a wait has ended closed or cancelled, no later wait on that waiter *)
(* sleeps, reads or reports anything but closed or cancelled.              *)
TerminalForever ==
    \A w \in Waiter : waiter[w].last \in Terminal => At(w, "idle") \/ At(w, "check")

(* A revision after the cursor ends the wait even if nobody ever notifies: *)
(* polling alone finds it, once the writers leave the file alone.          *)
CommitsAreFound ==
    <>[](~Busy) => \A w \in Waiter :
        (~At(w, "idle") /\ sequence > waiter[w].after) ~> At(w, "idle")

(* A cancelled or closed waiter comes back, and so does one whose deadline *)
(* has passed, even if the file stays busy and no notification is sent.    *)
EndsAreSeen ==
    \A w \in Waiter :
        (~At(w, "idle") /\ (cancelled[w] \/ signal.closed \/ waiter[w].expired))
            ~> At(w, "idle")
=============================================================================
