---------------------------- MODULE HandleProofs ----------------------------
(***************************************************************************)
(* Proofs about the two handles of the C ABI on which threads meet: those  *)
(* that wait for revisions and those that collect a transaction.           *)
(*                                                                         *)
(* First the safety of RevisionWait for any number of waiters and commits: *)
(* no wake-up is lost, no revision is hidden by the version cache, and a   *)
(* terminal outcome is never followed by another wait.                     *)
(*                                                                         *)
(* The inductive invariant speaks of one thread at a time (ThreadOK) and   *)
(* of what all of them share (SharedOK): a step of a thread only has to    *)
(* establish ThreadOK for its new record.                                  *)
(***************************************************************************)
EXTENDS RevisionWait, FfiStaging, TLAPS

SharedOK ==
    /\ sequence \in Nat /\ version \in Nat /\ sequence <= version
    /\ version <= MaxVersion /\ (Busy => version < MaxVersion)
    /\ locker \in {"free", "production", "other"}
    /\ unnotified \in BOOLEAN /\ closing \in BOOLEAN
    /\ signal \in [generation : Nat, closed : BOOLEAN]
    /\ holder \in Waiter \cup {Nobody}
    /\ cancelled \in [Waiter -> BOOLEAN] /\ cancelling \in SUBSET Waiter

(* Versions remembered are past ones; a terminal outcome has a cause that  *)
(* never goes away.                                                        *)
SleepOK(r, w) ==
    /\ r.pc = "found" <=> holder = w
    /\ r.pc \in {"found", "parked"} =>
          /\ signal.generation = r.generation
          /\ signal.closed => closing
          /\ cancelled[w] => w \in cancelling
    /\ r.pc = "found" => ~signal.closed

ReadOK(r) ==
    /\ r.seen <= version /\ r.version <= version
    /\ r.pc # "idle" /\ ~r.unread /\ r.seen = version => sequence <= r.after

EndOK(r, w) ==
    r.last \in Terminal => /\ r.pc \in {"idle", "check"}
                           /\ signal.closed \/ cancelled[w]

ThreadOK(r, w) == r \in WaiterRec /\ SleepOK(r, w) /\ ReadOK(r) /\ EndOK(r, w)

IInv == /\ SharedOK
        /\ waiter \in [Waiter -> WaiterRec]
        /\ \A w \in Waiter : ThreadOK(waiter[w], w)
-----------------------------------------------------------------------------
(* The fields of a record that only moved.                                 *)
Moved(r, pc) == [r EXCEPT !.pc = pc]

LEMMA MovedThread ==
  ASSUME NEW r \in WaiterRec, NEW pc \in Steps
  PROVE  LET m == Moved(r, pc)
         IN /\ m \in WaiterRec /\ m.pc = pc
            /\ m.after = r.after /\ m.seen = r.seen /\ m.last = r.last
            /\ m.unread = r.unread /\ m.version = r.version
            /\ m.generation = r.generation
  BY DEF Moved, WaiterRec

LEMMA RecFields ==
  ASSUME NEW r \in WaiterRec
  PROVE  /\ r.pc \in Steps /\ r.after \in Nat /\ r.unread \in BOOLEAN
         /\ r.seen \in {NoVersion} \cup Nat /\ r.version \in Nat
         /\ r.generation \in Nat /\ r.expired \in BOOLEAN
         /\ r.last \in Outcomes \cup {"none"}
  BY DEF WaiterRec

(* What a step of the thread w leaves alone.                               *)
OnlyThread(w, r) ==
    /\ waiter' = [waiter EXCEPT ![w] = r]
    /\ UNCHANGED <<env, signal, ends>>
    /\ holder' # holder => {holder, holder'} = {w, Nobody}

LEMMA ThreadStep ==
  ASSUME IInv, NEW w \in Waiter, NEW r, OnlyThread(w, r), ThreadOK(r, w)'
  PROVE  IInv'
<1>1. SharedOK'
  BY DEF IInv, SharedOK, OnlyThread, env, ends, Busy
<1>2. waiter' \in [Waiter -> WaiterRec]
  BY DEF IInv, OnlyThread, ThreadOK
<1>3. ASSUME NEW v \in Waiter PROVE ThreadOK(waiter[v], v)'
  <2>1. CASE v = w
    BY <2>1 DEF IInv, OnlyThread
  <2>2. CASE v # w
    <3>1. waiter'[v] = waiter[v] /\ ThreadOK(waiter[v], v)
      BY <2>2 DEF IInv, OnlyThread
    <3>2. holder' = v <=> holder = v
      BY <2>2, NobodyAssumption DEF OnlyThread
    <3> QED BY <3>1, <3>2 DEF ThreadOK, SleepOK, ReadOK, EndOK, OnlyThread, env, ends
  <2> QED BY <2>1, <2>2
<1> QED BY <1>1, <1>2, <1>3 DEF IInv
-----------------------------------------------------------------------------
(* The steps of a thread.                                                  *)

LEMMA StartStep ==
  ASSUME IInv, NEW w \in Waiter, NEW after \in 0..sequence, StartWait(w, after)
  PROVE  IInv'
<1>1. waiter[w] \in WaiterRec /\ ThreadOK(waiter[w], w)
  BY DEF IInv
<1>2. PICK r : r = Thread("check", after, waiter[w].seen, waiter[w].last)
  OBVIOUS
<1>3. after \in Nat /\ "check" \in Steps
  BY DEF IInv, SharedOK, Steps
<1>3a. /\ waiter[w].seen \in {NoVersion} \cup Nat
       /\ waiter[w].last \in Outcomes \cup {"none"}
  BY <1>1, RecFields
<1>4. /\ r \in WaiterRec
      /\ r.pc = "check" /\ r.after = after /\ r.seen = waiter[w].seen
      /\ r.last = waiter[w].last /\ r.unread = TRUE /\ r.version = 0
  BY <1>2, <1>3, <1>3a DEF Thread, WaiterRec
<1>5. OnlyThread(w, r)
  BY <1>2 DEF StartWait, OnlyThread
<1>6. ThreadOK(r, w)'
  BY <1>1, <1>4 DEF ThreadOK, SleepOK, ReadOK, EndOK, StartWait, env, ends, IInv, SharedOK, At
<1> QED BY <1>5, <1>6, ThreadStep

(* A thread that ends its wait.                                            *)
LEMMA ReturnStep ==
  ASSUME IInv, NEW w \in Waiter, NEW o \in Outcomes, Return(w, o), holder # w,
         UNCHANGED <<env, signal, holder, ends>>,
         o \in Terminal => signal.closed \/ cancelled[w],
         o \notin Terminal => waiter[w].last \notin Terminal
  PROVE  IInv'
<1>1. waiter[w] \in WaiterRec /\ ThreadOK(waiter[w], w)
  BY DEF IInv
<1>2. PICK r : r = Thread("idle", 0, waiter[w].seen, o)
  OBVIOUS
<1>3. /\ "idle" \in Steps /\ 0 \in Nat /\ o \in Outcomes \cup {"none"}
      /\ waiter[w].seen \in {NoVersion} \cup Nat
  BY <1>1, RecFields DEF Steps
<1>4. /\ r \in WaiterRec /\ r.pc = "idle" /\ r.seen = waiter[w].seen
      /\ r.last = o /\ r.version = 0
  BY <1>2, <1>3 DEF Thread, WaiterRec
<1>5. OnlyThread(w, r)
  BY <1>2 DEF Return, OnlyThread
<1>6. ThreadOK(r, w)'
  BY <1>1, <1>4 DEF ThreadOK, SleepOK, ReadOK, EndOK, env, ends, IInv, SharedOK
<1> QED BY <1>5, <1>6, ThreadStep

(* A thread that goes on, with the mutex changing hands or not.            *)
LEMMA MoveStep ==
  ASSUME IInv, NEW w \in Waiter, NEW pc \in Steps \ {"idle"}, Move(w, pc),
         UNCHANGED <<env, signal, ends>>,
         holder' # holder => {holder, holder'} = {w, Nobody},
         waiter[w].pc # "idle",
         pc = "found" <=> holder' = w,
         pc = "found" => ~Woken(w),
         pc = "parked" => waiter[w].pc = "found",
         pc = "check" \/ waiter[w].pc \notin {"idle", "check"}
  PROVE  IInv'
<1>1. waiter[w] \in WaiterRec /\ ThreadOK(waiter[w], w)
  BY DEF IInv
<1>2. PICK r : r = Moved(waiter[w], pc)
  OBVIOUS
<1>4. /\ r \in WaiterRec /\ r.pc = pc /\ r.after = waiter[w].after
      /\ r.seen = waiter[w].seen /\ r.last = waiter[w].last
      /\ r.unread = waiter[w].unread /\ r.version = waiter[w].version
      /\ r.generation = waiter[w].generation
  BY <1>1, <1>2, MovedThread
<1>5. OnlyThread(w, r)
  BY <1>2 DEF Move, OnlyThread, Moved
<1>6. ThreadOK(r, w)'
  <2>1. SleepOK(r, w)'
    BY <1>1, <1>4 DEF ThreadOK, SleepOK, env, ends, Woken
  <2>2. ReadOK(r)'
    BY <1>1, <1>4 DEF ThreadOK, ReadOK, env
  <2>3. EndOK(r, w)'
    BY <1>1, <1>4 DEF ThreadOK, EndOK, env, ends
  <2> QED BY <1>4, <2>1, <2>2, <2>3 DEF ThreadOK
<1> QED BY <1>5, <1>6, ThreadStep

LEMMA CheckSignalStep ==
  ASSUME IInv, NEW w \in Waiter, CheckSignal(w)
  PROVE  IInv'
<1> USE DEF CheckSignal
<1>1. waiter[w] \in WaiterRec /\ ThreadOK(waiter[w], w) /\ waiter[w].pc = "check"
      /\ holder # w
  BY NobodyAssumption DEF IInv, At, MutexFree
<1>2. CASE signal.closed
  BY <1>1, <1>2, ReturnStep DEF Outcomes, Terminal
<1>3. CASE ~signal.closed /\ cancelled[w]
  BY <1>1, <1>3, ReturnStep DEF Outcomes, Terminal
<1>4. CASE ~signal.closed /\ ~cancelled[w]
  <2>1. PICK r : r = [waiter[w] EXCEPT !.pc = "version", !.generation = signal.generation]
    OBVIOUS
  <2>2. /\ r \in WaiterRec /\ r.pc = "version" /\ r.after = waiter[w].after
        /\ r.seen = waiter[w].seen /\ r.last = waiter[w].last
        /\ r.unread = waiter[w].unread /\ r.version = waiter[w].version
    BY <1>1, <2>1 DEF WaiterRec, Steps, IInv, SharedOK
  <2>3. OnlyThread(w, r)
    BY <1>4, <2>1 DEF OnlyThread
  <2>4. ThreadOK(r, w)'
    BY <1>1, <1>4, <2>2 DEF ThreadOK, SleepOK, ReadOK, EndOK, env, ends
  <2> QED BY <2>3, <2>4, ThreadStep
<1> QED BY <1>2, <1>3, <1>4

LEMMA ObserveVersionStep ==
  ASSUME IInv, NEW w \in Waiter, ObserveVersion(w)
  PROVE  IInv'
<1> USE DEF ObserveVersion
<1>1. waiter[w] \in WaiterRec /\ ThreadOK(waiter[w], w) /\ waiter[w].pc = "version"
      /\ holder # w
  BY DEF IInv, At, ThreadOK, SleepOK
<1>2. CASE ~Busy /\ (waiter[w].unread \/ waiter[w].seen # version)
  <2>1. PICK r : r = [waiter[w] EXCEPT !.pc = "read", !.version = version]
    OBVIOUS
  <2>2. /\ r \in WaiterRec /\ r.pc = "read" /\ r.after = waiter[w].after
        /\ r.seen = waiter[w].seen /\ r.last = waiter[w].last
        /\ r.unread = waiter[w].unread /\ r.version = version
    BY <1>1, <2>1 DEF WaiterRec, Steps, IInv, SharedOK
  <2>3. OnlyThread(w, r)
    BY <1>2, <2>1 DEF OnlyThread
  <2>4. ThreadOK(r, w)'
    BY <1>1, <2>2 DEF ThreadOK, SleepOK, ReadOK, EndOK, env, ends, IInv, SharedOK
  <2> QED BY <2>3, <2>4, ThreadStep
<1>3. CASE ~(~Busy /\ (waiter[w].unread \/ waiter[w].seen # version))
  BY <1>1, <1>3, MoveStep DEF Steps
<1> QED BY <1>2, <1>3

LEMMA ReadJournalStep ==
  ASSUME IInv, NEW w \in Waiter, ReadJournal(w)
  PROVE  IInv'
<1> USE DEF ReadJournal
<1>1. waiter[w] \in WaiterRec /\ ThreadOK(waiter[w], w) /\ waiter[w].pc = "read"
      /\ holder # w /\ waiter[w].last \notin Terminal
  BY DEF IInv, At, ThreadOK, SleepOK, EndOK
<1>2. CASE Busy
  BY <1>1, <1>2, MoveStep DEF Steps
<1>3. CASE ~Busy /\ sequence > waiter[w].after
  <2>1. PICK r : r = Thread("idle", 0, waiter[w].version, "revisions")
    OBVIOUS
  <2>2. /\ "idle" \in Steps /\ 0 \in Nat /\ "revisions" \in Outcomes \cup {"none"}
        /\ waiter[w].version \in {NoVersion} \cup Nat
    BY <1>1, RecFields DEF Steps, Outcomes
  <2>3. /\ r \in WaiterRec /\ r.pc = "idle" /\ r.seen = waiter[w].version
        /\ r.last = "revisions" /\ r.version = 0
    BY <2>1, <2>2 DEF Thread, WaiterRec
  <2>4. OnlyThread(w, r)
    BY <1>3, <2>1 DEF OnlyThread, Found
  <2>5. ThreadOK(r, w)'
    BY <1>1, <2>3 DEF ThreadOK, SleepOK, ReadOK, EndOK, env, ends, IInv, SharedOK, Terminal
  <2> QED BY <2>4, <2>5, ThreadStep
<1>4. CASE ~Busy /\ ~(sequence > waiter[w].after)
  <2>1. PICK r : r = [waiter[w] EXCEPT !.pc = "deadline", !.unread = FALSE,
                                       !.seen = waiter[w].version]
    OBVIOUS
  <2>2. /\ r \in WaiterRec /\ r.pc = "deadline" /\ r.after = waiter[w].after
        /\ r.seen = waiter[w].version /\ r.last = waiter[w].last
        /\ r.version = waiter[w].version
    BY <1>1, <2>1 DEF WaiterRec, Steps
  <2>3. OnlyThread(w, r)
    BY <1>4, <2>1 DEF OnlyThread
  <2>4. ThreadOK(r, w)'
    <3>1. sequence <= waiter[w].after
      BY <1>1, <1>4, RecFields DEF IInv, SharedOK
    <3> QED
      BY <1>1, <2>2, <3>1 DEF ThreadOK, SleepOK, ReadOK, EndOK, env, ends
  <2> QED BY <2>3, <2>4, ThreadStep
<1> QED BY <1>2, <1>3, <1>4

LEMMA RestOfThread ==
  ASSUME IInv, NEW w \in Waiter,
         \/ CheckDeadline(w) \/ SleepLock(w) \/ Park(w) \/ PollElapses(w)
         \/ WakeSpuriously(w) \/ Expire(w)
  PROVE  IInv'
<1>1. waiter[w] \in WaiterRec /\ ThreadOK(waiter[w], w)
      /\ (holder = w <=> waiter[w].pc = "found")
      /\ (waiter[w].pc \notin {"idle", "check"} => waiter[w].last \notin Terminal)
  BY DEF IInv, At, ThreadOK, SleepOK, EndOK
<1>2. CASE CheckDeadline(w) /\ waiter[w].expired
  BY <1>1, <1>2, ReturnStep DEF CheckDeadline, At, Outcomes, Terminal
<1>3. CASE CheckDeadline(w) /\ ~waiter[w].expired
  BY <1>1, <1>3, MoveStep DEF CheckDeadline, At, Steps
<1>4. CASE SleepLock(w)
  <2>1. CASE Move(w, "check") /\ UNCHANGED holder
    BY <1>1, <1>4, <2>1, MoveStep DEF SleepLock, At, Steps
  <2>2. CASE Move(w, "found") /\ holder' = w /\ ~Woken(w)
    BY <1>1, <1>4, <2>2, MoveStep DEF SleepLock, At, Steps, MutexFree
  <2> QED BY <1>4, <2>1, <2>2 DEF SleepLock
<1>5. CASE Park(w)
  BY <1>1, <1>5, MoveStep, NobodyAssumption DEF Park, At, Steps
<1>6. CASE PollElapses(w)
  BY <1>1, <1>6, MoveStep DEF PollElapses, At, Steps
<1>7. CASE WakeSpuriously(w)
  BY <1>1, <1>7, MoveStep DEF WakeSpuriously, At, Steps
<1>8. CASE Expire(w)
  <2>1. PICK r : r = [waiter[w] EXCEPT !.expired = TRUE]
    OBVIOUS
  <2>2. /\ r \in WaiterRec /\ r.pc = waiter[w].pc /\ r.after = waiter[w].after
        /\ r.seen = waiter[w].seen /\ r.last = waiter[w].last
        /\ r.unread = waiter[w].unread /\ r.version = waiter[w].version
        /\ r.generation = waiter[w].generation
    BY <1>1, <2>1 DEF WaiterRec
  <2>3. OnlyThread(w, r)
    BY <1>8, <2>1 DEF OnlyThread, Expire
  <2>4. ThreadOK(r, w)'
    BY <1>1, <1>8, <2>2 DEF ThreadOK, SleepOK, ReadOK, EndOK, env, ends, Expire
  <2> QED BY <2>3, <2>4, ThreadStep
<1> QED BY <1>2, <1>3, <1>4, <1>5, <1>6, <1>7, <1>8
-----------------------------------------------------------------------------
(* The steps of the writers and of those who end waits.                    *)

(* notify_all keeps the invariant of every thread it does not find parked, *)
(* and frees the parked ones of their obligations.                         *)
LEMMA NotifyAllStep ==
  ASSUME IInv, NotifyAll, SharedOK', UNCHANGED <<sequence, version, holder>>,
         signal'.closed = signal.closed,
         UNCHANGED cancelled,
         \A w \in Waiter : waiter[w].pc = "found" =>
            SleepOK(waiter[w], w)'
  PROVE  IInv'
<1>1. ASSUME NEW w \in Waiter
      PROVE  waiter'[w] \in WaiterRec /\ ThreadOK(waiter[w], w)'
  <2>1. waiter[w] \in WaiterRec /\ ThreadOK(waiter[w], w)
    BY DEF IInv
  <2>2. CASE waiter[w].pc = "parked"
    <3>1. PICK r : r = Moved(waiter[w], "sleep")
      OBVIOUS
    <3>2. /\ r \in WaiterRec /\ r.pc = "sleep" /\ r.after = waiter[w].after
          /\ r.seen = waiter[w].seen /\ r.last = waiter[w].last
          /\ r.unread = waiter[w].unread /\ r.version = waiter[w].version
      BY <2>1, <3>1, MovedThread DEF Steps
    <3>3. waiter'[w] = r
      BY <2>2, <3>1 DEF NotifyAll, At, Moved
    <3> QED BY <2>1, <2>2, <3>2, <3>3 DEF ThreadOK, SleepOK, ReadOK, EndOK
  <2>3. CASE waiter[w].pc # "parked"
    <3>1. waiter'[w] = waiter[w]
      BY <2>3 DEF NotifyAll, At
    <3> QED BY <2>1, <2>3, <3>1 DEF ThreadOK, SleepOK, ReadOK, EndOK
  <2> QED BY <2>2, <2>3
<1>2. waiter' = [w \in Waiter |-> waiter'[w]]
  BY DEF NotifyAll
<1> QED BY <1>1, <1>2 DEF IInv

LEMMA WriterStep ==
  ASSUME IInv,
         \/ \E who \in {"production", "other"} : LockFile(who)
         \/ \E publishes \in BOOLEAN : CommitFile(publishes)
         \/ GiveUp
  PROVE  IInv'
<1>1. UNCHANGED <<signal, holder, ends, waiter>>
  BY DEF LockFile, CommitFile, GiveUp
<1>2. SharedOK' /\ (UNCHANGED <<sequence, version>> \/ version' = version + 1)
  BY <1>1, MaxVersionAssumption
     DEF IInv, SharedOK, LockFile, CommitFile, GiveUp, Busy, ends
<1>3. ASSUME NEW w \in Waiter PROVE ThreadOK(waiter[w], w)'
  <2>1. waiter[w] \in WaiterRec /\ ThreadOK(waiter[w], w) /\ waiter'[w] = waiter[w]
    BY <1>1 DEF IInv
  <2>2. SleepOK(waiter[w], w)' /\ EndOK(waiter[w], w)'
    BY <1>1, <2>1 DEF ThreadOK, SleepOK, EndOK, ends
  <2>3. ReadOK(waiter[w])'
    <3>1. /\ waiter[w].seen \in {NoVersion} \cup Nat /\ waiter[w].version \in Nat
          /\ version \in Nat /\ NoVersion = -1
      BY <2>1, RecFields DEF IInv, SharedOK, NoVersion
    <3> QED BY <1>2, <2>1, <3>1 DEF ThreadOK, ReadOK
  <2> QED BY <2>1, <2>2, <2>3 DEF ThreadOK
<1> QED BY <1>1, <1>2, <1>3 DEF IInv

LEMMA NotifyCommitStep ==
  ASSUME IInv, NotifyCommit PROVE IInv'
<1>1. SharedOK' /\ signal'.closed = signal.closed
  <2>1. /\ signal' \in [generation : Nat, closed : BOOLEAN]
        /\ signal'.closed = signal.closed
    BY DEF IInv, SharedOK, NotifyCommit
  <2> QED BY <2>1 DEF IInv, SharedOK, NotifyCommit, ends, Busy
<1>2. \A w \in Waiter : waiter[w].pc # "found"
  BY NobodyAssumption DEF NotifyCommit, IInv, MutexFree, ThreadOK, SleepOK
<1> QED BY <1>1, <1>2, NotifyAllStep DEF NotifyCommit, ends

LEMMA CloseStep ==
  ASSUME IInv, Close PROVE IInv'
<1>1. SharedOK' /\ signal'.closed /\ signal'.generation = signal.generation /\ closing'
  BY DEF IInv, SharedOK, Close, env, Busy
<1>2. ASSUME NEW w \in Waiter PROVE ThreadOK(waiter[w], w)'
  <2>1. ThreadOK(waiter[w], w) /\ waiter' = waiter
    BY DEF IInv, Close
  <2>2. waiter[w].pc # "found"
    BY <2>1, NobodyAssumption DEF ThreadOK, SleepOK, Close, MutexFree
  <2> QED BY <1>1, <2>1, <2>2 DEF ThreadOK, SleepOK, ReadOK, EndOK, Close, env
<1> QED BY <1>1, <1>2 DEF IInv, Close

LEMMA CloseNotifyStep ==
  ASSUME IInv, CloseNotify PROVE IInv'
<1>1. SharedOK'
  BY DEF IInv, SharedOK, CloseNotify, env, Busy
<1>2. ASSUME NEW w \in Waiter, waiter[w].pc = "found" PROVE SleepOK(waiter[w], w)'
  <2>1. SleepOK(waiter[w], w) /\ waiter'[w] = waiter[w]
    BY <1>2 DEF IInv, ThreadOK, CloseNotify, NotifyAll, At
  <2> QED BY <1>2, <2>1 DEF SleepOK, CloseNotify
<1> QED BY <1>1, <1>2, NotifyAllStep DEF CloseNotify, env

LEMMA CancelStep ==
  ASSUME IInv, NEW c \in Waiter, Cancel(c) PROVE IInv'
<1>1. SharedOK'
  BY DEF IInv, SharedOK, Cancel, env, Busy
<1>2. ASSUME NEW w \in Waiter PROVE ThreadOK(waiter[w], w)'
  <2>1. ThreadOK(waiter[w], w) /\ waiter' = waiter
    BY DEF IInv, Cancel
  <2>2. cancelled'[w] = (w = c \/ cancelled[w]) /\ cancelling' = cancelling \cup {c}
    BY DEF Cancel, IInv, SharedOK
  <2> QED BY <2>1, <2>2 DEF ThreadOK, SleepOK, ReadOK, EndOK, Cancel, env
<1> QED BY <1>1, <1>2 DEF IInv, Cancel

LEMMA CancelNotifyStep ==
  ASSUME IInv, NEW c \in Waiter, CancelNotify(c) PROVE IInv'
<1>1. SharedOK'
  BY DEF IInv, SharedOK, CancelNotify, env, Busy
<1>2. \A w \in Waiter : waiter[w].pc # "found"
  BY NobodyAssumption DEF CancelNotify, IInv, MutexFree, ThreadOK, SleepOK
<1> QED BY <1>1, <1>2, NotifyAllStep DEF CancelNotify, env
-----------------------------------------------------------------------------
LEMMA WaitInit == Init => IInv
<1> SUFFICES ASSUME Init PROVE IInv
  OBVIOUS
<1>1. SharedOK
  <2>1. signal \in [generation : Nat, closed : BOOLEAN]
    BY DEF Init
  <2>2. /\ sequence \in Nat /\ version \in Nat /\ sequence <= version
        /\ version <= MaxVersion /\ ~Busy
    BY MaxVersionAssumption DEF Init, Busy
  <2> QED BY <2>1, <2>2 DEF Init, SharedOK
<1>2. ASSUME NEW w \in Waiter PROVE waiter[w] \in WaiterRec /\ ThreadOK(waiter[w], w)
  <2>1. waiter[w] = Thread("idle", 0, NoVersion, "none")
    BY DEF Init
  <2>2. /\ waiter[w] \in WaiterRec /\ waiter[w].pc = "idle" /\ waiter[w].seen = NoVersion
        /\ waiter[w].version = 0 /\ waiter[w].last = "none"
    BY <2>1 DEF Thread, WaiterRec, Steps
  <2> QED
    BY <2>2, NobodyAssumption
       DEF ThreadOK, SleepOK, ReadOK, EndOK, Init, NoVersion, Terminal
<1>3. waiter \in [Waiter -> WaiterRec]
  <2>1. waiter = [w \in Waiter |-> Thread("idle", 0, NoVersion, "none")]
    BY DEF Init
  <2> QED BY <1>2, <2>1
<1> QED BY <1>1, <1>2, <1>3 DEF IInv

LEMMA WaitStep == IInv /\ [Next]_vars => IInv'
<1> SUFFICES ASSUME IInv, [Next]_vars PROVE IInv'
  OBVIOUS
<1>1. ASSUME NEW w \in Waiter, NEW after \in 0..sequence, StartWait(w, after) PROVE IInv'
  BY <1>1, StartStep
<1>2. ASSUME NEW w \in Waiter, Proceed(w) PROVE IInv'
  BY <1>2, CheckSignalStep, ObserveVersionStep, ReadJournalStep, RestOfThread DEF Proceed
<1>3. ASSUME NEW w \in Waiter, WakeSpuriously(w) \/ Expire(w) PROVE IInv'
  BY <1>3, RestOfThread
<1>4. ASSUME NEW w \in Waiter, Cancel(w) \/ CancelNotify(w) PROVE IInv'
  BY <1>4, CancelStep, CancelNotifyStep
<1>5. CASE \/ \E who \in {"production", "other"} : LockFile(who)
           \/ \E publishes \in BOOLEAN : CommitFile(publishes)
           \/ GiveUp
  BY <1>5, WriterStep
<1>6. CASE NotifyCommit \/ Close \/ CloseNotify
  BY <1>6, NotifyCommitStep, CloseStep, CloseNotifyStep
<1>7. CASE UNCHANGED vars
  <2>1. SharedOK'
    BY <1>7 DEF vars, env, ends, IInv, SharedOK, Busy
  <2>2. ASSUME NEW w \in Waiter PROVE ThreadOK(waiter[w], w)'
    <3>1. ThreadOK(waiter[w], w) /\ waiter' = waiter
      BY <1>7 DEF IInv, vars
    <3> QED BY <1>7, <3>1 DEF vars, env, ends, ThreadOK, SleepOK, ReadOK, EndOK
  <2> QED BY <1>7, <2>1, <2>2 DEF IInv, vars
<1> QED BY <1>1, <1>2, <1>3, <1>4, <1>5, <1>6, <1>7 DEF Next

THEOREM WaitersStaySound == Spec => []IInv
BY WaitInit, WaitStep, PTL DEF Spec

(* The types, and the mutex held exactly between a check and its sleep.    *)
THEOREM WaitersAreTyped == Spec => []TypeOK
<1>1. IInv => TypeOK
  BY MaxVersionAssumption DEF IInv, SharedOK, TypeOK, ThreadOK, SleepOK, At
<1> QED BY <1>1, WaitersStaySound, PTL

(* No waiter goes to sleep on a commit, a close or a cancellation whose    *)
(* notification has already been sent.                                     *)
THEOREM WakeupsAreNotLost == Spec => []NoLostWakeup
<1>1. IInv => NoLostWakeup
  BY DEF IInv, ThreadOK, SleepOK, NoLostWakeup, At
<1> QED BY <1>1, WaitersStaySound, PTL

(* The recorded data version never hides a revision after the cursor.      *)
THEOREM NoRevisionIsHidden == Spec => []NothingHidden
<1>1. IInv => NothingHidden
  BY DEF IInv, ThreadOK, ReadOK, NothingHidden, At
<1> QED BY <1>1, WaitersStaySound, PTL

(* A waiter that reported its end never waits, reads or times out again.   *)
THEOREM EndsAreFinal == Spec => []TerminalForever
<1>1. IInv => TerminalForever
  BY DEF IInv, ThreadOK, EndOK, TerminalForever, At
<1> QED BY <1>1, WaitersStaySound, PTL
-----------------------------------------------------------------------------
(***************************************************************************)
(* FfiTransactions: the flag, the lifecycle and what a commit answers.     *)
(***************************************************************************)

(* A handle that was never handed out has published nothing.               *)
UnusedIsEmpty == \A t \in Txn : life[t] = "none" => revisions[t] = 0

HandlesInv == TxnTypeOK /\ NeverLockedOut /\ CommitTellsTheTruth /\ UnusedIsEmpty

USE DEF Usable, IsOpen, SetLife, SetCall

LEMMA HandlesInit == TxnInit => HandlesInv
<1> SUFFICES ASSUME TxnInit PROVE HandlesInv
  OBVIOUS
<1>1. mutations \in [Txn -> 0..MaxStaged]
  BY MaxStagedAssumption DEF TxnInit
<1>2. TxnTypeOK
  BY <1>1 DEF TxnInit, TxnTypeOK, Lives, Calls
<1> QED BY <1>2 DEF TxnInit, HandlesInv, NeverLockedOut, CommitTellsTheTruth, UnusedIsEmpty

LEMMA StepType == TxnTypeOK /\ [TxnNext]_txnVars => TxnTypeOK'
<1> SUFFICES ASSUME TxnTypeOK, [TxnNext]_txnVars PROVE TxnTypeOK'
  OBVIOUS
<1> USE MaxStagedAssumption DEF TxnTypeOK, Lives, Calls
<1>1. ASSUME NEW t \in Txn, Begin(t) PROVE TxnTypeOK'
  BY <1>1 DEF Begin
<1>2. ASSUME NEW t \in Txn, Stage(t) PROVE TxnTypeOK'
  BY <1>2 DEF Stage
<1>9. ASSUME NEW t \in Txn, Bind(t) PROVE TxnTypeOK'
  <2>1. mutations[t] - 1 \in 0..MaxStaged
    BY <1>9 DEF Bind
  <2> QED BY <1>9, <2>1 DEF Bind
<1>3. ASSUME NEW t \in Txn, CommitReplay(t) PROVE TxnTypeOK'
  BY <1>3 DEF CommitReplay
<1>4. ASSUME NEW t \in Txn, CommitStored(t) PROVE TxnTypeOK'
  BY <1>4 DEF CommitStored
<1>5. ASSUME NEW t \in Txn, CommitRefused(t) \/ CommitPanics(t) PROVE TxnTypeOK'
  BY <1>5 DEF CommitRefused, CommitPanics
<1>6. 0 \in 0..MaxStaged
  OBVIOUS
<1>7. ASSUME NEW t \in Txn, CommitReturn(t) \/ Rollback(t) \/ Release(t) PROVE TxnTypeOK'
  <2>1. mutations' \in [Txn -> 0..MaxStaged]
    BY <1>6, <1>7 DEF CommitReturn, Rollback, Release
  <2>2. /\ transaction_open' \in BOOLEAN /\ life' \in [Txn -> Lives]
        /\ call' \in [Txn -> Calls] /\ revisions' = revisions
    BY <1>7 DEF CommitReturn, Rollback, Release
  <2>3. \A u \in Txn : call'[u] # "none" => life'[u] = "open" /\ call'[u] = call[u]
    BY <1>7 DEF CommitReturn, Rollback, Release
  <2> QED BY <2>1, <2>2, <2>3
<1>8. CASE UNCHANGED txnVars
  BY <1>8 DEF txnVars
<1> QED BY <1>1, <1>2, <1>3, <1>4, <1>5, <1>7, <1>8, <1>9 DEF TxnNext

(* Only begin raises the flag, and it opens a handle; every step that      *)
(* closes a handle lowers it.                                              *)
LEMMA StepFlag == TxnTypeOK /\ NeverLockedOut /\ [TxnNext]_txnVars => NeverLockedOut'
<1> SUFFICES ASSUME TxnTypeOK, NeverLockedOut, [TxnNext]_txnVars PROVE NeverLockedOut'
  OBVIOUS
<1> USE DEF TxnTypeOK, NeverLockedOut
<1>1. ASSUME NEW t \in Txn, Begin(t) PROVE NeverLockedOut'
  BY <1>1 DEF Begin
<1>2. ASSUME NEW t \in Txn, CommitReturn(t) \/ Rollback(t) \/ Release(t)
      PROVE NeverLockedOut'
  BY <1>2 DEF CommitReturn, Rollback, Release
<1>3. CASE UNCHANGED <<transaction_open, life>>
  BY <1>3
<1> QED
  BY <1>1, <1>2, <1>3
     DEF TxnNext, Stage, Bind, CommitReplay, CommitStored, CommitRefused, CommitPanics, txnVars

Truth == CommitTellsTheTruth /\ UnusedIsEmpty

LEMMA StepTruth == TxnTypeOK /\ Truth /\ [TxnNext]_txnVars => Truth'
<1> SUFFICES ASSUME TxnTypeOK, Truth, [TxnNext]_txnVars PROVE Truth'
  OBVIOUS
<1> USE DEF TxnTypeOK, Truth, CommitTellsTheTruth, UnusedIsEmpty, Lives, Calls
<1>1. ASSUME NEW t \in Txn, Begin(t) PROVE Truth'
  BY <1>1 DEF Begin
<1>2. ASSUME NEW t \in Txn, CommitReplay(t) \/ CommitRefused(t) \/ CommitPanics(t)
      PROVE Truth'
  BY <1>2 DEF CommitReplay, CommitRefused, CommitPanics
<1>3. ASSUME NEW t \in Txn, CommitStored(t) PROVE Truth'
  BY <1>3 DEF CommitStored
<1>4. ASSUME NEW t \in Txn, CommitReturn(t) PROVE Truth'
  BY <1>4 DEF CommitReturn
<1>5. ASSUME NEW t \in Txn, Rollback(t) \/ Release(t) PROVE Truth'
  BY <1>5 DEF Rollback, Release
<1>6. CASE UNCHANGED <<life, call, revisions>>
  BY <1>6
<1> QED BY <1>1, <1>2, <1>3, <1>4, <1>5, <1>6 DEF TxnNext, Stage, Bind, txnVars

THEOREM HandlesStaySound == TxnSpec => []HandlesInv
<1>1. HandlesInv /\ [TxnNext]_txnVars => HandlesInv'
  BY StepType, StepFlag, StepTruth DEF HandlesInv, Truth
<1> QED BY HandlesInit, <1>1, PTL DEF TxnSpec

(* A host is never locked out of a production by its own closed handles.   *)
THEOREM HostIsNeverLockedOut == TxnSpec => []NeverLockedOut
<1>1. HandlesInv => NeverLockedOut
  BY DEF HandlesInv
<1> QED BY <1>1, HandlesStaySound, PTL

(* What commit answered is what the storage did, and it did it once.       *)
THEOREM CommitsAreTruthful == TxnSpec => []CommitTellsTheTruth
<1>1. HandlesInv => CommitTellsTheTruth
  BY DEF HandlesInv
<1> QED BY <1>1, HandlesStaySound, PTL

(* A commit that runs has the production's mutex, and nobody else has it.  *)
THEOREM HandlesAreTyped == TxnSpec => []TxnTypeOK
<1>1. HandlesInv => TxnTypeOK
  BY DEF HandlesInv
<1> QED BY <1>1, HandlesStaySound, PTL

(* What the handles hold, and what a replay makes of it, takes nothing     *)
(* from this: the staging calls and the commits of FfiStaging are steps of *)
(* FfiTransactions.                                                        *)
THEOREM StagingKeepsHandlesSound ==
    SSpec => TxnSpec /\ []NeverLockedOut /\ []CommitTellsTheTruth
<1>1. SInit => TxnInit
  BY DEF SInit
<1>2. [SNext]_svars => [TxnNext]_txnVars
  <2> SUFFICES ASSUME [SNext]_svars PROVE [TxnNext]_txnVars
    OBVIOUS
  <2>1. CASE UNCHANGED svars
    BY <2>1 DEF svars
  <2>2. ASSUME NEW t \in Txn, StageMutation(t) \/ CompleteJob(t) \/ StoreReplay(t) \/ Finish(t)
        PROVE  TxnNext
    BY <2>2 DEF StageMutation, CompleteJob, StoreReplay, Finish, TxnNext
  <2>3. ASSUME NEW t \in Txn,
               Begin(t) \/ CommitReplay(t) \/ CommitRefused(t) \/ CommitPanics(t)
        PROVE  TxnNext
    BY <2>3 DEF TxnNext
  <2> QED
    BY <2>1, <2>2, <2>3 DEF SNext
<1>3. SSpec => TxnSpec
  BY <1>1, <1>2, PTL DEF SSpec, TxnSpec
<1> QED
  BY <1>3, HostIsNeverLockedOut, CommitsAreTruthful, PTL
=============================================================================
