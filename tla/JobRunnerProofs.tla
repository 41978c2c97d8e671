--------------------------- MODULE JobRunnerProofs ---------------------------
(***************************************************************************)
(* Proofs about JobRunner for every set of jobs and tokens and any number  *)
(* of processes.  Temporary and final files are accounted for whatever     *)
(* overlaps.  The output file of a succeeded job is safe as long as no two *)
(* processes have been at work at the same time: then nobody else can put  *)
(* a file where a render is about to be renamed to.  After an overlap it   *)
(* is not, which a run shows.                                              *)
(***************************************************************************)
EXTENDS JobRunner, TLAPS

(* Where a process has a job and a claim; elsewhere it has neither.        *)
Working == {"checking", "rendering", "rendered", "published", "completing",
            "removing", "discarding", "failing"}

Equipped(p, tokens) == IF p.pc \in Working THEN p.job \in Job /\ p.claim \in tokens
                                           ELSE p.job = None /\ p.claim = None
WorkOK == \A r \in Runner : Equipped(runner[r], issued)

(* The processes and rows a step of one process leaves behind.             *)
LEMMA RowTypes ==
    ASSUME NEW s \in JobStates, NEW c \in Claim \cup {None}, NEW o \in Claim \cup {None}
    PROVE  Row(s, c, o) \in JobRow
BY DEF Row, JobRow

LEMMA ProcessTypes ==
    /\ Exit \in Process
    /\ \A todo \in SUBSET Job, pc \in Steps : Between(pc, todo) \in Process
BY DEF Exit, Between, Process, Steps

LEMMA InitOK == Init => TypeOK /\ WorkOK
<1> SUFFICES ASSUME Init PROVE TypeOK /\ WorkOK
  OBVIOUS
<1>1. Exit \in Process /\ Equipped(Exit, issued)
  BY ProcessTypes DEF Exit, Between, Equipped, Working
<1>2. Row("requested", None, None) \in JobRow
  BY RowTypes DEF JobStates
<1>3. TypeOK
  BY <1>1, <1>2 DEF Init, TypeOK
<1>4. WorkOK
  BY <1>1 DEF Init, WorkOK
<1> QED
  BY <1>3, <1>4

-----------------------------------------------------------------------------
(* A step that gives one process a new state keeps the processes typed.    *)
LEMMA BecomeOK ==
    ASSUME TypeOK, WorkOK, NEW r \in Runner, NEW p \in Process,
           runner' = [runner EXCEPT ![r] = p], issued \subseteq issued',
           Equipped(p, issued')
    PROVE  runner' \in [Runner -> Process] /\ WorkOK'
BY DEF TypeOK, WorkOK, Equipped

(* A step that moves one process on keeps its job and its claim.           *)
LEMMA GotoOK ==
    ASSUME TypeOK, WorkOK, NEW r \in Runner, NEW pc \in Working,
           runner[r].pc \in Working, Goto(r, pc), issued' = issued
    PROVE  runner' \in [Runner -> Process] /\ WorkOK'
<1>1. PICK p : p = [runner[r] EXCEPT !.pc = pc]
  OBVIOUS
<1>2. p \in Process /\ p.pc = pc /\ p.job = runner[r].job /\ p.claim = runner[r].claim
  BY <1>1 DEF TypeOK, Process, Working, Steps
<1>3. runner' = [runner EXCEPT ![r] = p]
  BY <1>1 DEF Goto
<1> QED
  BY <1>2, <1>3, BecomeOK DEF WorkOK, Equipped

(* A step that writes one row keeps the table typed and forgets the lease. *)
LEMMA SetRowOK ==
    ASSUME TypeOK, NEW j \in Job, NEW row \in JobRow, SetRow(j, row)
    PROVE  /\ jobs' \in [Job -> JobRow]
           /\ overdue' \subseteq {k \in Job : jobs'[k].state = "claimed"}
BY DEF TypeOK, SetRow

LEMMA FailingOK ==
    ASSUME TypeOK, WorkOK, NEW r \in Runner, NEW goesOn \in BOOLEAN,
           runner[r].pc \in Working
    PROVE  Failing(r, goesOn) \in Process /\ Equipped(Failing(r, goesOn), issued)
<1>1. InTime(r) \in BOOLEAN
  BY DEF InTime, Holds
<1>2. runner[r] \in Process
  BY DEF TypeOK
<1> QED
  BY <1>1, <1>2 DEF WorkOK, Equipped, Working, Failing, Process, Steps

(* The state after an end of the process, or of one of its jobs.           *)
LEMMA RestOK ==
    ASSUME TypeOK, NEW r \in Runner
    PROVE  /\ Exit \in Process /\ Equipped(Exit, issued')
           /\ NextJob(r) \in Process /\ Equipped(NextJob(r), issued')
           /\ AfterFailure(r) \in Process /\ Equipped(AfterFailure(r), issued')
<1>1. runner[r].todo \in SUBSET Job
  BY DEF TypeOK, Process
<1>2. "listed" \in Steps
  BY DEF Steps
<1>3. NextJob(r) \in Process /\ Equipped(NextJob(r), issued')
  BY <1>1, <1>2, ProcessTypes DEF NextJob, Between, Equipped, Working
<1>4. Exit \in Process /\ Equipped(Exit, issued')
  BY ProcessTypes DEF Exit, Between, Equipped, Working
<1> QED
  BY <1>3, <1>4 DEF AfterFailure

(* A step of one process keeps the types, and a process at work keeps a    *)
(* job and an issued claim.                                                *)
LEMMA RunnerStepOK ==
    ASSUME TypeOK, WorkOK, NEW r \in Runner, OwnStep(r), overlapped' \in BOOLEAN
    PROVE  TypeOK' /\ WorkOK'
<1> USE RestOK
<1>t. ASSUME jobs' \in [Job -> JobRow], final' \in [Job -> Claim \cup {None}],
             overdue' \subseteq {j \in Job : jobs'[j].state = "claimed"},
             issued' \subseteq Claim, crashed' \subseteq issued',
             temp' \in [Claim -> {"none", "partial", "whole"}],
             runner' \in [Runner -> Process] /\ WorkOK'
      PROVE  TypeOK' /\ WorkOK'
  BY <1>t DEF TypeOK
<1>w. /\ runner[r].pc \in Working => MyJob(r) \in Job /\ MyClaim(r) \in Claim
      /\ MyClaim(r) \in issued \cup {None}
  BY DEF WorkOK, Equipped, TypeOK, MyJob, MyClaim
<1>1. CASE Start(r)
  <2>1. PICK todo \in SUBSET Job : runner' = [runner EXCEPT ![r] = Between("listed", todo)]
    BY <1>1 DEF Start, Become
  <2>2. Between("listed", todo) \in Process /\ Equipped(Between("listed", todo), issued')
    BY ProcessTypes DEF Between, Equipped, Working, Steps
  <2>3. UNCHANGED <<jobs, overdue, issued, temp, final, crashed>>
    BY <1>1 DEF Start
  <2>4. runner' \in [Runner -> Process] /\ WorkOK'
    BY <2>1, <2>2, <2>3, BecomeOK
  <2> QED
    BY <2>3, <2>4 DEF TypeOK
<1>2. CASE ClaimJob(r)
  <2>1. PICK j \in runner[r].todo, c \in Claim \ issued :
            /\ SetRow(j, Row("claimed", c, None))
            /\ issued' = issued \cup {c}
            /\ Become(r, [Between("checking", runner[r].todo \ {j})
                             EXCEPT !.job = j, !.claim = c])
    BY <1>2 DEF ClaimJob
  <2>2. runner[r].todo \in SUBSET Job /\ j \in Job
    BY <2>1 DEF TypeOK, Process
  <2>3. PICK p : p = [Between("checking", runner[r].todo \ {j}) EXCEPT !.job = j, !.claim = c]
    OBVIOUS
  <2>4. p \in Process /\ Equipped(p, issued \cup {c})
    BY <2>2, <2>3 DEF Between, Process, Steps, Equipped, Working
  <2>5. runner' \in [Runner -> Process] /\ WorkOK'
    BY <2>1, <2>2, <2>3, <2>4, BecomeOK DEF Become
  <2>6. Row("claimed", c, None) \in JobRow
    BY RowTypes DEF JobStates
  <2>7. /\ jobs' \in [Job -> JobRow]
        /\ overdue' \subseteq {k \in Job : jobs'[k].state = "claimed"}
    BY <2>1, <2>2, <2>6, SetRowOK
  <2> QED
    BY <1>2, <2>1, <2>5, <2>7 DEF ClaimJob, TypeOK
<1>3. CASE Leave(r) \/ RequestRefused(r) \/ RemoveOutput(r)
  <2>1. runner' \in [Runner -> Process] /\ WorkOK'
    BY <1>3, BecomeOK DEF Leave, RequestRefused, RemoveOutput, Become
  <2>2. final' \in [Job -> Claim \cup {None}]
    BY <1>3 DEF Leave, RequestRefused, RemoveOutput, TypeOK
  <2> QED
    BY <1>3, <2>1, <2>2 DEF Leave, RequestRefused, RemoveOutput, TypeOK
<1>4. CASE Unavailable(r)
  <2>1. runner' \in [Runner -> Process] /\ WorkOK'
    BY <1>4, BecomeOK DEF Unavailable, Become
  <2>2. Row("requested", None, None) \in JobRow /\ MyJob(r) \in Job
    BY <1>4, <1>w, RowTypes DEF JobStates, Unavailable, Working
  <2>3. /\ jobs' \in [Job -> JobRow]
        /\ overdue' \subseteq {k \in Job : jobs'[k].state = "claimed"}
    BY <1>4, <2>2, SetRowOK DEF Unavailable, TypeOK
  <2> QED
    BY <1>4, <2>1, <2>3 DEF Unavailable, SetTemp, TypeOK
<1>5. CASE CheckPaths(r)
  <2>1. runner[r].pc \in Working /\ "rendering" \in Working
    BY <1>5 DEF CheckPaths, At, Working
  <2>2. CASE final[MyJob(r)] # None
    <3>1. runner' \in [Runner -> Process] /\ WorkOK'
      BY <1>5, <2>1, <2>2, FailingOK, BecomeOK DEF CheckPaths, Become
    <3> QED
      BY <1>5, <2>2, <3>1 DEF CheckPaths, TypeOK
  <2>3. CASE final[MyJob(r)] = None
    <3>1. runner' \in [Runner -> Process] /\ WorkOK'
      BY <1>5, <2>1, <2>3, GotoOK DEF CheckPaths
    <3> QED
      BY <1>5, <2>3, <3>1 DEF CheckPaths, SetTemp, TypeOK
  <2> QED
    BY <2>2, <2>3
<1>6. CASE HeartbeatFails(r) \/ RenderFails(r)
  <2>1. runner[r].pc \in Working
    BY <1>6 DEF HeartbeatFails, RenderFails, Working
  <2>2. runner' \in [Runner -> Process] /\ WorkOK'
    BY <1>6, <2>1, FailingOK, BecomeOK, ZenonT(60) DEF HeartbeatFails, RenderFails, Become
  <2> QED
    BY <1>6, <2>2 DEF HeartbeatFails, RenderFails, SetTemp, TypeOK
<1>7. CASE RenderSucceeds(r)
  <2>1. runner[r].pc \in Working /\ "rendered" \in Working
    BY <1>7 DEF RenderSucceeds, At, Working
  <2>2. runner' \in [Runner -> Process] /\ WorkOK'
    BY <1>7, <2>1, GotoOK DEF RenderSucceeds
  <2> QED
    BY <1>7, <2>2 DEF RenderSucceeds, SetTemp, TypeOK
<1>8. CASE Publish(r)
  <2>1. runner[r].pc \in Working /\ "published" \in Working
    BY <1>8 DEF Publish, At, Working
  <2>2. runner' \in [Runner -> Process] /\ WorkOK'
    BY <1>8, <2>1, GotoOK, FailingOK, BecomeOK DEF Publish, Become
  <2>3. final' \in [Job -> Claim \cup {None}]
    BY <1>8, <1>w, <2>1 DEF Publish, TypeOK
  <2> QED
    BY <1>8, <2>2, <2>3 DEF Publish, SetTemp, TypeOK
<1>9. CASE PrepareOutput(r)
  <2>1. runner[r].pc \in Working /\ "discarding" \in Working
    BY <1>9 DEF PrepareOutput, At, Working
  <2>2. CASE Goto(r, "discarding")
    <3>1. runner' \in [Runner -> Process] /\ WorkOK'
      BY <1>9, <2>1, <2>2, GotoOK DEF PrepareOutput
    <3> QED
      BY <1>9, <3>1 DEF PrepareOutput, TypeOK
  <2>3. CASE Become(r, [runner[r] EXCEPT !.pc = "completing", !.inTime = InTime(r),
                                         !.read = final[MyJob(r)]])
    <3>1. PICK p : p = [runner[r] EXCEPT !.pc = "completing", !.inTime = InTime(r),
                                         !.read = final[MyJob(r)]]
      OBVIOUS
    <3>2. InTime(r) \in BOOLEAN /\ final[MyJob(r)] \in Claim \cup {None}
      BY <1>w, <2>1 DEF InTime, Holds, TypeOK
    <3>3. p \in Process /\ p.pc = "completing" /\ p.job = MyJob(r) /\ p.claim = MyClaim(r)
      BY <3>1, <3>2 DEF TypeOK, Process, Steps, MyJob, MyClaim
    <3>4. UNCHANGED <<jobs, overdue, issued, temp, final, crashed>>
      BY <1>9 DEF PrepareOutput
    <3>5. Equipped(p, issued')
      BY <2>1, <3>3, <3>4 DEF WorkOK, Equipped, Working, MyJob, MyClaim
    <3>6. runner' \in [Runner -> Process] /\ WorkOK'
      BY <2>3, <3>1, <3>3, <3>4, <3>5, BecomeOK DEF Become
    <3> QED
      BY <3>4, <3>6 DEF TypeOK
  <2> QED
    BY <1>9, <2>2, <2>3 DEF PrepareOutput
<1>10. CASE DiscardOutput(r)
  <2>1. runner[r].pc \in Working
    BY <1>10 DEF DiscardOutput, At, Working
  <2>2. runner' \in [Runner -> Process] /\ WorkOK'
    BY <1>10, <2>1, FailingOK, BecomeOK DEF DiscardOutput, Become
  <2>3. final' \in [Job -> Claim \cup {None}]
    BY <1>10 DEF DiscardOutput, TypeOK
  <2> QED
    BY <1>10, <2>2, <2>3 DEF DiscardOutput, TypeOK
<1>11. CASE Complete(r)
  <2>1. runner[r].pc \in Working /\ "removing" \in Working
    BY <1>11 DEF Complete, At, Working
  <2>2. runner' \in [Runner -> Process] /\ WorkOK'
    BY <1>11, <2>1, GotoOK, BecomeOK DEF Complete, Become
  <2>3. runner[r].read \in Claim \cup {None}
    BY DEF TypeOK, Process
  <2>4. Row("succeeded", None, runner[r].read) \in JobRow
    BY <2>3, RowTypes DEF JobStates
  <2>5. /\ jobs' \in [Job -> JobRow]
        /\ overdue' \subseteq {k \in Job : jobs'[k].state = "claimed"}
    BY <1>11, <1>w, <2>1, <2>4, SetRowOK DEF Complete, TypeOK
  <2> QED
    BY <1>11, <2>2, <2>5 DEF Complete, TypeOK
<1>12. CASE Fail(r)
  <2>1. runner[r].pc \in Working
    BY <1>12 DEF Fail, At, Working
  <2>2. runner' \in [Runner -> Process] /\ WorkOK'
    BY <1>12, BecomeOK DEF Fail, Become
  <2>3. Row("failed", None, None) \in JobRow
    BY RowTypes DEF JobStates
  <2>4. /\ jobs' \in [Job -> JobRow]
        /\ overdue' \subseteq {k \in Job : jobs'[k].state = "claimed"}
    BY <1>12, <1>w, <2>1, <2>3, SetRowOK DEF Fail, TypeOK
  <2> QED
    BY <1>12, <2>2, <2>4 DEF Fail, TypeOK
<1>13. CASE Crash(r)
  <2>1. runner' \in [Runner -> Process] /\ WorkOK'
    BY <1>13, BecomeOK DEF Crash, Become
  <2> QED
    BY <1>13, <1>w, <2>1 DEF Crash, TypeOK
<1> QED
  BY <1>1, <1>2, <1>3, <1>4, <1>5, <1>6, <1>7, <1>8, <1>9, <1>10, <1>11, <1>12, <1>13
     DEF OwnStep

LEMMA HandStepOK ==
    ASSUME TypeOK, WorkOK, NEW j \in Job, HandStep(j), overlapped' \in BOOLEAN
    PROVE  TypeOK' /\ WorkOK'
<1> USE DEF HandStep
<1>1. /\ Row("requested", None, None) \in JobRow
      /\ Row("cancelled", None, None) \in JobRow
  BY RowTypes DEF JobStates
<1>2. UNCHANGED <<issued, temp, final, crashed, runner>>
  BY DEF LeaseRunsOut, ReleaseByHand, CancelJob
<1>3. /\ jobs' \in [Job -> JobRow]
      /\ overdue' \subseteq {k \in Job : jobs'[k].state = "claimed"}
  BY <1>1, SetRowOK DEF LeaseRunsOut, ReleaseByHand, CancelJob, TypeOK
<1> QED
  BY <1>2, <1>3 DEF TypeOK, WorkOK

LEMMA StepOK == TypeOK /\ WorkOK /\ [Next]_vars => TypeOK' /\ WorkOK'
<1> SUFFICES ASSUME TypeOK, WorkOK, [Next]_vars PROVE TypeOK' /\ WorkOK'
  OBVIOUS
<1>1. CASE UNCHANGED vars
  BY <1>1 DEF vars, TypeOK, WorkOK
<1>2. CASE Next
  <2>1. overlapped' \in BOOLEAN
    BY <1>2 DEF Next, Overlap
  <2> QED
    BY <1>2, <2>1, RunnerStepOK, HandStepOK DEF Next
<1> QED
  BY <1>1, <1>2

(* Rows, files and processes have their types, an expired lease is a lease *)
(* of a claimed job, and a process at work has a claim that was issued.    *)
THEOREM RunsAreTyped == Spec => [](TypeOK /\ WorkOK)
<1>1. Init => TypeOK /\ WorkOK
  BY InitOK
<1>2. TypeOK /\ WorkOK /\ [Next]_vars => (TypeOK /\ WorkOK)'
  BY StepOK
<1> QED
  BY <1>1, <1>2, PTL DEF Spec
-----------------------------------------------------------------------------
(* TempsAreOwned needs no more than the types: a process that leaves the   *)
(* render removes its file in the same step or dies.                       *)
LEMMA TempStep ==
    TypeOK /\ WorkOK /\ TempsAreOwned /\ [Next]_vars => TempsAreOwned'
<1> SUFFICES ASSUME TypeOK, WorkOK, TempsAreOwned, [Next]_vars,
                    NEW c \in Claim, temp'[c] # "none"
             PROVE  \/ c \in crashed'
                    \/ \E r \in Runner : /\ runner'[r].claim = c
                                         /\ runner'[r].pc \in {"rendering", "rendered"}
  BY DEF TempsAreOwned, MyClaim
<1> DEFINE Owns(r) == runner[r].claim = c /\ runner[r].pc \in {"rendering", "rendered"}
<1>1. CASE UNCHANGED vars \/ (\E j \in Job : HandStep(j))
  BY <1>1 DEF vars, HandStep, LeaseRunsOut, ReleaseByHand, CancelJob, TempsAreOwned, MyClaim
<1>2. ASSUME NEW r \in Runner,
             \/ Start(r) \/ ClaimJob(r) \/ Leave(r) \/ RequestRefused(r) \/ PrepareOutput(r)
             \/ DiscardOutput(r) \/ Complete(r) \/ RemoveOutput(r) \/ Fail(r)
      PROVE  \/ c \in crashed'
             \/ \E q \in Runner : /\ runner'[q].claim = c
                                  /\ runner'[q].pc \in {"rendering", "rendered"}
  <2>1. UNCHANGED <<temp, crashed>>
    BY <1>2 DEF Start, ClaimJob, Leave, RequestRefused, PrepareOutput, DiscardOutput, Complete,
                RemoveOutput, Fail
  <2>2. runner[r].pc \notin {"rendering", "rendered"}
    BY <1>2 DEF Start, ClaimJob, Leave, RequestRefused, PrepareOutput, DiscardOutput, Complete,
                RemoveOutput, Fail, At
  <2>3. \A q \in Runner : q # r => runner'[q] = runner[q]
    BY <1>2 DEF Start, ClaimJob, Leave, RequestRefused, PrepareOutput, DiscardOutput, Complete,
                RemoveOutput, Fail, Become, Goto, TypeOK
  <2> QED
    BY <2>1, <2>2, <2>3 DEF TempsAreOwned, MyClaim
<1>3. ASSUME NEW r \in Runner,
             \/ Unavailable(r) \/ CheckPaths(r) \/ HeartbeatFails(r) \/ RenderFails(r)
             \/ RenderSucceeds(r) \/ Publish(r)
      PROVE  \/ c \in crashed'
             \/ \E q \in Runner : /\ runner'[q].claim = c
                                  /\ runner'[q].pc \in {"rendering", "rendered"}
  <2>1. UNCHANGED crashed /\ \A q \in Runner : q # r => runner'[q] = runner[q]
    BY <1>3 DEF Unavailable, CheckPaths, HeartbeatFails, RenderFails, RenderSucceeds,
                Publish, Become, Goto, TypeOK
  <2>2. CASE c # MyClaim(r)
    <3>1. temp'[c] = temp[c]
      BY <1>3, <2>2 DEF Unavailable, CheckPaths, HeartbeatFails, RenderFails,
                        RenderSucceeds, Publish, SetTemp, TypeOK
    <3> QED
      BY <2>1, <2>2, <3>1 DEF TempsAreOwned, MyClaim
  <2>3. CASE c = MyClaim(r)
    <3>1. CASE RenderSucceeds(r) \/ (CheckPaths(r) /\ final[MyJob(r)] = None)
      <4>1. \/ runner' = [runner EXCEPT ![r].pc = "rendering"]
            \/ runner' = [runner EXCEPT ![r].pc = "rendered"]
        BY <3>1 DEF RenderSucceeds, CheckPaths, Goto
      <4>2. /\ runner'[r].claim = runner[r].claim
            /\ runner'[r].pc \in {"rendering", "rendered"}
        BY <4>1 DEF TypeOK, Process
      <4> QED
        BY <2>3, <4>2 DEF MyClaim
    <3>2. CASE CheckPaths(r) /\ final[MyJob(r)] # None
      <4>1. temp' = temp /\ runner[r].pc = "checking"
        BY <3>2 DEF CheckPaths, At
      <4> QED
        BY <2>1, <4>1 DEF TempsAreOwned, MyClaim
    <3>3. CASE Unavailable(r) \/ HeartbeatFails(r) \/ RenderFails(r) \/ Publish(r)
      BY <2>3, <3>3 DEF Unavailable, HeartbeatFails, RenderFails, Publish, SetTemp, TypeOK
    <3> QED
      BY <1>3, <3>1, <3>2, <3>3
  <2> QED
    BY <2>2, <2>3
<1>4. ASSUME NEW r \in Runner, Crash(r)
      PROVE  \/ c \in crashed'
             \/ \E q \in Runner : /\ runner'[q].claim = c
                                  /\ runner'[q].pc \in {"rendering", "rendered"}
  <2>1. temp' = temp /\ crashed' = crashed \cup ({MyClaim(r)} \ {None})
    BY <1>4 DEF Crash
  <2>2. \A q \in Runner : q # r => runner'[q] = runner[q]
    BY <1>4 DEF Crash, Become, TypeOK
  <2> QED
    BY <2>1, <2>2, NoneAssumption DEF TempsAreOwned, MyClaim
<1> QED
  BY <1>1, <1>2, <1>3, <1>4 DEF Next, OwnStep

(* However many processes render, whatever they are told about their       *)
(* leases and whoever else takes their jobs: a temporary file is one of a  *)
(* render under way or of a process that died.                             *)
THEOREM TempsAreNeverLost == Spec => []TempsAreOwned
<1>1. Init => TempsAreOwned
  BY DEF Init, TempsAreOwned
<1> QED
  BY <1>1, TempStep, RunsAreTyped, PTL DEF Spec
-----------------------------------------------------------------------------
(* What a lone process knows between its steps.  Its job has not succeeded *)
(* yet, since only it records successes; nobody has put a file where it    *)
(* is about to rename one; and what it has read is still there.            *)
KnowsOutput(r) ==
    /\ runner[r].pc \in Working => jobs[MyJob(r)].state # "succeeded"
    /\ runner[r].pc \in {"rendering", "rendered"} => final[MyJob(r)] = None
    /\ runner[r].pc = "completing" => /\ final[MyJob(r)] # None
                                      /\ runner[r].read = final[MyJob(r)]

Lone == /\ ~Overlap
        /\ SucceededHasOutput
        /\ \A r \in Runner : KnowsOutput(r)

LoneInv == TypeOK /\ WorkOK /\ (~overlapped => Lone)

OthersRestAfter(r) == \A q \in Runner : q # r => runner'[q].pc = "idle"

(* The process after a step of its own, while the others rest.             *)
LEMMA LoneStep ==
    ASSUME TypeOK, WorkOK, Lone, NEW r \in Runner, OwnStep(r), OthersRestAfter(r)
    PROVE  SucceededHasOutput' /\ \A q \in Runner : KnowsOutput(q)'
<1>t. /\ jobs \in [Job -> JobRow] /\ final \in [Job -> Claim \cup {None}]
      /\ runner \in [Runner -> Process]
  BY DEF TypeOK
<1>i. SucceededHasOutput
  BY DEF Lone
<1>s. ASSUME SucceededHasOutput', KnowsOutput(r)'
      PROVE  SucceededHasOutput' /\ \A q \in Runner : KnowsOutput(q)'
  BY <1>s DEF OthersRestAfter, KnowsOutput, Working
<1>k. runner[r] \in Process /\ KnowsOutput(r) /\ Equipped(runner[r], issued)
  BY <1>t DEF Lone, WorkOK
<1>j. runner[r].pc \in Working => MyJob(r) \in Job /\ MyClaim(r) \in Claim
  BY <1>k DEF Equipped, MyJob, MyClaim, TypeOK
<1>e. Exit.pc = "idle" /\ NextJob(r).pc = "listed"
  BY DEF Exit, NextJob, Between
<1>f. \A goesOn : Failing(r, goesOn).pc = "failing" /\ Failing(r, goesOn).job = runner[r].job
  BY <1>k DEF Failing, Process
<1>g. \A pc : Goto(r, pc) => runner'[r].pc = pc /\ runner'[r].job = runner[r].job
  BY <1>k, <1>t DEF Goto, Process
<1>1. CASE Start(r) \/ Leave(r) \/ RequestRefused(r) \/ Crash(r)
  <2>1. UNCHANGED <<jobs, final>>
    BY <1>1 DEF Start, Leave, RequestRefused, Crash
  <2>2. runner'[r].pc \in {"idle", "listed"}
    BY <1>1, <1>e, <1>t DEF Start, Leave, RequestRefused, Crash, Become, Between
  <2> QED
    BY <1>s, <1>i, <2>1, <2>2 DEF SucceededHasOutput, KnowsOutput, Working
<1>2. CASE ClaimJob(r)
  <2>1. PICK j \in runner[r].todo, c \in Claim \ issued :
            /\ SetRow(j, Row("claimed", c, None))
            /\ Become(r, [Between("checking", runner[r].todo \ {j})
                             EXCEPT !.job = j, !.claim = c])
    BY <1>2 DEF ClaimJob
  <2>2. final' = final /\ j \in Job
    BY <1>2, <1>k, <2>1 DEF ClaimJob, Process
  <2>3. runner'[r].pc = "checking" /\ runner'[r].job = j
    BY <2>1, <1>t DEF Become, Between
  <2>4. jobs' = [jobs EXCEPT ![j] = Row("claimed", c, None)] /\ jobs'[j].state = "claimed"
    BY <2>1, <2>2, <1>t DEF SetRow, Row
  <2>5. SucceededHasOutput'
    BY <2>2, <2>4, <1>t, <1>i DEF SucceededHasOutput
  <2>6. KnowsOutput(r)'
    BY <2>3, <2>4 DEF KnowsOutput, MyJob
  <2> QED
    BY <1>s, <2>5, <2>6
<1>3. CASE Unavailable(r) \/ Fail(r)
  <2>1. runner[r].pc \in Working /\ MyJob(r) \in Job
    BY <1>3, <1>j DEF Unavailable, Fail, At, Working
  <2>2. PICK row : /\ row.state \in {"requested", "failed"}
                   /\ jobs' = [jobs EXCEPT ![MyJob(r)] = row] \/ jobs' = jobs
    <3>1. Row("requested", None, None).state = "requested" /\ Row("failed", None, None).state = "failed"
      BY DEF Row
    <3> QED
      BY <1>3, <3>1 DEF Unavailable, Fail, SetRow
  <2>3. final' = final /\ runner'[r].pc \in {"idle", "listed"}
    BY <1>3, <1>e, <1>t DEF Unavailable, Fail, AfterFailure, Become
  <2>4. SucceededHasOutput'
    BY <2>1, <2>2, <2>3, <1>t, <1>i DEF SucceededHasOutput
  <2> QED
    BY <1>s, <2>3, <2>4 DEF KnowsOutput, Working
<1>4. CASE CheckPaths(r) \/ HeartbeatFails(r) \/ RenderFails(r) \/ RenderSucceeds(r)
  <2>1. UNCHANGED <<jobs, final>> /\ runner[r].pc \in Working
    BY <1>4 DEF CheckPaths, HeartbeatFails, RenderFails, RenderSucceeds, At, Working
  <2>2. runner'[r].job = runner[r].job
    BY <1>4, <1>f, <1>g, <1>t DEF CheckPaths, HeartbeatFails, RenderFails, RenderSucceeds,
                                  Become
  <2>3. \/ runner'[r].pc = "failing"
        \/ runner'[r].pc \in {"rendering", "rendered"} /\ final[MyJob(r)] = None
    BY <1>4, <1>k, <1>t, ZenonT(60)
       DEF CheckPaths, HeartbeatFails, RenderFails, RenderSucceeds, KnowsOutput,
           At, Become, Goto, Failing, Process
  <2>4. SucceededHasOutput'
    BY <2>1, <1>i DEF SucceededHasOutput
  <2>5. KnowsOutput(r)'
    BY <1>k, <2>1, <2>2, <2>3 DEF KnowsOutput, MyJob
  <2> QED
    BY <1>s, <2>4, <2>5
<1>5. CASE Publish(r)
  <2>1. /\ jobs' = jobs /\ runner[r].pc \in Working
        /\ MyJob(r) \in Job /\ jobs[MyJob(r)].state # "succeeded"
    BY <1>5, <1>k, <1>j DEF Publish, At, Working, KnowsOutput
  <2>2. /\ \A j \in Job : j # MyJob(r) => final'[j] = final[j]
        /\ runner'[r].pc \in {"published", "failing"} /\ runner'[r].job = runner[r].job
    BY <1>5, <1>k, <1>t, ZenonT(60) DEF Publish, Become, Goto, Failing, Process
  <2>3. SucceededHasOutput'
    BY <2>1, <2>2, <1>i DEF SucceededHasOutput
  <2>4. KnowsOutput(r)'
    BY <2>1, <2>2 DEF KnowsOutput, MyJob
  <2> QED
    BY <1>s, <2>3, <2>4
<1>6. CASE PrepareOutput(r)
  <2>1. UNCHANGED <<jobs, final>> /\ runner[r].pc \in Working
    BY <1>6 DEF PrepareOutput, At, Working
  <2>2. /\ runner'[r].job = runner[r].job
        /\ \/ runner'[r].pc = "discarding"
           \/ /\ runner'[r].pc = "completing"
              /\ final[MyJob(r)] # None /\ runner'[r].read = final[MyJob(r)]
    BY <1>6, <1>k, <1>t DEF PrepareOutput, Become, Goto, Process
  <2>3. SucceededHasOutput'
    BY <2>1, <1>i DEF SucceededHasOutput
  <2>4. KnowsOutput(r)'
    BY <1>k, <2>1, <2>2 DEF KnowsOutput, MyJob
  <2> QED
    BY <1>s, <2>3, <2>4
<1>7. CASE DiscardOutput(r) \/ RemoveOutput(r)
  <2>1. /\ jobs' = jobs /\ runner[r].pc \in Working
        /\ MyJob(r) \in Job /\ jobs[MyJob(r)].state # "succeeded"
    BY <1>7, <1>k, <1>j DEF DiscardOutput, RemoveOutput, At, Working, KnowsOutput
  <2>2. /\ \A j \in Job : j # MyJob(r) => final'[j] = final[j]
        /\ \/ runner'[r].pc = "idle"
           \/ runner'[r].pc = "failing" /\ runner'[r].job = runner[r].job
    BY <1>7, <1>e, <1>f, <1>t DEF DiscardOutput, RemoveOutput, Become
  <2>3. SucceededHasOutput'
    BY <2>1, <2>2, <1>i DEF SucceededHasOutput
  <2>4. KnowsOutput(r)'
    BY <2>1, <2>2 DEF KnowsOutput, MyJob, Working
  <2> QED
    BY <1>s, <2>3, <2>4
<1>8. CASE Complete(r)
  <2>1. /\ final' = final /\ runner[r].pc = "completing" /\ MyJob(r) \in Job
        /\ final[MyJob(r)] # None /\ runner[r].read = final[MyJob(r)]
        /\ jobs[MyJob(r)].state # "succeeded"
    BY <1>8, <1>k, <1>j DEF Complete, At, Working, KnowsOutput
  <2>2. CASE Become(r, NextJob(r)) /\ SetRow(MyJob(r), Row("succeeded", None, runner[r].read))
    <3>1. jobs' = [jobs EXCEPT ![MyJob(r)] = Row("succeeded", None, runner[r].read)]
      BY <2>2 DEF SetRow
    <3>2. SucceededHasOutput'
      BY <2>1, <3>1, <1>t, <1>i DEF SucceededHasOutput, Row
    <3>3. runner'[r].pc = "listed"
      BY <2>2, <1>e, <1>t DEF Become
    <3> QED
      BY <1>s, <3>2, <3>3 DEF KnowsOutput, Working
  <2>3. CASE Goto(r, "removing") /\ jobs' = jobs
    <3>1. runner'[r].pc = "removing" /\ runner'[r].job = runner[r].job
      BY <2>3, <1>k, <1>t DEF Goto, Process
    <3>2. SucceededHasOutput' /\ KnowsOutput(r)'
      BY <2>1, <2>3, <3>1, <1>i DEF SucceededHasOutput, KnowsOutput, MyJob
    <3> QED
      BY <1>s, <3>2
  <2> QED
    BY <1>8, <2>2, <2>3 DEF Complete
<1> QED
  BY <1>1, <1>2, <1>3, <1>4, <1>5, <1>6, <1>7, <1>8 DEF OwnStep

(* Nobody else's command turns a row into a success or touches a file.     *)
LEMMA LoneHandStep ==
    ASSUME TypeOK, WorkOK, Lone, NEW j \in Job, HandStep(j)
    PROVE  SucceededHasOutput' /\ \A q \in Runner : KnowsOutput(q)'
<1> USE DEF Lone, HandStep
<1>1. UNCHANGED <<final, runner>>
  BY DEF LeaseRunsOut, ReleaseByHand, CancelJob
<1>2. \A k \in Job : \/ jobs'[k] = jobs[k]
                     \/ jobs'[k].state \in {"requested", "cancelled"}
  BY DEF LeaseRunsOut, ReleaseByHand, CancelJob, SetRow, Row, TypeOK
<1>3. \A q \in Runner : runner[q].pc \in Working => MyJob(q) \in Job
  BY DEF WorkOK, Equipped, MyJob
<1>4. SucceededHasOutput'
  BY <1>1, <1>2 DEF SucceededHasOutput
<1>5. \A q \in Runner : KnowsOutput(q)'
  BY <1>1, <1>2, <1>3 DEF KnowsOutput, MyJob
<1> QED
  BY <1>4, <1>5

(* A process moves itself only, and a process that rests can only start.   *)
LEMMA OthersStay ==
    ASSUME TypeOK, NEW r \in Runner, OwnStep(r)
    PROVE  /\ \A q \in Runner : q # r => runner'[q] = runner[q]
           /\ runner[r].pc # "idle" \/ runner'[r].pc # "idle"
<1>1. CASE Start(r)
  <2>1. PICK todo : Become(r, Between("listed", todo))
    BY <1>1 DEF Start
  <2>2. runner'[r].pc = "listed"
    BY <2>1 DEF Become, Between, TypeOK
  <2> QED
    BY <2>1, <2>2 DEF Become, TypeOK
<1>2. CASE ClaimJob(r)
  BY <1>2 DEF ClaimJob, Become, At, TypeOK
<1>3. CASE Leave(r) \/ RequestRefused(r) \/ Unavailable(r) \/ CheckPaths(r) \/ HeartbeatFails(r)
  BY <1>3 DEF Leave, RequestRefused, Unavailable, CheckPaths, HeartbeatFails, Become, Goto, At,
              TypeOK
<1>4. CASE RenderFails(r) \/ RenderSucceeds(r) \/ Publish(r) \/ PrepareOutput(r)
  BY <1>4 DEF RenderFails, RenderSucceeds, Publish, PrepareOutput, Become, Goto, At, TypeOK
<1>5. CASE DiscardOutput(r) \/ Complete(r) \/ RemoveOutput(r) \/ Fail(r) \/ Crash(r)
  BY <1>5 DEF DiscardOutput, Complete, RemoveOutput, Fail, Crash, Become, Goto, At, TypeOK
<1> QED
  BY <1>1, <1>2, <1>3, <1>4, <1>5 DEF OwnStep

LEMMA LoneNext ==
    ASSUME TypeOK, WorkOK, Lone, [Next]_vars, ~Overlap'
    PROVE  Lone'
<1>1. CASE UNCHANGED vars
  BY <1>1 DEF Lone, vars, SucceededHasOutput, KnowsOutput, MyJob
<1>2. ASSUME NEW r \in Runner, OwnStep(r)
      PROVE  Lone'
  <2>1. OthersRestAfter(r)
    BY <1>2, OthersStay DEF Lone, Overlap, At, OthersRestAfter
  <2> QED
    BY <1>2, <2>1, LoneStep DEF Lone
<1>3. ASSUME NEW j \in Job, HandStep(j)
      PROVE  Lone'
  BY <1>3, LoneHandStep DEF Lone
<1> QED
  BY <1>1, <1>2, <1>3 DEF Next

(* What the two theorems below follow from.                                *)
THEOREM LoneInvariant == Spec => []LoneInv
<1>1. Init => LoneInv
  <2> SUFFICES ASSUME Init PROVE LoneInv
    OBVIOUS
  <2>1. TypeOK /\ WorkOK
    BY InitOK
  <2>2. SucceededHasOutput
    BY DEF Init, SucceededHasOutput, Row
  <2>3. \A r \in Runner : At(r, "idle") /\ KnowsOutput(r)
    BY DEF Init, Exit, Between, KnowsOutput, Working, At
  <2> QED
    BY <2>1, <2>2, <2>3 DEF LoneInv, Lone, Overlap
<1>2. LoneInv /\ [Next]_vars => LoneInv'
  <2> SUFFICES ASSUME LoneInv, [Next]_vars PROVE LoneInv'
    OBVIOUS
  <2>1. TypeOK' /\ WorkOK'
    BY StepOK DEF LoneInv
  <2>2. ASSUME ~overlapped' PROVE Lone'
    <3>1. CASE UNCHANGED vars
      BY <2>2, <3>1 DEF LoneInv, Lone, vars, SucceededHasOutput, KnowsOutput, MyJob, Overlap, At
    <3>2. CASE Next
      <4>1. ~overlapped /\ ~Overlap'
        BY <2>2, <3>2 DEF Next
      <4> QED
        BY <4>1, LoneNext DEF LoneInv
    <3> QED
      BY <3>1, <3>2
  <2> QED
    BY <2>1, <2>2 DEF LoneInv
<1> QED
  BY <1>1, <1>2, PTL DEF Spec

(* Until two processes overlap, a job that says succeeded has its output   *)
(* file, and it is the one that was recorded (cli main.rs, complete).      *)
THEOREM OutputIsKept == Spec => []LoneOutputIsKept
<1>1. LoneInv => LoneOutputIsKept
  BY DEF LoneInv, Lone, LoneOutputIsKept
<1> QED
  BY <1>1, LoneInvariant, PTL

(* Then no step of anybody puts another file in the place of an output.    *)
LEMMA LoneKeepsFiles ==
    ASSUME TypeOK, Lone, [Next]_vars, NEW j \in Job, final[j] # None
    PROVE  final'[j] \in {final[j], None}
<1>t. final \in [Job -> Claim \cup {None}]
  BY DEF TypeOK
<1>1. CASE \E r \in Runner : Publish(r)
  <2>1. PICK r \in Runner : Publish(r)
    BY <1>1
  <2>2. runner[r].pc = "rendered" /\ KnowsOutput(r)
    BY <2>1 DEF Publish, At, Lone
  <2>3. final[MyJob(r)] = None
    BY <2>2 DEF KnowsOutput
  <2>4. final'[j] = final[j]
    BY <1>t, <2>1, <2>3 DEF Publish
  <2> QED
    BY <2>4
<1>2. CASE \E r \in Runner : DiscardOutput(r) \/ RemoveOutput(r)
  BY <1>2, <1>t DEF DiscardOutput, RemoveOutput
<1>3. CASE UNCHANGED final
  BY <1>3
<1>4. \/ \E r \in Runner : Publish(r) \/ DiscardOutput(r) \/ RemoveOutput(r)
      \/ UNCHANGED final
  BY DEF Next, OwnStep, HandStep, vars, Start, ClaimJob, Leave, RequestRefused, Unavailable,
         CheckPaths, HeartbeatFails, RenderFails, RenderSucceeds, PrepareOutput, Complete, Fail,
         Crash, LeaseRunsOut, ReleaseByHand, CancelJob
<1> QED
  BY <1>1, <1>2, <1>3, <1>4

(* Lone processes keep the promise of ADR 0025: the check that execute     *)
(* makes before the render (executor.rs) still holds at the rename.        *)
THEOREM NeverOverwritesAlone == Spec => LoneNeverOverwrites
<1>1. LoneInv /\ [Next]_vars
        => [~overlapped' => \A j \in Job : final[j] # None => final'[j] \in {final[j], None}]_vars
  <2> SUFFICES ASSUME LoneInv, Next, ~overlapped', NEW j \in Job, final[j] # None
               PROVE  final'[j] \in {final[j], None}
    OBVIOUS
  <2>1. ~overlapped
    BY DEF Next
  <2> QED
    BY <2>1, LoneKeepsFiles DEF LoneInv
<1> QED
  BY <1>1, LoneInvariant, PTL DEF Spec, LoneNeverOverwrites
-----------------------------------------------------------------------------
(* Output files, with any number of processes.  A claim belongs to one     *)
(* process and one job, so a process that removes the file of its job      *)
(* removes the only file that could be its own.                            *)
Ending == {"published", "completing", "removing", "discarding"}

OneClaimEach ==
    \A p, q \in Runner : MyClaim(p) = MyClaim(q) /\ MyClaim(p) # None => p = q

FilesAreClaimed ==
    \A j \in Job : final[j] # None =>
        /\ final[j] \in issued
        /\ \A r \in Runner : MyClaim(r) = final[j] => MyJob(r) = j

OutInv == TypeOK /\ WorkOK /\ OneClaimEach /\ FilesAreClaimed /\ NoStrayOutput

(* A step that writes no file and takes no claim.                          *)
LEMMA SameClaims ==
    ASSUME OneClaimEach, FilesAreClaimed, NEW r \in Runner,
           \A q \in Runner : q # r => runner'[q] = runner[q],
           \/ runner'[r].claim = None
           \/ runner'[r].claim = runner[r].claim /\ runner'[r].job = runner[r].job,
           issued' = issued, \A j \in Job : final'[j] \in {final[j], None}
    PROVE  OneClaimEach' /\ FilesAreClaimed'
BY DEF OneClaimEach, FilesAreClaimed, MyClaim, MyJob

(* A step that writes no file and does not leave the steps after a rename. *)
LEMMA SameFiles ==
    ASSUME NoStrayOutput, NEW r \in Runner,
           \A q \in Runner : q # r => runner'[q] = runner[q],
           final' = final, crashed \subseteq crashed',
           \A j \in Job : jobs'[j].state # "succeeded" => jobs[j].state # "succeeded",
           runner[r].pc \in Ending =>
              \/ MyClaim(r) \in crashed'
              \/ runner'[r].pc \in Ending /\ runner'[r].claim = runner[r].claim
    PROVE  NoStrayOutput'
<1> SUFFICES ASSUME NEW j \in Job, final[j] # None, jobs[j].state # "succeeded"
             PROVE  \/ final[j] \in crashed'
                    \/ \E q \in Runner : runner'[q].claim = final[j] /\ runner'[q].pc \in Ending
  BY DEF NoStrayOutput, MyClaim, Ending
<1>1. CASE final[j] \in crashed
  BY <1>1
<1>2. CASE \E q \in Runner : MyClaim(q) = final[j] /\ runner[q].pc \in Ending
  BY <1>2 DEF MyClaim
<1> QED
  BY <1>1, <1>2 DEF NoStrayOutput, Ending

(* A success is for ever: no step takes a succeeded row back.              *)
LEMMA SuccessStays ==
    ASSUME TypeOK, WorkOK, NEW r \in Runner, OwnStep(r), NEW j \in Job,
           jobs[j].state = "succeeded"
    PROVE  jobs'[j].state = "succeeded"
<1>t. /\ jobs \in [Job -> JobRow] /\ j \notin overdue
      /\ runner[r].pc \in Working => MyJob(r) \in Job
  BY DEF TypeOK, WorkOK, Equipped, MyJob
<1>1. CASE jobs' = jobs
  BY <1>1
<1>2. CASE \E k \in Job : \E row : SetRow(k, row) /\ jobs[k].state # "succeeded"
  BY <1>2, <1>t DEF SetRow
<1>3. CASE ClaimJob(r)
  <2>1. PICK k \in runner[r].todo, c \in Claim \ issued :
            /\ SetRow(k, Row("claimed", c, None))
            /\ jobs[k].state = "requested" \/ k \in overdue
    BY <1>3 DEF ClaimJob
  <2>2. k # j
    BY <2>1, <1>t
  <2> QED
    BY <2>1, <2>2, <1>t DEF SetRow
<1>4. CASE Unavailable(r) \/ Complete(r) \/ Fail(r)
  <2>1. runner[r].pc \in Working
    BY <1>4 DEF Unavailable, Complete, Fail, At, Working
  <2>2. \/ jobs' = jobs
        \/ Holds(r) /\ \E row : SetRow(MyJob(r), row)
    BY <1>4 DEF Unavailable, Complete, Fail
  <2>3. Holds(r) => jobs[MyJob(r)].state # "succeeded"
    BY DEF Holds
  <2> QED
    BY <1>1, <1>2, <1>t, <2>1, <2>2, <2>3
<1>5. OwnStep(r) => jobs' = jobs \/ ClaimJob(r) \/ Unavailable(r) \/ Complete(r) \/ Fail(r)
  BY DEF OwnStep, Start, Leave, RequestRefused, CheckPaths, HeartbeatFails, RenderFails,
         RenderSucceeds, Publish, PrepareOutput, DiscardOutput, RemoveOutput, Crash
<1> QED
  BY <1>1, <1>3, <1>4, <1>5

LEMMA OutStep ==
    ASSUME OutInv, NEW r \in Runner, OwnStep(r)
    PROVE  OneClaimEach' /\ FilesAreClaimed' /\ NoStrayOutput'
<1>t. /\ jobs \in [Job -> JobRow] /\ final \in [Job -> Claim \cup {None}]
      /\ runner \in [Runner -> Process] /\ issued \subseteq Claim
      /\ None \notin Claim
  BY NoneAssumption DEF OutInv, TypeOK
<1>i. OneClaimEach /\ FilesAreClaimed /\ NoStrayOutput
  BY DEF OutInv
<1>o. \A q \in Runner : q # r => runner'[q] = runner[q]
  BY OthersStay DEF OutInv
<1>z. \A j \in Job : jobs'[j].state # "succeeded" => jobs[j].state # "succeeded"
  BY SuccessStays DEF OutInv
<1>k. /\ runner[r] \in Process
      /\ \A q \in Runner : MyClaim(q) \in issued \cup {None}
      /\ runner[r].pc \in Working => MyJob(r) \in Job /\ MyClaim(r) \in issued
  BY <1>t DEF OutInv, WorkOK, Equipped, MyClaim, MyJob
<1>x. Exit.claim = None /\ NextJob(r).claim = None
  BY DEF Exit, NextJob, Between
<1>f. \A goesOn : /\ Failing(r, goesOn).claim = runner[r].claim
                  /\ Failing(r, goesOn).job = runner[r].job
  BY <1>k DEF Failing, Process
<1>g. \A pc : Goto(r, pc) => /\ runner'[r].pc = pc /\ runner'[r].job = runner[r].job
                             /\ runner'[r].claim = runner[r].claim
  BY <1>k, <1>t DEF Goto, Process
<1>1. CASE ClaimJob(r)
  <2>1. PICK j \in runner[r].todo, c \in Claim \ issued :
            /\ issued' = issued \cup {c}
            /\ Become(r, [Between("checking", runner[r].todo \ {j})
                             EXCEPT !.job = j, !.claim = c])
    BY <1>1 DEF ClaimJob
  <2>2. final' = final /\ crashed' = crashed /\ runner[r].pc \notin Ending
    BY <1>1 DEF ClaimJob, At, Ending
  <2>3. runner'[r].claim = c
    BY <2>1, <1>t DEF Become, Between
  <2>4. OneClaimEach'
    BY <2>1, <2>3, <1>i, <1>o, <1>k DEF OneClaimEach, MyClaim
  <2>5. FilesAreClaimed'
    BY <2>1, <2>2, <2>3, <1>i, <1>o DEF FilesAreClaimed, MyClaim, MyJob
  <2> QED
    BY <2>2, <2>4, <2>5, <1>i, <1>o, <1>z, SameFiles
<1>2. CASE Start(r) \/ Leave(r) \/ RequestRefused(r) \/ Unavailable(r) \/ Fail(r) \/ Crash(r)
  <2>1. final' = final /\ issued' = issued
    BY <1>2 DEF Start, Leave, RequestRefused, Unavailable, Fail, Crash
  <2>2. runner'[r].claim = None
    BY <1>2, <1>x, <1>t DEF Start, Leave, RequestRefused, Unavailable, Fail, Crash, Become,
                            Between, AfterFailure
  <2>3. crashed \subseteq crashed' /\ (runner[r].pc \in Ending => MyClaim(r) \in crashed')
    <3>1. CASE Crash(r)
      BY <3>1, <1>k, <1>t DEF Crash, Ending, Working
    <3>2. CASE ~Crash(r)
      BY <1>2, <3>2 DEF Start, Leave, RequestRefused, Unavailable, Fail, At, Ending
    <3> QED
      BY <3>1, <3>2
  <2>4. OneClaimEach' /\ FilesAreClaimed'
    BY <2>1, <2>2, <1>i, <1>o, SameClaims
  <2> QED
    BY <2>1, <2>3, <2>4, <1>i, <1>o, <1>z, SameFiles
<1>3. CASE CheckPaths(r) \/ HeartbeatFails(r) \/ RenderFails(r) \/ RenderSucceeds(r)
  <2>1. UNCHANGED <<final, issued, crashed>> /\ runner[r].pc \notin Ending
    BY <1>3 DEF CheckPaths, HeartbeatFails, RenderFails, RenderSucceeds, At, Ending
  <2>2. runner'[r].job = runner[r].job /\ runner'[r].claim = runner[r].claim
    BY <1>3, <1>f, <1>g, <1>t DEF CheckPaths, HeartbeatFails, RenderFails, RenderSucceeds,
                                  Become
  <2>3. OneClaimEach' /\ FilesAreClaimed'
    BY <2>1, <2>2, <1>i, <1>o, SameClaims
  <2> QED
    BY <2>1, <2>3, <1>i, <1>o, <1>z, SameFiles
<1>4. CASE Publish(r)
  <2>1. /\ UNCHANGED <<jobs, issued, crashed>> /\ runner[r].pc \notin Ending
        /\ MyJob(r) \in Job /\ MyClaim(r) \in issued
    BY <1>4, <1>k DEF Publish, At, Ending, Working
  <2>2. runner'[r].job = runner[r].job /\ runner'[r].claim = runner[r].claim
    BY <1>4, <1>f, <1>g, <1>t DEF Publish, Become
  <2>3. CASE final' = [final EXCEPT ![MyJob(r)] = MyClaim(r)] /\ Goto(r, "published")
    <3>1. runner'[r].pc = "published"
      BY <2>3, <1>g
    <3>2. \A j \in Job : final'[j] = IF j = MyJob(r) THEN MyClaim(r) ELSE final[j]
      BY <2>3, <1>t
    <3>3. OneClaimEach'
      BY <2>2, <1>i, <1>o DEF OneClaimEach, MyClaim
    <3>4. FilesAreClaimed'
      BY <2>1, <2>2, <3>2, <3>3, <1>i, <1>o, <1>t DEF FilesAreClaimed, OneClaimEach, MyClaim, MyJob
    <3>5. NoStrayOutput'
      BY <2>1, <2>2, <3>1, <3>2, <1>i, <1>o DEF NoStrayOutput, MyClaim, Ending
    <3> QED
      BY <3>3, <3>4, <3>5
  <2>4. CASE final' = final
    <3>1. OneClaimEach' /\ FilesAreClaimed'
      BY <2>1, <2>2, <2>4, <1>i, <1>o, SameClaims
    <3> QED
      BY <2>1, <2>4, <3>1, <1>i, <1>o, <1>z, SameFiles
  <2> QED
    BY <1>4, <2>3, <2>4 DEF Publish
<1>5. CASE PrepareOutput(r)
  <2>1. UNCHANGED <<final, issued, crashed>>
    BY <1>5 DEF PrepareOutput
  <2>2. /\ runner'[r].job = runner[r].job /\ runner'[r].claim = runner[r].claim
        /\ runner'[r].pc \in Ending
    <3>1. CASE Goto(r, "discarding")
      BY <3>1, <1>g DEF Ending
    <3>2. CASE Become(r, [runner[r] EXCEPT !.pc = "completing", !.inTime = InTime(r),
                                           !.read = final[MyJob(r)]])
      <4>1. PICK p : p = [runner[r] EXCEPT !.pc = "completing", !.inTime = InTime(r),
                                           !.read = final[MyJob(r)]]
        OBVIOUS
      <4>2. p.pc = "completing" /\ p.job = runner[r].job /\ p.claim = runner[r].claim
        BY <4>1, <1>k DEF Process
      <4> QED
        BY <3>2, <4>1, <4>2, <1>t DEF Become, Ending
    <3> QED
      BY <1>5, <3>1, <3>2 DEF PrepareOutput
  <2>3. OneClaimEach' /\ FilesAreClaimed'
    BY <2>1, <2>2, <1>i, <1>o, SameClaims
  <2> QED
    BY <2>1, <2>2, <2>3, <1>i, <1>o, <1>z, SameFiles
<1>6. CASE DiscardOutput(r) \/ RemoveOutput(r)
  <2>1. UNCHANGED <<jobs, issued, crashed>> /\ MyJob(r) \in Job
    BY <1>6, <1>k DEF DiscardOutput, RemoveOutput, At, Working
  <2>2. \A j \in Job : final'[j] = IF j = MyJob(r) THEN None ELSE final[j]
    BY <1>6, <2>1, <1>t DEF DiscardOutput, RemoveOutput
  <2>3. \/ runner'[r].claim = None
        \/ runner'[r].claim = runner[r].claim /\ runner'[r].job = runner[r].job
    BY <1>6, <1>x, <1>f, <1>t, ZenonT(60) DEF DiscardOutput, RemoveOutput, Become
  <2>4. OneClaimEach' /\ FilesAreClaimed'
    BY <2>1, <2>2, <2>3, <1>i, <1>o, SameClaims
  <2>5. \A j \in Job : final'[j] # None => MyClaim(r) # final'[j]
    BY <2>2, <1>i DEF FilesAreClaimed
  <2>6. NoStrayOutput'
    BY <2>1, <2>2, <2>5, <1>i, <1>o DEF NoStrayOutput, MyClaim
  <2> QED
    BY <2>4, <2>6
<1>7. CASE Complete(r)
  <2>1. UNCHANGED <<final, issued, crashed>> /\ MyJob(r) \in Job
    BY <1>7, <1>k DEF Complete, At, Working
  <2>2. CASE Goto(r, "removing")
    <3>1. OneClaimEach' /\ FilesAreClaimed'
      BY <2>1, <2>2, <1>g, <1>i, <1>o, SameClaims
    <3> QED
      BY <2>1, <2>2, <3>1, <1>g, <1>i, <1>o, <1>z, SameFiles DEF Ending
  <2>3. CASE SetRow(MyJob(r), Row("succeeded", None, runner[r].read)) /\ Become(r, NextJob(r))
    <3>1. runner'[r].claim = None
      BY <2>3, <1>x, <1>t DEF Become
    <3>2. OneClaimEach' /\ FilesAreClaimed'
      BY <2>1, <3>1, <1>i, <1>o, SameClaims
    <3>3. jobs'[MyJob(r)].state = "succeeded"
      BY <2>1, <2>3, <1>t DEF SetRow, Row
    <3>4. \A j \in Job : jobs'[j].state # "succeeded" /\ final[j] # None => MyClaim(r) # final[j]
      BY <3>3, <1>i DEF FilesAreClaimed
    <3>5. NoStrayOutput'
      BY <2>1, <3>4, <1>i, <1>o, <1>z DEF NoStrayOutput, MyClaim
    <3> QED
      BY <3>2, <3>5
  <2> QED
    BY <1>7, <2>2, <2>3 DEF Complete
<1> QED
  BY <1>1, <1>2, <1>3, <1>4, <1>5, <1>6, <1>7 DEF OwnStep

(* Whatever overlaps: an output file that no success recorded belongs to a *)
(* process that is about to record or remove it, or that died (cli         *)
(* main.rs, complete_executor_job).                                        *)
THEOREM OutputsAreNotStray == Spec => []NoStrayOutput
<1>1. Init => OutInv
  <2> SUFFICES ASSUME Init PROVE OutInv
    OBVIOUS
  <2>1. \A r \in Runner : MyClaim(r) = None
    BY DEF Init, Exit, Between, MyClaim
  <2>2. \A j \in Job : final[j] = None
    BY DEF Init
  <2> QED
    BY <2>1, <2>2, InitOK DEF OutInv, OneClaimEach, FilesAreClaimed, NoStrayOutput
<1>2. OutInv /\ [Next]_vars => OutInv'
  <2> SUFFICES ASSUME OutInv, [Next]_vars PROVE OutInv'
    OBVIOUS
  <2>1. TypeOK' /\ WorkOK'
    BY StepOK DEF OutInv
  <2>2. CASE UNCHANGED vars
    BY <2>1, <2>2 DEF OutInv, vars, OneClaimEach, FilesAreClaimed, NoStrayOutput, MyClaim, MyJob
  <2>3. CASE \E r \in Runner : OwnStep(r)
    BY <2>1, <2>3, OutStep DEF OutInv
  <2>4. ASSUME NEW j \in Job, HandStep(j) PROVE OutInv'
    <3>1. UNCHANGED <<final, issued, crashed, runner>>
      BY <2>4 DEF HandStep, LeaseRunsOut, ReleaseByHand, CancelJob
    <3>2. \A k \in Job : jobs'[k].state # "succeeded" => jobs[k].state # "succeeded"
      BY <2>4 DEF HandStep, LeaseRunsOut, ReleaseByHand, CancelJob, SetRow, OutInv, TypeOK
    <3> QED
      BY <2>1, <3>1, <3>2 DEF OutInv, OneClaimEach, FilesAreClaimed, NoStrayOutput, MyClaim, MyJob
  <2> QED
    BY <2>2, <2>3, <2>4 DEF Next
<1>3. OutInv => NoStrayOutput
  BY DEF OutInv
<1> QED
  BY <1>1, <1>2, <1>3, PTL DEF Spec
=============================================================================
