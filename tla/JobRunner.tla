------------------------------ MODULE JobRunner ------------------------------
(***************************************************************************)
(* The reference executor: `postproject job run` processes that claim      *)
(* requested jobs, render each into a temporary file named after the       *)
(* claim, rename it to the file named after the job and record the success *)
(* in the production.                                                      *)
(*                                                                         *)
(* Two stores are changed without a common transaction: the job's row and  *)
(* the directory of outputs.  Row operations are those of JobStore, seen   *)
(* from between the commits; whether a lease has run out is a flag that    *)
(* may rise at any time.                                                   *)
(***************************************************************************)
EXTENDS FiniteSets

CONSTANTS
    Runner,         \* places where a `job run` process may be started
    Job,
    Claim, None     \* claim tokens; no claim, no job, no file

ASSUME NoneAssumption == None \notin Claim \cup Job

VARIABLES
    jobs,      \* the job's row: state, claim, and whose render a success recorded
    overdue,   \* claimed jobs whose lease has run out
    issued,    \* claim tokens generated so far
    temp,      \* temporary files: "none", "partial" or "whole", by claim
    final,     \* whose render is in the job's output file, or None
    crashed,   \* claims whose runner died
    runner,    \* each process
    overlapped \* two processes have been at work at the same time

vars == <<jobs, overdue, issued, temp, final, crashed, runner, overlapped>>

JobStates == {"requested", "claimed", "succeeded", "failed", "cancelled"}
Steps     == {"idle", "listed", "checking", "rendering", "rendered",
              "published", "completing", "removing", "discarding", "failing"}
JobRow    == [state : JobStates, claim : Claim \cup {None}, output : Claim \cup {None}]
Process   == [pc : Steps, todo : SUBSET Job, job : Job \cup {None},
              claim : Claim \cup {None}, read : Claim \cup {None},
              inTime : BOOLEAN, goesOn : BOOLEAN]

Row(s, c, o) == [state |-> s, claim |-> c, output |-> o]

(* A process between two jobs, with the candidates it listed at its start. *)
Between(pc, todo) == [pc |-> pc, todo |-> todo, job |-> None, claim |-> None,
                      read |-> None, inTime |-> FALSE, goesOn |-> FALSE]
Exit == Between("idle", {})

Init ==
    /\ jobs = [j \in Job |-> Row("requested", None, None)]
    /\ overdue = {} /\ issued = {} /\ crashed = {}
    /\ temp = [c \in Claim |-> "none"]
    /\ final = [j \in Job |-> None]
    /\ runner = [r \in Runner |-> Exit]
    /\ overlapped = FALSE
-----------------------------------------------------------------------------
At(r, pc)     == runner[r].pc = pc
MyJob(r)      == runner[r].job
MyClaim(r)    == runner[r].claim
Become(r, p)  == runner' = [runner EXCEPT ![r] = p]
Goto(r, pc)   == runner' = [runner EXCEPT ![r].pc = pc]
SetRow(j, row) == /\ jobs' = [jobs EXCEPT ![j] = row]
                  /\ overdue' = overdue \ {j}
SetTemp(c, s) == temp' = [temp EXCEPT ![c] = s]
Holds(r)      == /\ jobs[MyJob(r)].state = "claimed"
                 /\ jobs[MyJob(r)].claim = MyClaim(r)
InTime(r)     == Holds(r) /\ MyJob(r) \notin overdue

(* On its way to fail_executor_job, which reads the clock first.  After it *)
(* comes the next job, or the end of the process when the executor         *)
(* returned an error and not a failed outcome.                             *)
NextJob(r) == Between("listed", runner[r].todo)
AfterFailure(r) == IF runner[r].goesOn THEN NextJob(r) ELSE Exit
Failing(r, goesOn) == [runner[r] EXCEPT !.pc = "failing", !.goesOn = goesOn,
                                        !.inTime = InTime(r)]
-----------------------------------------------------------------------------
(* The start of a process: it lists the requested jobs once and keeps the  *)
(* list (--once keeps one of them).                                        *)
Start(r) ==
    /\ At(r, "idle")
    /\ LET requested == {j \in Job : jobs[j].state = "requested"}
       IN \E todo \in {requested} \cup {{j} : j \in requested} :
             todo # {} /\ Become(r, Between("listed", todo))
    /\ UNCHANGED <<jobs, overdue, issued, temp, final, crashed>>

(* The job may have been claimed since it was listed: a claim that has run *)
(* out is replaced.                                                        *)
ClaimJob(r) == \E j \in runner[r].todo, c \in Claim \ issued :
    /\ At(r, "listed")
    /\ jobs[j].state = "requested" \/ j \in overdue
    /\ SetRow(j, Row("claimed", c, None))
    /\ issued' = issued \cup {c}
    /\ Become(r, [Between("checking", runner[r].todo \ {j})
                     EXCEPT !.job = j, !.claim = c])
    /\ UNCHANGED <<temp, final, crashed>>

(* A job in any other state, or a busy file, ends the whole process; so    *)
(* does the end of the list.                                               *)
Leave(r) ==
    /\ At(r, "listed")
    /\ Become(r, Exit)
    /\ UNCHANGED <<jobs, overdue, issued, temp, final, crashed>>

(* The input or the target directory has gone since the list was made: the *)
(* process ends and nobody hands the claim back.                           *)
RequestRefused(r) ==
    /\ At(r, "checking")
    /\ Become(r, Exit)
    /\ UNCHANGED <<jobs, overdue, issued, temp, final, crashed>>

(* ffmpeg has gone since the start: the claim is handed back, unless it is *)
(* lost or the file is busy.                                               *)
Unavailable(r) ==
    /\ runner[r].pc \in {"checking", "rendering"}
    /\ SetTemp(MyClaim(r), "none")
    /\ \/ Holds(r) /\ SetRow(MyJob(r), Row("requested", None, None))
       \/ UNCHANGED <<jobs, overdue>>
    /\ Become(r, Exit)
    /\ UNCHANGED <<issued, final, crashed>>

(* Variant: nobody looks for an output that is already there.              *)
CheckPaths_Trusting(r) ==
    /\ At(r, "checking")
    /\ Goto(r, "rendering") /\ SetTemp(MyClaim(r), "partial")
    /\ UNCHANGED <<jobs, overdue, issued, final, crashed>>

(* An output that is already there fails the job.                          *)
CheckPaths(r) ==
    /\ At(r, "checking")
    /\ IF final[MyJob(r)] # None
       THEN Become(r, Failing(r, TRUE)) /\ UNCHANGED temp
       ELSE Goto(r, "rendering") /\ SetTemp(MyClaim(r), "partial")
    /\ UNCHANGED <<jobs, overdue, issued, final, crashed>>

(* Variant: the temporary file is left to the next run.                    *)
HeartbeatFails_KeepsTemp(r) ==
    /\ runner[r].pc \in {"checking", "rendering"}
    /\ Become(r, Failing(r, FALSE))
    /\ UNCHANGED <<jobs, overdue, issued, temp, final, crashed>>

(* A failed renewal kills ffmpeg; the job is then failed as far as it can  *)
(* be.  A renewal that succeeds changes nothing seen here.                 *)
HeartbeatFails(r) ==
    /\ runner[r].pc \in {"checking", "rendering"}
    /\ SetTemp(MyClaim(r), "none")
    /\ Become(r, Failing(r, FALSE))
    /\ UNCHANGED <<jobs, overdue, issued, final, crashed>>

(* The capability probe or the render exits badly, runs into its timeout   *)
(* or leaves no usable file.                                               *)
RenderFails(r) ==
    /\ runner[r].pc \in {"checking", "rendering"}
    /\ SetTemp(MyClaim(r), "none")
    /\ Become(r, Failing(r, TRUE))
    /\ UNCHANGED <<jobs, overdue, issued, final, crashed>>

RenderSucceeds(r) ==
    /\ At(r, "rendering")
    /\ SetTemp(MyClaim(r), "whole")
    /\ Goto(r, "rendered")
    /\ UNCHANGED <<jobs, overdue, issued, final, crashed>>

(* rename(2) replaces whatever the output path names by now.  Nothing      *)
(* looks at the lease here.                                                *)
Publish(r) ==
    /\ At(r, "rendered")
    /\ SetTemp(MyClaim(r), "none")
    /\ \/ final' = [final EXCEPT ![MyJob(r)] = MyClaim(r)] /\ Goto(r, "published")
       \/ Become(r, Failing(r, FALSE)) /\ UNCHANGED final
    /\ UNCHANGED <<jobs, overdue, issued, crashed>>

(* Variant: the temporary file is recorded, its rename left for later.     *)
PrepareOutput_Early(r) ==
    /\ At(r, "rendered")
    /\ Become(r, [runner[r] EXCEPT !.pc = "completing", !.read = MyClaim(r),
                                   !.inTime = InTime(r)])
    /\ UNCHANGED <<jobs, overdue, issued, temp, final, crashed>>

(* The output path is inspected and fingerprinted, then the clock is read. *)
PrepareOutput(r) ==
    /\ At(r, "published")
    /\ \/ /\ final[MyJob(r)] # None
          /\ Become(r, [runner[r] EXCEPT !.pc = "completing", !.inTime = InTime(r),
                                         !.read = final[MyJob(r)]])
       \/ Goto(r, "discarding")
    /\ UNCHANGED <<jobs, overdue, issued, temp, final, crashed>>

(* An output that cannot be read is removed and the job failed.            *)
DiscardOutput(r) ==
    /\ At(r, "discarding")
    /\ final' = [final EXCEPT ![MyJob(r)] = None]
    /\ Become(r, Failing(r, FALSE))
    /\ UNCHANGED <<jobs, overdue, issued, temp, crashed>>

(* One storage transaction; it may be refused although the lease is good   *)
(* (a busy file).  The lease is compared with the time read before.        *)
Complete(r) ==
    /\ At(r, "completing")
    /\ \/ /\ Holds(r) /\ runner[r].inTime
          /\ SetRow(MyJob(r), Row("succeeded", None, runner[r].read))
          /\ Become(r, NextJob(r))
       \/ Goto(r, "removing") /\ UNCHANGED <<jobs, overdue>>
    /\ UNCHANGED <<issued, temp, final, crashed>>

(* Variant: a refused completion leaves the file.                          *)
RemoveOutput_Keeps(r) ==
    /\ At(r, "removing")
    /\ Become(r, Exit)
    /\ UNCHANGED <<jobs, overdue, issued, temp, final, crashed>>

(* A refused completion removes the file the output path names by now.     *)
RemoveOutput(r) ==
    /\ At(r, "removing")
    /\ final' = [final EXCEPT ![MyJob(r)] = None]
    /\ Become(r, Exit)
    /\ UNCHANGED <<jobs, overdue, issued, temp, crashed>>

(* fail_executor_job; one that is refused ends the process.                *)
Fail(r) ==
    /\ At(r, "failing")
    /\ \/ /\ Holds(r) /\ runner[r].inTime
          /\ SetRow(MyJob(r), Row("failed", None, None))
          /\ Become(r, AfterFailure(r))
       \/ Become(r, Exit) /\ UNCHANGED <<jobs, overdue>>
    /\ UNCHANGED <<issued, temp, final, crashed>>

(* The process dies; its files stay and so does its claim.                 *)
Crash(r) ==
    /\ ~At(r, "idle")
    /\ crashed' = crashed \cup ({MyClaim(r)} \ {None})
    /\ Become(r, Exit)
    /\ UNCHANGED <<jobs, overdue, issued, temp, final>>
-----------------------------------------------------------------------------
(* Time, and people or hosts who use the job commands.                     *)

LeaseRunsOut(j) ==
    /\ jobs[j].state = "claimed"
    /\ overdue' = overdue \cup {j}
    /\ UNCHANGED <<jobs, issued, temp, final, crashed, runner>>

ReleaseByHand(j) ==
    /\ jobs[j].state = "claimed"
    /\ SetRow(j, Row("requested", None, None))
    /\ UNCHANGED <<issued, temp, final, crashed, runner>>

CancelJob(j) ==
    /\ jobs[j].state \in {"requested", "claimed"}
    /\ SetRow(j, Row("cancelled", None, None))
    /\ UNCHANGED <<issued, temp, final, crashed, runner>>

OwnStep(r) ==
    \/ Start(r) \/ ClaimJob(r) \/ Leave(r) \/ RequestRefused(r)
    \/ Unavailable(r) \/ CheckPaths(r) \/ HeartbeatFails(r)
    \/ RenderFails(r) \/ RenderSucceeds(r) \/ Publish(r)
    \/ PrepareOutput(r) \/ DiscardOutput(r) \/ Complete(r)
    \/ RemoveOutput(r) \/ Fail(r) \/ Crash(r)

HandStep(j) == LeaseRunsOut(j) \/ ReleaseByHand(j) \/ CancelJob(j)

Overlap == \E p, q \in Runner : p # q /\ ~At(p, "idle") /\ ~At(q, "idle")

Next ==
    /\ (\E r \in Runner : OwnStep(r)) \/ (\E j \in Job : HandStep(j))
    /\ overlapped' = (overlapped \/ Overlap')

Spec == Init /\ [][Next]_vars
-----------------------------------------------------------------------------
TypeOK ==
    /\ jobs \in [Job -> JobRow] /\ final \in [Job -> Claim \cup {None}]
    /\ overdue \subseteq {j \in Job : jobs[j].state = "claimed"}
    /\ issued \subseteq Claim /\ crashed \subseteq issued
    /\ temp \in [Claim -> {"none", "partial", "whole"}]
    /\ runner \in [Runner -> Process] /\ overlapped \in BOOLEAN

(* A temporary file belongs to a render under way or to a process that     *)
(* died: whichever way a render ends, and whoever has taken its job, it    *)
(* leaves none behind.                                                     *)
TempsAreOwned ==
    \A c \in Claim : temp[c] # "none" =>
        \/ c \in crashed
        \/ \E r \in Runner : MyClaim(r) = c /\ runner[r].pc \in {"rendering", "rendered"}

(* What a job promises when it says succeeded: the output file is there    *)
(* and it is the one that was fingerprinted and recorded.  "Either the     *)
(* output, activity, snapshots, and succeeded state all become durable, or *)
(* none of them do" (docs/src/concepts/jobs.md).                           *)
SucceededHasOutput ==
    \A j \in Job : jobs[j].state = "succeeded" => final[j] # None /\ final[j] = jobs[j].output

(* An output file nobody has recorded is about to be recorded or removed,  *)
(* unless its runner died.                                                 *)
NoStrayOutput ==
    \A j \in Job : final[j] # None /\ jobs[j].state # "succeeded" =>
        \/ final[j] \in crashed
        \/ \E r \in Runner :
              /\ MyClaim(r) = final[j]
              /\ runner[r].pc \in {"published", "completing", "removing", "discarding"}

(* As long as no two processes have ever been at work together, the        *)
(* promise is kept, whatever crashes, restarts, releases and takeovers.    *)
LoneOutputIsKept == ~overlapped => SucceededHasOutput

(* ADR 0025: "The runner never overwrites an existing final or temporary   *)
(* path."  Until two processes overlap, an output file keeps its content   *)
(* until it is removed.                                                    *)
LoneNeverOverwrites ==
    [][ ~overlapped' => \A j \in Job : final[j] # None => final'[j] \in {final[j], None} ]_vars
=============================================================================
