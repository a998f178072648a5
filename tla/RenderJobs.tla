----------------------------- MODULE RenderJobs -----------------------------
(***************************************************************************)
(* Export jobs: the rows of video_render_jobs, the goroutine that carries  *)
(* each of them through the scheduler (backend/internal/video/service.go), *)
(* cancellation and deletion by the user, and the recovery of unfinished   *)
(* rows when the process starts again (render_recovery.go).                *)
(*                                                                         *)
(* RenderScheduler runs inside the process and is lost with it; the rows   *)
(* survive.  A job makes one request of the scheduler in the life of a     *)
(* process, so jobs and requests share their names.                        *)
(***************************************************************************)
EXTENDS RenderScheduler

CONSTANTS MaxRestarts       \* bound: restarts of the process

ASSUME RestartsAssumption == MaxRestarts \in Nat

VARIABLES
    row,            \* video_render_jobs.status; "interrupted" is 'failed' by recovery
    exports,        \* export assets that name the job as their source
    job,            \* the place of the job's goroutine, or of the handler before it
    cancelling,     \* jobs whose CancelRenderJob marked the row and must call cancel()
    process,        \* "up", "stopping" (Service.Shutdown) or "down"
    recovering,     \* rows the recovery loop has still to look at
    restarts,
    begun           \* jobs a worker ever called the delegate for

serviceVars == <<row, exports, job, cancelling, process, recovering, restarts, begun>>
jobsVars == <<renderVars, serviceVars>>

Active == {"queued", "running"}
Terminal == {"completed", "failed", "interrupted", "cancelled"}

\* The places at which renderCancels holds the job's cancel function.
Launched == {j \in Requests : job[j] \notin {"none", "created"}}

JobsInit ==
    /\ RenderInit
    /\ row = [j \in Requests |-> "absent"]
    /\ exports = [j \in Requests |-> 0]
    /\ job = [j \in Requests |-> "none"]
    /\ cancelling = {}
    /\ process = "up"
    /\ recovering = {}
    /\ restarts = 0
    /\ begun = {}

-----------------------------------------------------------------------------
(***************************************************************************)
(* The updates of video_render_job_repo.go, with their WHERE clauses.  A   *)
(* deleted row matches none of them.                                       *)
(***************************************************************************)
Absent == {"absent", "deleted"}

Mark(j, status, from) == row' = [row EXCEPT ![j] = IF @ \in from THEN status ELSE @]

MarkRunning(j) == Mark(j, "running", (Active \cup Terminal) \ {"cancelled"})
MarkCompleted(j) == Mark(j, "completed", Active)
\* Variant: without the WHERE clause on the status.
MarkFailedAlways(j) == Mark(j, "failed", Active \cup Terminal)

MarkFailed(j) == Mark(j, "failed", (Active \cup Terminal) \ {"cancelled"})

\* renderJobCancelled
RowCancelled(j) == row[j] = "cancelled"

Moves(j, there) == job' = [job EXCEPT ![j] = there]

-----------------------------------------------------------------------------
(***************************************************************************)
(* Requests of the user.  They are served once recovery is through.        *)
(***************************************************************************)
Serving == process = "up" /\ recovering = {}

\* StartRender: CreateWithSnapshot, then launchRenderJob.
CreateJob(j) ==
    /\ Serving /\ row[j] = "absent"
    /\ row' = [row EXCEPT ![j] = "queued"]
    /\ Moves(j, "created")
    /\ UNCHANGED <<renderVars, exports, cancelling, process, recovering, restarts, begun>>

\* beginBackground refuses once the service shuts down.
Launch(j) ==
    /\ job[j] = "created"
    /\ Moves(j, IF process = "up" THEN "launched" ELSE "none")
    /\ UNCHANGED <<renderVars, row, exports, cancelling, process, recovering, restarts, begun>>

\* CancelRenderJob: the row first, the context second.
CancelRow(j) ==
    /\ Serving /\ row[j] \in Active
    /\ row' = [row EXCEPT ![j] = "cancelled"]
    /\ cancelling' = cancelling \cup {j}
    /\ UNCHANGED <<renderVars, exports, job, process, recovering, restarts, begun>>

CancelFunc(j) ==
    /\ j \in cancelling
    /\ cancelling' = cancelling \ {j}
    /\ cancelled' = cancelled \cup ({j} \cap Launched)
    /\ UNCHANGED <<caller, number, result, answer, queue, slotVars, closed, place,
                   serving, execVars, row, exports, job, process, recovering,
                   restarts, begun>>

DeleteJob(j) ==
    /\ Serving /\ row[j] \in Terminal
    /\ row' = [row EXCEPT ![j] = "deleted"]
    /\ UNCHANGED <<renderVars, exports, job, cancelling, process, recovering, restarts, begun>>

-----------------------------------------------------------------------------
(***************************************************************************)
(* runRenderJob.                                                           *)
(***************************************************************************)
Begin(j) ==
    /\ job[j] = "launched"
    /\ MarkRunning(j)
    /\ Moves(j, IF row[j] \in Absent THEN "none" ELSE "marked")
    /\ UNCHANGED <<renderVars, exports, cancelling, process, recovering, restarts, begun>>

\* Variant: the row is not looked at again after MarkRunning.
LoadWithoutCheck(j) ==
    /\ job[j] = "marked"
    /\ \/ Moves(j, "rendering")
       \/ Moves(j, "failing")
    /\ UNCHANGED <<renderVars, row, exports, cancelling, process, recovering, restarts, begun>>

\* The check, then project, snapshot, hash, settings and assets, any of which
\* may be missing or wrong.
Load(j) ==
    /\ job[j] = "marked"
    /\ \/ RowCancelled(j) /\ Moves(j, "none")
       \/ ~RowCancelled(j) /\ Moves(j, "rendering")
       \/ ~RowCancelled(j) /\ Moves(j, "failing")
    /\ UNCHANGED <<renderVars, row, exports, cancelling, process, recovering, restarts, begun>>

\* Render refuses for want of disk space before it draws a number.
PreflightFails(j) ==
    /\ job[j] = "rendering" /\ caller[j] = "idle"
    /\ Moves(j, IF j \in cancelled \/ RowCancelled(j) THEN "none" ELSE "failing")
    /\ UNCHANGED <<renderVars, row, exports, cancelling, process, recovering, restarts, begun>>

\* Render returned: an error of a cancelled job leaves the row as it is.
Rendered(j) ==
    /\ job[j] = "rendering" /\ caller[j] \in {"returned", "refused"}
    /\ \/ /\ answer[j] = "error"
          /\ Moves(j, IF j \in cancelled \/ RowCancelled(j) THEN "none" ELSE "failing")
       \/ /\ answer[j] = "ok"
          /\ Moves(j, IF RowCancelled(j) THEN "none" ELSE "storing")
    /\ UNCHANGED <<renderVars, row, exports, cancelling, process, recovering, restarts, begun>>

Fail(j) ==
    /\ job[j] = "failing"
    /\ MarkFailed(j)
    /\ Moves(j, "none")
    /\ UNCHANGED <<renderVars, exports, cancelling, process, recovering, restarts, begun>>

\* storage.Write and assets.Create: a file that no asset names is not counted.
Store(j) ==
    /\ job[j] = "storing"
    /\ \/ Moves(j, "stored") /\ exports' = [exports EXCEPT ![j] = @ + 1]
       \/ Moves(j, "failing") /\ UNCHANGED exports
    /\ UNCHANGED <<renderVars, row, cancelling, process, recovering, restarts, begun>>

Complete(j) ==
    /\ job[j] = "stored"
    /\ MarkCompleted(j)
    /\ Moves(j, "none")
    /\ UNCHANGED <<renderVars, exports, cancelling, process, recovering, restarts, begun>>

-----------------------------------------------------------------------------
(***************************************************************************)
(* The process.                                                            *)
(***************************************************************************)

\* Service.Shutdown: no new goroutines, and every job's context is cancelled;
\* the scheduler's own Shutdown follows.  A signal is handled once the router
\* is built, that is, after recovery.  A last shutdown, with no restart to
\* come, is left out.
StopService ==
    /\ Serving /\ restarts < MaxRestarts
    /\ process' = "stopping"
    /\ cancelled' = cancelled \cup Launched
    /\ UNCHANGED <<caller, number, result, answer, queue, slotVars, closed, place,
                   serving, execVars, row, exports, job, cancelling, recovering,
                   restarts, begun>>

StopScheduler ==
    /\ process = "stopping"
    /\ Shutdown
    /\ UNCHANGED serviceVars

\* The process ends: after its shutdown, after the shutdown's deadline, or by
\* a crash.  Memory is lost.
Exit ==
    /\ process # "down" /\ restarts < MaxRestarts
    /\ process' = "down"
    /\ RenderReset
    /\ job' = [j \in Requests |-> "none"]
    /\ cancelling' = {}
    /\ recovering' = {}
    /\ UNCHANGED <<row, exports, restarts, begun>>

\* RecoverInterruptedRenderJobsDurable lists the active rows ...
Restart ==
    /\ process = "down"
    /\ process' = "up"
    /\ restarts' = restarts + 1
    /\ recovering' = {j \in Requests : row[j] \in Active}
    /\ UNCHANGED <<renderVars, row, exports, job, cancelling, begun>>

\* Variant: running rows are launched again too, as by
\* RecoverInterruptedRenderJobs (service.go:1918-1930).
RecoverByRelaunch(j) ==
    /\ process = "up" /\ j \in recovering
    /\ Moves(j, "launched")
    /\ recovering' = recovering \ {j}
    /\ UNCHANGED <<renderVars, row, exports, cancelling, process, restarts, begun>>

\* Variant: running rows are left alone.
RecoverQueuedOnly(j) ==
    /\ process = "up" /\ j \in recovering
    /\ IF row[j] = "queued" THEN Moves(j, "launched") ELSE UNCHANGED job
    /\ recovering' = recovering \ {j}
    /\ UNCHANGED <<renderVars, row, exports, cancelling, process, restarts, begun>>

\* ... and fails those that were running, launches those that were queued.
Recover(j) ==
    /\ process = "up" /\ j \in recovering
    /\ \/ /\ row[j] = "running"
          /\ row' = [row EXCEPT ![j] = "interrupted"]
          /\ UNCHANGED job
       \/ /\ row[j] = "queued"
          /\ Moves(j, "launched")
          /\ UNCHANGED row
    /\ recovering' = recovering \ {j}
    /\ UNCHANGED <<renderVars, exports, cancelling, process, restarts, begun>>

-----------------------------------------------------------------------------
\* The scheduler's steps.  A caller enters Render from its goroutine.
RenderStep ==
    /\ process # "down"
    /\ \/ \E j \in Requests :
            \/ DrawNumber(j) /\ job[j] = "rendering"
            \/ CallerStep(j) /\ caller[j] # "idle"
            \/ DelegateReturns(j)
       \/ \E w \in Workers : WorkerStep(w)
    /\ begun' = begun \cup {j \in Requests : delegate'[j] = "running"}
    /\ UNCHANGED <<row, exports, job, cancelling, process, recovering, restarts>>

UserStep(j) == CreateJob(j) \/ CancelRow(j) \/ DeleteJob(j)

JobStep(j) ==
    \/ Launch(j) \/ CancelFunc(j) \/ Begin(j) \/ Load(j)
    \/ PreflightFails(j) \/ Rendered(j) \/ Fail(j) \/ Store(j) \/ Complete(j)

JobsNext ==
    \/ \E j \in Requests : UserStep(j) \/ JobStep(j) \/ Recover(j)
    \/ RenderStep
    \/ StopService \/ StopScheduler \/ Exit \/ Restart

JobsSpec == JobsInit /\ [][JobsNext]_jobsVars

\* Goroutines, workers and the recovery loop are scheduled, the process is
\* started again, and one that shuts down ends.  Users and crashes owe nothing.
JobsFairness ==
    /\ \A j \in Requests :
         /\ WF_jobsVars(JobStep(j))
         /\ WF_jobsVars(Recover(j))
         /\ WF_jobsVars(RenderStep /\ caller'[j] # caller[j])
         /\ WF_jobsVars(RenderStep /\ delegate[j] = "running" /\ delegate'[j] \in Outcomes)
    /\ \A w \in Workers : WF_jobsVars(RenderStep /\ place'[w] # place[w])
    /\ WF_jobsVars(StopScheduler)
    /\ WF_jobsVars(Exit /\ process = "stopping")
    /\ WF_jobsVars(Restart)

LiveJobsSpec == JobsSpec /\ JobsFairness

-----------------------------------------------------------------------------
(***************************************************************************)
(* Properties.                                                             *)
(***************************************************************************)

\* Every row, place and process state is one the code can produce.
JobsTypeOK ==
    /\ RenderTypeOK
    /\ row \in [Requests -> Active \cup Terminal \cup Absent]
    /\ exports \in [Requests -> Nat]
    /\ job \in [Requests -> {"none", "created", "launched", "marked", "rendering",
                             "failing", "storing", "stored"}]
    /\ cancelling \subseteq Requests
    /\ process \in {"up", "stopping", "down"}
    /\ recovering \subseteq Requests
    /\ restarts \in 0 .. MaxRestarts
    /\ begun \subseteq Requests

\* A final status is final: the goroutine, the user and recovery write the row
\* without a common lock, and MarkRunning and MarkFailed only spare 'cancelled',
\* yet no finished job is ever revived or rewritten (service.go:1698-1701).
FinalRowsStay ==
    [][\A j \in Requests : row[j] \in Terminal => row'[j] \in {row[j], "deleted"}]_jobsVars

\* One export per job at most, through any number of restarts, and a completed
\* job has its export: recovery never renders again what may have been stored.
ExportedOnce ==
    \A j \in Requests :
        /\ exports[j] <= 1
        /\ row[j] = "completed" => exports[j] = 1

\* A finished CancelRenderJob has stopped the render and not only changed the
\* row (service.go:52-54), whatever the goroutine was doing between the
\* creation of the row and the call of the delegate.
CancelReachesDelegate ==
    \A j \in Requests :
        row[j] = "cancelled" /\ j \notin cancelling /\ delegate[j] = "running" => Done(j)

\* Every job ends, or is deleted, through crashes, shutdowns and restarts.
EveryJobSettles ==
    \A j \in Requests : row[j] \in Active ~> row[j] \in Terminal \cup {"deleted"}

\* The comment of RecoverInterruptedRenderJobsDurable (render_recovery.go:3-5):
\* only jobs that had already started are marked interrupted, queued work
\* survives a restart.
QueuedWorkSurvives ==
    [][\A j \in Requests :
         row[j] # "interrupted" /\ row'[j] = "interrupted" => j \in begun]_jobsVars
=============================================================================
