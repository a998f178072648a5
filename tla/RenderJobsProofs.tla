-------------------------- MODULE RenderJobsProofs --------------------------
(***************************************************************************)
(* The safety of export jobs through cancellations, shutdowns, crashes and *)
(* restarts, for any jobs, workers, limits and number of restarts.  The    *)
(* scheduler inside the process keeps the invariant of                     *)
(* RenderSchedulerProofs; this module adds what rows, goroutines and the   *)
(* recovery know of each other.                                            *)
(***************************************************************************)
EXTENDS RenderJobs, RenderSchedulerProofs

JobPlaces == {"none", "created", "launched", "marked", "rendering", "failing", "storing", "stored"}

ServiceTypes ==
    /\ row \in [Requests -> Active \cup Terminal \cup Absent]
    /\ exports \in [Requests -> Nat]
    /\ job \in [Requests -> JobPlaces]
    /\ cancelling \subseteq Requests
    /\ process \in {"up", "stopping", "down"}
    /\ recovering \subseteq Requests
    /\ restarts \in 0 .. MaxRestarts
    /\ begun \subseteq Requests

\* Only a goroutine that renders is inside Render, and it enters once in the
\* life of a process; a job that is not yet created, or that recovery has
\* still to look at, has no goroutine.
GoroutineInv ==
    \A j \in Requests :
        /\ caller[j] \in {"numbered", "waiting", "withdrawing"} => job[j] = "rendering"
        /\ job[j] \in {"created", "launched", "marked"} => caller[j] = "idle"
        /\ row[j] = "absent" \/ process = "down" \/ j \in recovering =>
             job[j] = "none" /\ caller[j] = "idle"

\* While a goroutine has the job, only the user has touched the row.
StatusInv ==
    \A j \in Requests :
        /\ job[j] \in {"created", "launched"} => row[j] \in {"queued", "cancelled", "deleted"}
        /\ job[j] \in {"marked", "rendering", "failing", "storing", "stored"} =>
             row[j] \in {"running", "cancelled", "deleted"}

\* A job that has its export is past rendering for good: no goroutine that
\* could store again has it, and recovery relaunches queued rows only.
ExportInv ==
    \A j \in Requests :
        /\ exports[j] # 0 => exports[j] = 1 /\ job[j] \in {"stored", "none"} /\ row[j] \notin {"absent", "queued"}
        /\ job[j] = "stored" \/ row[j] = "completed" => exports[j] = 1

\* A goroutine that is past its last look at the row has its context
\* cancelled, or the cancelling handler still has to call cancel().
CancelInv ==
    \A j \in Requests :
        row[j] = "cancelled" /\ job[j] = "rendering" => j \in cancelling \cup cancelled

JobsInv ==
    /\ RenderInv /\ ServiceTypes
    /\ GoroutineInv /\ StatusInv /\ ExportInv /\ CancelInv
    /\ process = "down" => restarts < MaxRestarts
-----------------------------------------------------------------------------
(***************************************************************************)
(* The scheduler inside the process.                                       *)
(***************************************************************************)
\* Whatever jobs do, the scheduler makes a move of its own or starts again.
LEMMA SchedulerKept ==
    ASSUME JobsInv, [JobsNext]_jobsVars
    PROVE  RenderInv'
<1>1. RenderMove \/ RenderReset
  <2>. USE DEF JobsInv, RenderInv, RenderTypes, CallerType
  <2>1. CASE RenderStep
    BY <2>1 DEF RenderStep, RenderMove, CallerStep
  <2>2. CASE StopScheduler
    BY <2>2 DEF StopScheduler, RenderMove
  <2>3. CASE Exit
    BY <2>3 DEF Exit
  <2>4. CASE StopService
    BY <2>4 DEF StopService, CancelMany, Launched, RenderMove
  <2>5. ASSUME NEW j \in Requests, CancelFunc(j) PROVE CancelMany
    BY <2>5 DEF CancelFunc, CancelMany
  <2>6. CASE UNCHANGED renderVars
    BY <2>6 DEF renderVars, callerVars, CancelMany, RenderMove
  <2>7. ASSUME NEW j \in Requests, UserStep(j) \/ JobStep(j) \/ Recover(j), ~CancelFunc(j)
        PROVE  UNCHANGED renderVars
    BY <2>7 DEF UserStep, CreateJob, CancelRow, DeleteJob, JobStep, Launch, Begin, Load, PreflightFails,
         Rendered, Fail, Store, Complete, Recover
  <2>8. CASE Restart
    BY <2>6, <2>8 DEF Restart
  <2>9. CASE UNCHANGED jobsVars
    BY <2>6, <2>9 DEF jobsVars
  <2>. QED
    BY <2>1, <2>2, <2>3, <2>4, <2>5, <2>6, <2>7, <2>8, <2>9 DEF JobsNext, RenderMove
<1>. QED
  BY <1>1, InvKept, InvRestarts DEF JobsInv

\* Its steps move no caller but those of goroutines that render.
LEMMA RenderStepCallers ==
    ASSUME JobsInv, RenderStep
    PROVE  /\ cancelled' = cancelled
           /\ \A j \in Requests : caller'[j] = caller[j] \/ job[j] = "rendering"
<1>. USE DEF JobsInv, RenderInv, RenderTypes, CallerType
<1>1. ASSUME NEW r \in Requests, DelegateReturns(r) PROVE caller' = caller /\ cancelled' = cancelled
  BY <1>1 DEF DelegateReturns, schedVars, callerVars
<1>2. ASSUME NEW w \in Workers, WorkerStep(w) PROVE caller' = caller /\ cancelled' = cancelled
  BY <1>2, MidwayKeeps DEF WorkerStep, Midway, Select, FindNothing, Release, callerVars
<1>3. ASSUME NEW r \in Requests, CallerStep(r)
      PROVE  /\ cancelled' = cancelled
             /\ \A q \in Requests : q # r => caller'[q] = caller[q]
             /\ caller[r] \in {"idle", "numbered", "waiting", "withdrawing"}
  BY <1>3 DEF CallerStep, DrawNumber, Enqueue, Refuse, TakeResult, GiveUp, CancelQueued
<1>. QED
  BY <1>1, <1>2, <1>3 DEF RenderStep, CallerStep, GoroutineInv

-----------------------------------------------------------------------------
(***************************************************************************)
(* Rows, goroutines and recovery.                                          *)
(***************************************************************************)
\* What JobsInv adds to the scheduler's invariant.
ServiceInv ==
    /\ ServiceTypes
    /\ GoroutineInv /\ StatusInv /\ ExportInv /\ CancelInv
    /\ process = "down" => restarts < MaxRestarts

FinalRows == \A j \in Requests : row[j] \in Terminal => row'[j] \in {row[j], "deleted"}

LEMMA UserSteps ==
    ASSUME JobsInv, NEW j \in Requests, UserStep(j)
    PROVE  ServiceInv' /\ FinalRows
<1>. USE DEF JobsInv, ServiceInv, ServiceTypes, JobPlaces, Active, Terminal, Absent, Moves, Serving, FinalRows,
         GoroutineInv, StatusInv, ExportInv, CancelInv, renderVars, callerVars
<1>1. CASE CreateJob(j)
  BY <1>1 DEF CreateJob
<1>2. CASE CancelRow(j)
  BY <1>2 DEF CancelRow
<1>3. CASE DeleteJob(j)
  BY <1>3 DEF DeleteJob
<1>. QED
  BY <1>1, <1>2, <1>3 DEF UserStep

LEMMA GoroutineSteps ==
    ASSUME JobsInv, NEW j \in Requests, JobStep(j)
    PROVE  ServiceInv' /\ FinalRows
<1>. USE DEF JobsInv, ServiceInv, ServiceTypes, JobPlaces, Active, Terminal, Absent, Moves, Serving, FinalRows,
         GoroutineInv, StatusInv, ExportInv, CancelInv, renderVars, callerVars, RowCancelled
<1>1. CASE Launch(j)
  BY <1>1 DEF Launch
<1>2. CASE CancelFunc(j)
  BY <1>2 DEF CancelFunc, Launched
<1>3. CASE Begin(j)
  BY <1>3 DEF Begin, MarkRunning, Mark
<1>4. CASE Load(j)
  BY <1>4 DEF Load
<1>5. CASE PreflightFails(j)
  BY <1>5 DEF PreflightFails
<1>6. CASE Rendered(j)
  BY <1>6 DEF Rendered
<1>7. CASE Fail(j)
  BY <1>7 DEF Fail, MarkFailed, Mark
<1>8. CASE Store(j)
  BY <1>8 DEF Store
<1>9. CASE Complete(j)
  BY <1>9 DEF Complete, MarkCompleted, Mark
<1>. QED
  BY <1>1, <1>2, <1>3, <1>4, <1>5, <1>6, <1>7, <1>8, <1>9 DEF JobStep

LEMMA RecoverySteps ==
    ASSUME JobsInv, NEW j \in Requests, Recover(j)
    PROVE  ServiceInv' /\ FinalRows
BY DEF Recover, JobsInv, ServiceInv, ServiceTypes, JobPlaces, Active, Terminal, Absent, Moves, FinalRows,
    GoroutineInv, StatusInv, ExportInv, CancelInv, renderVars, callerVars

LEMMA ProcessSteps ==
    ASSUME JobsInv, StopService \/ StopScheduler \/ Exit \/ Restart \/ RenderStep \/ UNCHANGED jobsVars
    PROVE  ServiceInv' /\ FinalRows
<1>. USE RestartsAssumption DEF JobsInv, ServiceInv, ServiceTypes, JobPlaces, Active, Terminal, Absent, FinalRows,
         GoroutineInv, StatusInv, ExportInv, CancelInv, serviceVars
<1>1. CASE StopService
  BY <1>1 DEF StopService, Serving
<1>2. CASE StopScheduler
  BY <1>2 DEF StopScheduler, Shutdown
<1>3. CASE Exit
  BY <1>3 DEF Exit, RenderReset
<1>4. CASE Restart
  BY <1>4 DEF Restart, renderVars, callerVars
<1>5. CASE RenderStep
  <2>1. UNCHANGED <<row, exports, job, cancelling, process, recovering, restarts>> /\ begun' \subseteq Requests
    BY <1>5 DEF RenderStep
  <2>. QED
    BY <1>5, <2>1, RenderStepCallers
<1>6. CASE UNCHANGED jobsVars
  BY <1>6 DEF jobsVars, renderVars, callerVars
<1>. QED
  BY <1>1, <1>2, <1>3, <1>4, <1>5, <1>6

LEMMA JobsKept ==
    ASSUME JobsInv, [JobsNext]_jobsVars
    PROVE  JobsInv' /\ FinalRows
<1>1. ServiceInv' /\ FinalRows
  BY UserSteps, GoroutineSteps, RecoverySteps, ProcessSteps DEF JobsNext
<1>. QED
  BY <1>1, SchedulerKept DEF JobsInv, ServiceInv

LEMMA JobsStart ==
    ASSUME JobsInit
    PROVE  JobsInv
<1>1. RenderInv
  BY InvStarts DEF JobsInit
<1>2. caller = [r \in Requests |-> "idle"]
  BY DEF JobsInit, RenderInit
<1>. QED
  BY <1>1, <1>2, RestartsAssumption DEF JobsInit, JobsInv, ServiceTypes, JobPlaces, Active, Terminal, Absent,
       GoroutineInv, StatusInv, ExportInv, CancelInv

LEMMA JobsHold == JobsSpec => []JobsInv
BY JobsStart, JobsKept, PTL DEF JobsSpec

-----------------------------------------------------------------------------
(***************************************************************************)
(* Theorems.                                                               *)
(***************************************************************************)
\* Rows, goroutines, handlers, process and scheduler keep their types.
THEOREM JobsTypesHold == JobsSpec => []JobsTypeOK
<1>1. JobsInv => JobsTypeOK
  BY TypesFollow DEF JobsInv, ServiceTypes, JobPlaces, JobsTypeOK
<1>. QED
  BY <1>1, JobsHold, PTL

\* A job has one export at most, and a completed one has it, however often
\* the process crashes and whatever recovery launches again.
THEOREM ExportsAreSingle == JobsSpec => []ExportedOnce
<1>1. JobsInv => ExportedOnce
  <2>1. ASSUME JobsInv, NEW j \in Requests PROVE exports[j] = 0 \/ exports[j] = 1
    BY <2>1 DEF JobsInv, ExportInv
  <2>. QED
    BY <2>1 DEF JobsInv, ExportInv, ExportedOnce
<1>. QED
  BY <1>1, JobsHold, PTL

\* A cancellation that has returned has stopped the render too.
THEOREM CancelsReachDelegates == JobsSpec => []CancelReachesDelegate
<1>1. ASSUME JobsInv, NEW j \in Requests,
             row[j] = "cancelled", j \notin cancelling, delegate[j] = "running"
      PROVE  Done(j)
  <2>1. CASE job[j] = "rendering"
    BY <1>1, <2>1 DEF JobsInv, CancelInv, Done
  <2>2. CASE job[j] # "rendering"
    <3>1. caller[j] = "returned"
      BY <1>1, <2>2 DEF JobsInv, RenderInv, DelegateInv, GoroutineInv
    <3>. QED
      BY <1>1, <3>1 DEF JobsInv, RenderInv, DelegateInv
  <2>. QED
    BY <2>1, <2>2
<1>2. JobsInv => CancelReachesDelegate
  BY <1>1 DEF CancelReachesDelegate
<1>. QED
  BY <1>2, JobsHold, PTL

\* No step revives or rewrites a finished job; only the user deletes it.
THEOREM FinalRowsHold == JobsSpec => FinalRowsStay
<1>1. JobsInv /\ [JobsNext]_jobsVars =>
        [\A j \in Requests : row[j] \in Terminal => row'[j] \in {row[j], "deleted"}]_jobsVars
  BY JobsKept DEF FinalRows
<1>. QED
  BY <1>1, JobsHold, PTL DEF JobsSpec, FinalRowsStay

\* The scheduler inside the process keeps its promises through restarts.
THEOREM SchedulerSurvives == JobsSpec => [](NoLostWakeup /\ NoGhostRender /\ DelegatesBounded)
<1>1. JobsInv => NoLostWakeup /\ NoGhostRender /\ DelegatesBounded
  BY WakeupsFollow, GhostsFollow, BoundsFollow DEF JobsInv
<1>. QED
  BY <1>1, JobsHold, PTL
=============================================================================
