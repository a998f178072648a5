---------------------------- MODULE JobsManager ----------------------------
(***************************************************************************)
(* Background jobs (backend/internal/jobs/manager.go): the rows of         *)
(* agent_jobs, the goroutine that does the work of each job, and requests  *)
(* that cancel it.  The row and the goroutine's context are written by     *)
(* both without a common lock; every statement on the table is a step.     *)
(* Progress and stage are left out: they are written to running rows only. *)
(***************************************************************************)
EXTENDS Naturals

CONSTANTS Jobs

VARIABLES
    jobRow,         \* agent_jobs.status
    work,           \* the place of the job's goroutine, or of Start before it
    jobCancelled,   \* jobs whose own context was cancelled
    cancel,         \* the last request in Cancel; "missed": it found no live job
    managerCancelled,   \* m.ctx is cancelled
    earned          \* history: jobs whose work returned without an error

managerVars == <<jobRow, work, jobCancelled, cancel, managerCancelled>>
jobVars == <<managerVars, earned>>

Unfinished == {"queued", "running"}
Finished == {"completed", "failed", "cancelled", "interrupted"}

\* The places at which m.live holds the job.
Live(j) == work[j] \in {"launched", "working", "storing", "failing", "stopping"}

JobsInit ==
    /\ jobRow = [j \in Jobs |-> "absent"]
    /\ work = [j \in Jobs |-> "none"]
    /\ jobCancelled = {}
    /\ cancel = [j \in Jobs |-> "none"]
    /\ managerCancelled = FALSE
    /\ earned = {}

Moves(j, there) == work' = [work EXCEPT ![j] = there]
Writes(j, status) == jobRow' = [jobRow EXCEPT ![j] = status]

-----------------------------------------------------------------------------
(***************************************************************************)
(* Start.                                                                  *)
(***************************************************************************)
\* Variant: the error of the INSERT is not looked at.
InsertOrNot(j) ==
    /\ jobRow[j] = "absent" /\ work[j] = "none"
    /\ Writes(j, "queued") \/ UNCHANGED jobRow
    /\ Moves(j, "inserted")
    /\ UNCHANGED <<jobCancelled, cancel, managerCancelled, earned>>

Insert(j) ==
    /\ jobRow[j] = "absent"
    /\ Writes(j, "queued")
    /\ Moves(j, "inserted")
    /\ UNCHANGED <<jobCancelled, cancel, managerCancelled, earned>>

\* The registration in m.live, wg.Add and the go statement.
Register(j) ==
    /\ work[j] = "inserted"
    /\ Moves(j, "launched")
    /\ UNCHANGED <<jobRow, jobCancelled, cancel, managerCancelled, earned>>

-----------------------------------------------------------------------------
(***************************************************************************)
(* run.                                                                    *)
(***************************************************************************)
ContextDone(j) == managerCancelled \/ j \in jobCancelled

MarkRunning(j) ==
    /\ work[j] = "launched"
    /\ Writes(j, "running")
    /\ Moves(j, "working")
    /\ UNCHANGED <<jobCancelled, cancel, managerCancelled, earned>>

\* Variant: the context is looked at first.
WorkSucceedsInTime(j) ==
    /\ work[j] = "working"
    /\ Moves(j, IF ContextDone(j) THEN "stopping" ELSE "storing")
    /\ earned' = earned \cup {j}
    /\ UNCHANGED <<jobRow, jobCancelled, cancel, managerCancelled>>

WorkSucceeds(j) ==
    /\ work[j] = "working"
    /\ Moves(j, "storing")
    /\ earned' = earned \cup {j}
    /\ UNCHANGED <<jobRow, jobCancelled, cancel, managerCancelled>>

\* The context is looked at when the work has returned an error.
WorkFails(j) ==
    /\ work[j] = "working"
    /\ Moves(j, IF ContextDone(j) THEN "stopping" ELSE "failing")
    /\ UNCHANGED <<jobRow, jobCancelled, cancel, managerCancelled, earned>>

\* The last statement, and the deferred calls.
Store(j) ==
    /\ \/ work[j] = "storing" /\ Writes(j, "completed")
       \/ work[j] = "failing" /\ Writes(j, "failed")
       \/ work[j] = "stopping" /\ Writes(j, "cancelled")
    /\ Moves(j, "none")
    /\ UNCHANGED <<jobCancelled, cancel, managerCancelled, earned>>

-----------------------------------------------------------------------------
(***************************************************************************)
(* Cancel: the status is read, then the context cancelled, then the row    *)
(* written whatever it has become.                                         *)
(***************************************************************************)
Idle(j) == cancel[j] \in {"none", "returned", "missed"}

CheckStatus(j) ==
    /\ Idle(j) /\ jobRow[j] \in Unfinished
    /\ cancel' = [cancel EXCEPT ![j] = "checked"]
    /\ UNCHANGED <<jobRow, work, jobCancelled, managerCancelled, earned>>

\* Variant: a queued job has nothing to cancel.
SignalRunningOnly(j) ==
    /\ cancel[j] = "checked"
    /\ cancel' = [cancel EXCEPT ![j] = IF work[j] = "inserted" THEN "missing" ELSE "signalled"]
    /\ jobCancelled' = IF Live(j) /\ jobRow[j] = "running" THEN jobCancelled \cup {j} ELSE jobCancelled
    /\ UNCHANGED <<jobRow, work, managerCancelled, earned>>

Signal(j) ==
    /\ cancel[j] = "checked"
    /\ cancel' = [cancel EXCEPT ![j] = IF work[j] = "inserted" THEN "missing" ELSE "signalled"]
    /\ jobCancelled' = IF Live(j) THEN jobCancelled \cup {j} ELSE jobCancelled
    /\ UNCHANGED <<jobRow, work, managerCancelled, earned>>

MarkCancelled(j) ==
    /\ cancel[j] \in {"signalled", "missing"}
    /\ Writes(j, "cancelled")
    /\ cancel' = [cancel EXCEPT ![j] = IF @ = "missing" THEN "missed" ELSE "returned"]
    /\ UNCHANGED <<work, jobCancelled, managerCancelled, earned>>

-----------------------------------------------------------------------------
(***************************************************************************)
(* Shutdown, the end of the process, and NewManager when it starts again.  *)
(***************************************************************************)
CancelManager ==
    /\ managerCancelled' = TRUE
    /\ UNCHANGED <<jobRow, work, jobCancelled, cancel, earned>>

\* wg.Wait returns.
ManagerDrained == \A j \in Jobs : ~Live(j)

LoseManager ==
    /\ work' = [j \in Jobs |-> "none"]
    /\ jobCancelled' = {}
    /\ cancel' = [j \in Jobs |-> IF Idle(j) THEN cancel[j] ELSE "none"]
    /\ managerCancelled' = FALSE
    /\ UNCHANGED <<jobRow, earned>>

\* Variant: queued rows are left for a worker to pick up.
RecoverRunningJobs == jobRow' = [j \in Jobs |-> IF jobRow[j] = "running" THEN "interrupted" ELSE jobRow[j]]

\* "interrupted" is 'failed' with a message of its own.
RecoverJobs == jobRow' = [j \in Jobs |-> IF jobRow[j] \in Unfinished THEN "interrupted" ELSE jobRow[j]]

JobStep(j) ==
    \/ Register(j) \/ MarkRunning(j) \/ WorkSucceeds(j) \/ WorkFails(j) \/ Store(j)
    \/ Signal(j) \/ MarkCancelled(j)

-----------------------------------------------------------------------------
(***************************************************************************)
(* Properties.                                                             *)
(***************************************************************************)

\* Rows, goroutines and requests are where the code can have them.
JobsTypeOK ==
    /\ jobRow \in [Jobs -> {"absent"} \cup Unfinished \cup Finished]
    /\ work \in [Jobs -> {"none", "inserted", "launched", "working", "storing", "failing", "stopping"}]
    /\ cancel \in [Jobs -> {"none", "checked", "signalled", "missing", "returned", "missed"}]
    /\ managerCancelled \in BOOLEAN
    /\ jobCancelled \cup earned \subseteq Jobs
    /\ \A j \in Jobs : work[j] # "none" => jobRow[j] # "absent"

\* Once the goroutine and the request are gone, the row tells what happened,
\* whichever of the two wrote last: completed work is not reported as failed,
\* nor the other way round, and it is reported as cancelled only to a user who
\* cancelled it, not because the manager was shutting down.
JobsTruthful ==
    \A j \in Jobs : work[j] = "none" /\ Idle(j) =>
        /\ jobRow[j] = "completed" => j \in earned
        /\ jobRow[j] = "failed" => j \notin earned
        /\ jobRow[j] = "cancelled" /\ j \in earned => cancel[j] # "none"

\* A job whose Cancel has returned was really told to stop: its context is
\* cancelled for as long as its goroutine lives, also when the goroutine marks
\* the row running after Cancel marked it cancelled.  Only a Cancel that comes
\* between the INSERT and the registration in Start finds nobody to tell.
CancelIsSignalled ==
    \A j \in Jobs : cancel[j] = "returned" /\ Live(j) => ContextDone(j)

\* Every job ends, through cancellations, shutdowns, crashes and restarts.
JobsSettle == \A j \in Jobs : jobRow[j] \in Unfinished ~> jobRow[j] \in Finished
=============================================================================
