--------------------------- MODULE BackgroundWork ---------------------------
(***************************************************************************)
(* The process around the background jobs and the scheduled tasks: the     *)
(* router builds both managers when it starts (backend/internal/api/       *)
(* router.go), users and the agent runs of scheduled tasks start jobs, and *)
(* the server shuts down in order: requests, scheduler, jobs, each step    *)
(* with a deadline.  Memory is lost with the process, the rows are not.    *)
(***************************************************************************)
EXTENDS JobsManager, ScheduledTasks

CONSTANTS MaxRestarts       \* bound: restarts of the process

ASSUME RestartsAssumption == MaxRestarts \in Nat

VARIABLES
    process,        \* "up", "draining" (srv.Shutdown), "tasks", "jobs" or "down"
    clean,          \* history: no step of the shutdown ran into its deadline
    starter,        \* executions and users that are in Start for a job
    restarts

processVars == <<process, clean, restarts>>
backgroundVars == <<jobVars, taskVars, processVars, starter>>

User == [task |-> "user"]

BackgroundInit ==
    /\ JobsInit /\ TasksInit
    /\ process = "up" /\ clean = TRUE /\ restarts = 0
    /\ starter = [j \in Jobs |-> User]

\* Requests are served by a process that is up, and by one that has given up
\* waiting for them.
Serving == process = "up" \/ (process # "down" /\ ~clean)

\* An execution that waits for Start goes on when it returns.
Starting(x) == \E j \in Jobs : work[j] = "inserted" /\ starter[j] = x

-----------------------------------------------------------------------------
(***************************************************************************)
(* Steps of the two managers.                                              *)
(***************************************************************************)
UserStarts(j) ==
    /\ Serving /\ Insert(j)
    /\ starter' = [starter EXCEPT ![j] = User]
    /\ UNCHANGED <<taskVars, processVars>>

\* The agent run of a scheduled task calls image_generate, music_generate, ...
RunStarts(j) ==
    /\ Insert(j)
    /\ \E x \in executions :
         /\ x.at = "running" /\ ~Starting(x)
         /\ starter' = [starter EXCEPT ![j] = x]
    /\ UNCHANGED <<taskVars, processVars>>

UserCancels(j) ==
    /\ Serving /\ CheckStatus(j)
    /\ UNCHANGED <<taskVars, processVars, starter>>

JobGoesOn(j) ==
    /\ JobStep(j)
    /\ starter' = IF work'[j] = "launched" THEN [starter EXCEPT ![j] = User] ELSE starter
    /\ UNCHANGED <<taskVars, processVars>>

UserChanges(t) ==
    /\ Serving
    /\ Create(t) \/ ChangeTask(t)
    /\ UNCHANGED <<jobVars, processVars, starter>>

LoopGoesOn == process # "down" /\ LoopStep /\ UNCHANGED <<jobVars, processVars, starter>>

ExecutionGoesOn ==
    /\ \E x \in executions : ~Starting(x) /\ ExecutionStep(x)
    /\ UNCHANGED <<jobVars, processVars, starter>>

TimePasses == Pass /\ UNCHANGED <<jobVars, processVars, starter>>

-----------------------------------------------------------------------------
(***************************************************************************)
(* The process.                                                            *)
(***************************************************************************)
\* Handlers that are in Start or in Cancel.
RequestsDrained ==
    \A j \in Jobs : Idle(j) /\ ~(work[j] = "inserted" /\ starter[j] = User)

\* A step of the shutdown ends when it has nothing more to wait for, or at its
\* deadline.
Proceeds(from, to, drained) ==
    /\ process = from
    /\ process' = to
    /\ \/ drained /\ UNCHANGED clean
       \/ ~drained /\ clean' = FALSE

StopServing ==
    /\ process = "up" /\ restarts < MaxRestarts
    /\ process' = "draining"
    /\ UNCHANGED <<jobVars, taskVars, starter, clean, restarts>>

StopTasks ==
    /\ Proceeds("draining", "tasks", RequestsDrained)
    /\ CancelScheduler
    /\ UNCHANGED <<jobVars, starter, restarts>>

\* Variant: the jobs are stopped as soon as the scheduler was told to stop.
StopJobsAtOnce ==
    /\ Proceeds("tasks", "jobs", TRUE)
    /\ CancelManager
    /\ UNCHANGED <<taskVars, starter, restarts>>

StopJobs ==
    /\ Proceeds("tasks", "jobs", SchedulerDrained)
    /\ CancelManager
    /\ UNCHANGED <<taskVars, starter, restarts>>

LoseMemory ==
    /\ LoseManager /\ LoseScheduler
    /\ starter' = [j \in Jobs |-> User]
    /\ UNCHANGED restarts

Exit == Proceeds("jobs", "down", ManagerDrained) /\ LoseMemory

Crash ==
    /\ process # "down" /\ restarts < MaxRestarts
    /\ process' = "down" /\ clean' = FALSE
    /\ LoseMemory

\* NewManager and NewScheduler, before the router serves.
Restart ==
    /\ process = "down"
    /\ process' = "up" /\ clean' = TRUE /\ restarts' = restarts + 1
    /\ RecoverJobs /\ RecoverTasks
    /\ UNCHANGED <<work, jobCancelled, cancel, managerCancelled, earned,
                   now, loop, due, executions, schedulerCancelled, changes, latest, starter>>

-----------------------------------------------------------------------------
BackgroundNext ==
    \/ \E j \in Jobs : UserStarts(j) \/ RunStarts(j) \/ UserCancels(j) \/ JobGoesOn(j)
    \/ \E t \in Tasks : UserChanges(t)
    \/ LoopGoesOn \/ ExecutionGoesOn \/ TimePasses
    \/ StopServing \/ StopTasks \/ StopJobs \/ Exit \/ Crash \/ Restart

BackgroundSpec == BackgroundInit /\ [][BackgroundNext]_backgroundVars

\* Goroutines are scheduled, the ticker ticks, work and agent runs end, a
\* shutdown has deadlines, and the process is started again.
BackgroundFairness ==
    /\ \A j \in Jobs : WF_backgroundVars(JobGoesOn(j))
    /\ WF_backgroundVars(LoopGoesOn) /\ WF_backgroundVars(ExecutionGoesOn)
    /\ WF_backgroundVars(StopTasks \/ StopJobs \/ Exit)
    /\ WF_backgroundVars(Restart)

LiveBackgroundSpec == BackgroundSpec /\ BackgroundFairness

-----------------------------------------------------------------------------
(***************************************************************************)
(* Properties.                                                             *)
(***************************************************************************)

\* The process is in a phase it has.
BackgroundTypeOK ==
    /\ JobsTypeOK /\ TasksTypeOK
    /\ process \in {"up", "draining", "tasks", "jobs", "down"}
    /\ clean \in BOOLEAN /\ restarts \in 0 .. MaxRestarts

\* A shutdown that met no deadline leaves nothing for recovery: no job is
\* unfinished and no task is running, although tasks that are executing start
\* jobs until their scheduler is drained (router.go:403-406 stops the
\* scheduler before the jobs).
CleanExit ==
    process = "down" /\ clean =>
        /\ \A j \in Jobs : jobRow[j] \notin Unfinished
        /\ \A t \in Tasks : taskRow[t].status # "running"

\* A running task has an execution that will finish it, through overlapping
\* executions, requests that write the row at any time, and restarts: nothing
\* else would ever dispatch it again.
NoTaskLeftBehind ==
    process # "down" => \A t \in Tasks : taskRow[t].status = "running" => Executing(t)
=============================================================================
