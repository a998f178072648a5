--------------------------- MODULE ScheduledTasks ---------------------------
(***************************************************************************)
(* Scheduled tasks (backend/internal/tasks/scheduler.go): the rows of      *)
(* scheduled_tasks, the loop that dispatches those that are due, the       *)
(* goroutines that execute them through the agent runner, and requests     *)
(* that pause, activate and delete them.                                   *)
(*                                                                         *)
(* Time is counted in units in which the interval of a recurring task is   *)
(* Interval.  The agent run is a call that ends with a run or an error.    *)
(***************************************************************************)
EXTENDS Integers, FiniteSetsExt

CONSTANTS
    Tasks,
    Interval,       \* IntervalSeconds of a recurring task
    Limit,          \* LIMIT of the query for due tasks
    Horizon,        \* bound: the last instant
    MaxChanges      \* bound: calls of SetStatus and Delete

ASSUME TasksAssumption ==
    /\ Interval \in Nat \ {0} /\ Limit \in Nat \ {0}
    /\ Horizon \in Nat /\ MaxChanges \in Nat

VARIABLES
    now,
    taskRow,        \* scheduled_tasks: status, next_run_at and schedule_kind
    loop,           \* "waiting" in the select of loop(), or "over"
    due,            \* tasks dispatchDue has read and not yet dispatched
    executions,     \* goroutines in execute, with the task they captured
    schedulerCancelled,
    changes,
    latest          \* history: the latest occurrence handed to the runner; Nothing before,
                    \* and again when a user activates a task that is executing, takes up
                    \* one that was over, or the process ends under an execution

schedulerVars == <<taskRow, loop, due, executions, schedulerCancelled>>
taskVars == <<now, schedulerVars, changes, latest>>

Absent == "absent"
Nothing == -1
NoTask == [status |-> Absent, next |-> 0, recurring |-> FALSE]
Exists(t) == taskRow[t].status \notin {Absent, "deleted"}

TasksInit ==
    /\ now = 0
    /\ taskRow = [t \in Tasks |-> NoTask]
    /\ loop = "waiting"
    /\ due = {} /\ executions = {}
    /\ schedulerCancelled = FALSE
    /\ changes = 0
    /\ latest = [t \in Tasks |-> Nothing]

Pass ==
    /\ now < Horizon
    /\ now' = now + 1
    /\ UNCHANGED <<schedulerVars, changes, latest>>

-----------------------------------------------------------------------------
(***************************************************************************)
(* Requests.                                                               *)
(***************************************************************************)
Create(t) ==
    /\ taskRow[t].status = Absent
    /\ \E next \in now .. Horizon, recurring \in BOOLEAN :
         taskRow' = [taskRow EXCEPT ![t] = [status |-> "active", next |-> next, recurring |-> recurring]]
    /\ UNCHANGED <<now, loop, due, executions, schedulerCancelled, changes, latest>>

Executing(t) == \E x \in executions : x.task = t

\* The status is written whatever it was.
SetStatus(t, status) ==
    /\ Exists(t) /\ changes < MaxChanges
    /\ taskRow' = [taskRow EXCEPT ![t].status = status]
    /\ changes' = changes + 1
    /\ latest' = IF taskRow[t].status \in {"done", "failed"} \/ (status = "active" /\ Executing(t))
                 THEN [latest EXCEPT ![t] = Nothing] ELSE latest
    /\ UNCHANGED <<now, loop, due, executions, schedulerCancelled>>

Delete(t) ==
    /\ Exists(t) /\ changes < MaxChanges
    /\ taskRow' = [taskRow EXCEPT ![t] = [NoTask EXCEPT !.status = "deleted"]]
    /\ changes' = changes + 1
    /\ UNCHANGED <<now, loop, due, executions, schedulerCancelled, latest>>

-----------------------------------------------------------------------------
(***************************************************************************)
(* loop and dispatchDue.                                                   *)
(***************************************************************************)
Due(t) == taskRow[t].status = "active" /\ taskRow[t].next <= now

\* The query: the Limit tasks that are due for longest.
QueryDue ==
    /\ loop = "waiting" /\ due = {}
    /\ \E D \in SUBSET {t \in Tasks : Due(t)} :
         /\ D # {} /\ Cardinality(D) <= Limit
         /\ \A t \in Tasks \ D : Due(t) =>
              Cardinality(D) = Limit /\ \A d \in D : taskRow[d].next <= taskRow[t].next
         /\ due' = {[task |-> d, next |-> taskRow[d].next, recurring |-> taskRow[d].recurring] : d \in D}
    /\ UNCHANGED <<now, taskRow, loop, executions, schedulerCancelled, changes, latest>>

\* The number of an execution tells it from others of the same task.
FreeNumber == CHOOSE n \in 1 .. Cardinality(executions) + 1 : \A x \in executions : x.number # n

Launch(d) ==
    /\ executions' = executions \cup
         {[task |-> d.task, next |-> d.next, recurring |-> d.recurring,
           number |-> FreeNumber, at |-> "running"]}
    /\ latest' = [latest EXCEPT ![d.task] = d.next]

\* Variant: a row that is no longer active ends the loop.
DispatchOrReturn(d) ==
    /\ d \in due
    /\ due' = due \ {d}
    /\ \/ /\ taskRow[d.task].status = "active"
          /\ taskRow' = [taskRow EXCEPT ![d.task].status = "running"]
          /\ Launch(d)
          /\ UNCHANGED loop
       \/ /\ taskRow[d.task].status # "active"
          /\ loop' = "over"
          /\ UNCHANGED <<taskRow, executions, latest>>
    /\ UNCHANGED <<now, schedulerCancelled, changes>>

\* Variant: UPDATE without the condition on the status.
DispatchAnyway(d) ==
    /\ d \in due
    /\ due' = due \ {d}
    /\ taskRow' = IF Exists(d.task) THEN [taskRow EXCEPT ![d.task].status = "running"] ELSE taskRow
    /\ Launch(d)
    /\ UNCHANGED <<now, loop, schedulerCancelled, changes>>

\* The conditional UPDATE, and the goroutine when it changed a row.
Dispatch(d) ==
    /\ d \in due
    /\ due' = due \ {d}
    /\ \/ /\ taskRow[d.task].status = "active"
          /\ taskRow' = [taskRow EXCEPT ![d.task].status = "running"]
          /\ Launch(d)
       \/ /\ taskRow[d.task].status # "active"
          /\ UNCHANGED <<taskRow, executions, latest>>
    /\ UNCHANGED <<now, loop, schedulerCancelled, changes>>

EndLoop ==
    /\ loop = "waiting" /\ due = {} /\ schedulerCancelled
    /\ loop' = "over"
    /\ UNCHANGED <<now, taskRow, due, executions, schedulerCancelled, changes, latest>>

-----------------------------------------------------------------------------
(***************************************************************************)
(* execute and finish.                                                     *)
(***************************************************************************)
Goes(x, at) == executions' = (executions \ {x}) \cup {[x EXCEPT !.at = at]}

\* Variant: a task without its conversation is left alone.
ExecuteOrReturn(x) ==
    /\ x \in executions /\ x.at = "running"
    /\ \/ Goes(x, "done")
       \/ executions' = executions \ {x}
    /\ UNCHANGED <<now, taskRow, loop, due, schedulerCancelled, changes, latest>>

\* StartRunWithOptions returns with a run, whatever its status; or it returns
\* an error, or the conversation or its messages were not found before: all
\* the same to the status of a recurring task.
Execute(x) ==
    /\ x \in executions /\ x.at = "running"
    /\ \/ Goes(x, "done")
       \/ ~x.recurring /\ Goes(x, "failed")
    /\ UNCHANGED <<now, taskRow, loop, due, schedulerCancelled, changes, latest>>

\* The first occurrence after now: at least one interval on.
Occurrences(x) == {x.next + k * Interval : k \in 1 .. now + 1}
NextRun(x) == Min({n \in Occurrences(x) : n > now})

\* Variant: the next occurrence is that of the row.
FinishWithoutAdvance(x) ==
    /\ x \in executions /\ x.at \in {"done", "failed"}
    /\ executions' = executions \ {x}
    /\ taskRow' =
         IF ~Exists(x.task) THEN taskRow
         ELSE [taskRow EXCEPT ![x.task].status = IF x.recurring THEN "active" ELSE x.at]
    /\ UNCHANGED <<now, loop, due, schedulerCancelled, changes, latest>>

\* The row is written whatever it has become; a deleted one is not there.
Finish(x) ==
    /\ x \in executions /\ x.at \in {"done", "failed"}
    /\ executions' = executions \ {x}
    /\ taskRow' =
         IF ~Exists(x.task) THEN taskRow
         ELSE IF x.recurring
         THEN [taskRow EXCEPT ![x.task].status = "active", ![x.task].next = NextRun(x)]
         ELSE [taskRow EXCEPT ![x.task].status = x.at, ![x.task].next = x.next]
    /\ UNCHANGED <<now, loop, due, schedulerCancelled, changes, latest>>

-----------------------------------------------------------------------------
(***************************************************************************)
(* Shutdown, the end of the process, and NewScheduler.                     *)
(***************************************************************************)
CancelScheduler ==
    /\ schedulerCancelled' = TRUE
    /\ UNCHANGED <<now, taskRow, loop, due, executions, changes, latest>>

SchedulerDrained == loop = "over" /\ executions = {}

LoseScheduler ==
    /\ loop' = "waiting" /\ due' = {} /\ executions' = {}
    /\ schedulerCancelled' = FALSE
    /\ latest' = [t \in Tasks |-> IF Executing(t) THEN Nothing ELSE latest[t]]
    /\ UNCHANGED <<now, taskRow, changes>>

RecoverTasks ==
    taskRow' = [t \in Tasks |-> IF taskRow[t].status = "running"
                                THEN [taskRow[t] EXCEPT !.status = "active"] ELSE taskRow[t]]

LoopStep == QueryDue \/ (\E d \in due : Dispatch(d)) \/ EndLoop
ExecutionStep(x) == Execute(x) \/ Finish(x)
ChangeTask(t) == SetStatus(t, "active") \/ SetStatus(t, "paused") \/ Delete(t)

-----------------------------------------------------------------------------
(***************************************************************************)
(* Properties.                                                             *)
(***************************************************************************)

\* Rows, the loop and the executions are what the code can make them, and no
\* two executions are the same.
TasksTypeOK ==
    /\ \A t \in Tasks : taskRow[t].status \in {Absent, "active", "running", "paused", "done", "failed", "deleted"}
    /\ loop \in {"waiting", "over"}
    /\ \A x, y \in executions : x.number = y.number => x = y
    /\ \A x \in executions : x.task \in Tasks /\ x.at \in {"running", "done", "failed"}

\* An occurrence of a task is executed once, and they are executed in order: a
\* stale list of due tasks, a late finish or a catch-up after a long execution
\* does not bring one back.  Only a user who activates a task that runs or is
\* over, and a process that ended under an execution, repeat one.
OccurrenceOnce ==
    [][\A x \in executions' \ executions :
         x.at = "running" => x.next > latest[x.task]]_taskVars

\* A pause holds against the loop, recovery and executions of other tasks: only
\* the user, or the end of an execution that was under way, undoes it.
PauseHolds ==
    [][\A t \in Tasks :
         /\ taskRow[t].status = "paused" /\ taskRow'[t].status # "paused"
         => changes' # changes \/ (Executing(t) /\ executions' # executions)]_taskVars

\* A task that is due gets its turn, or is paused or deleted, though the query
\* returns Limit rows at a time and the process may be restarted.
DueIsDispatched == \A t \in Tasks : Due(t) ~> ~Due(t)
=============================================================================
