------------------------ MODULE BackgroundWorkProofs ------------------------
(***************************************************************************)
(* The safety of background jobs and scheduled tasks in one process,       *)
(* proved for any jobs and tasks, any interval and limit of the query, and *)
(* any number of changes and restarts.                                     *)
(***************************************************************************)
EXTENDS BackgroundWork, FiniteSetTheorems, TLAPS

(***************************************************************************)
(* Jobs: what relates a row to its goroutine and to the request that       *)
(* cancels it.                                                             *)
(***************************************************************************)
JobInv(j) ==
    /\ jobRow[j] = "absent" => work[j] = "none" /\ cancel[j] = "none" /\ j \notin earned
    /\ work[j] = "inserted" => cancel[j] \in {"none", "checked", "missing", "missed"}
    /\ cancel[j] \in {"signalled", "returned"} /\ Live(j) => ContextDone(j)
    /\ work[j] = "storing" => j \in earned
    /\ work[j] \in {"inserted", "launched", "working", "failing", "stopping"} => j \notin earned
    /\ jobRow[j] = "completed" => j \in earned
    /\ jobRow[j] = "failed" => work[j] = "none" /\ j \notin earned
    /\ jobRow[j] = "cancelled" =>
         \/ cancel[j] \in {"returned", "missed"}
         \/ work[j] = "none" /\ j \notin earned

JobsInv == JobsTypeOK /\ \A j \in Jobs : JobInv(j)

LEMMA InitJobs == JobsInit => JobsInv
BY DEF JobsInit, JobsInv, JobsTypeOK, JobInv, Live, ContextDone, Unfinished, Finished

\* The statements of one job: nothing else of any other job changes.
LEMMA JobsTypeKept ==
    ASSUME JobsInv, NEW j \in Jobs, Insert(j) \/ CheckStatus(j) \/ JobStep(j)
    PROVE  JobsTypeOK'
<1>. USE DEF JobsInv, JobsTypeOK, Moves, Writes, Unfinished, Finished, Idle, Live
<1>1. CASE Insert(j)
  BY <1>1 DEF Insert
<1>2. CASE CheckStatus(j)
  BY <1>2 DEF CheckStatus
<1>3. CASE Register(j)
  BY <1>3 DEF Register
<1>4. CASE MarkRunning(j)
  BY <1>4 DEF MarkRunning
<1>5. CASE WorkSucceeds(j)
  BY <1>5 DEF WorkSucceeds
<1>6. CASE WorkFails(j)
  BY <1>6 DEF WorkFails
<1>7. CASE Store(j)
  BY <1>7 DEF Store
<1>8. CASE Signal(j)
  BY <1>8 DEF Signal
<1>9. CASE MarkCancelled(j)
  BY <1>9 DEF MarkCancelled
<1>. QED
  BY <1>1, <1>2, <1>3, <1>4, <1>5, <1>6, <1>7, <1>8, <1>9 DEF JobStep

LEMMA OtherJobs ==
    ASSUME JobsInv, NEW j \in Jobs, Insert(j) \/ CheckStatus(j) \/ JobStep(j),
           NEW k \in Jobs, k # j
    PROVE  /\ jobRow'[k] = jobRow[k] /\ work'[k] = work[k] /\ cancel'[k] = cancel[k]
           /\ (k \in earned') = (k \in earned)
           /\ (k \in jobCancelled') = (k \in jobCancelled)
           /\ managerCancelled' = managerCancelled
<1>. USE DEF JobsInv, JobsTypeOK, Moves, Writes
<1>1. CASE Insert(j)
  BY <1>1 DEF Insert
<1>2. CASE CheckStatus(j)
  BY <1>2 DEF CheckStatus
<1>3. CASE Register(j)
  BY <1>3 DEF Register
<1>4. CASE MarkRunning(j)
  BY <1>4 DEF MarkRunning
<1>5. CASE WorkSucceeds(j)
  BY <1>5 DEF WorkSucceeds
<1>6. CASE WorkFails(j)
  BY <1>6 DEF WorkFails
<1>7. CASE Store(j)
  BY <1>7 DEF Store
<1>8. CASE Signal(j)
  BY <1>8 DEF Signal
<1>9. CASE MarkCancelled(j)
  BY <1>9 DEF MarkCancelled
<1>. QED
  BY <1>1, <1>2, <1>3, <1>4, <1>5, <1>6, <1>7, <1>8, <1>9 DEF JobStep

LEMMA OwnJob ==
    ASSUME JobsInv, NEW j \in Jobs, Insert(j) \/ CheckStatus(j) \/ JobStep(j)
    PROVE  JobInv(j)'
<1>. USE DEF JobsInv, JobsTypeOK, JobInv, Moves, Writes, Unfinished, Idle, Live, ContextDone
<1>1. CASE Insert(j)
  BY <1>1 DEF Insert
<1>2. CASE CheckStatus(j)
  BY <1>2 DEF CheckStatus
<1>3. CASE Register(j)
  BY <1>3 DEF Register
<1>4. CASE MarkRunning(j)
  BY <1>4 DEF MarkRunning
<1>5. CASE WorkSucceeds(j)
  BY <1>5 DEF WorkSucceeds
<1>6. CASE WorkFails(j)
  BY <1>6 DEF WorkFails
<1>7. CASE Store(j)
  BY <1>7 DEF Store
<1>8. CASE Signal(j)
  BY <1>8 DEF Signal
<1>9. CASE MarkCancelled(j)
  BY <1>9 DEF MarkCancelled
<1>. QED
  BY <1>1, <1>2, <1>3, <1>4, <1>5, <1>6, <1>7, <1>8, <1>9 DEF JobStep

LEMMA JobsKept ==
    ASSUME JobsInv, NEW j \in Jobs, Insert(j) \/ CheckStatus(j) \/ JobStep(j)
    PROVE  JobsInv'
<1>1. JobsTypeOK' /\ JobInv(j)'
  BY JobsTypeKept, OwnJob
<1>2. ASSUME NEW k \in Jobs, k # j PROVE JobInv(k)'
  BY <1>2, OtherJobs DEF JobsInv, JobInv, Live, ContextDone
<1>. QED
  BY <1>1, <1>2 DEF JobsInv

\* The steps of the process.
LEMMA JobsSurvive ==
    ASSUME JobsInv,
           CancelManager \/ LoseManager \/ UNCHANGED jobVars \/
           (RecoverJobs /\ UNCHANGED <<work, jobCancelled, cancel, managerCancelled, earned>>)
    PROVE  JobsInv'
<1>. USE DEF JobsInv, JobsTypeOK, JobInv, Unfinished, Finished, Live, ContextDone
<1>1. CASE CancelManager
  BY <1>1 DEF CancelManager
<1>2. CASE LoseManager
  BY <1>2 DEF LoseManager, Idle
<1>3. CASE UNCHANGED jobVars
  BY <1>3 DEF jobVars, managerVars
<1>4. CASE RecoverJobs /\ UNCHANGED <<work, jobCancelled, cancel, managerCancelled, earned>>
  BY <1>4 DEF RecoverJobs
<1>. QED
  BY <1>1, <1>2, <1>3, <1>4
-----------------------------------------------------------------------------
(***************************************************************************)
(* Scheduled tasks: types.                                                 *)
(***************************************************************************)
TaskStatuses == {Absent, "active", "running", "paused", "done", "failed", "deleted"}
TaskRecord == [status : TaskStatuses, next : Nat, recurring : BOOLEAN]
DueRecord == [task : Tasks, next : Nat, recurring : BOOLEAN]
Execution == [task : Tasks, next : Nat, recurring : BOOLEAN, number : Nat,
              at : {"running", "done", "failed"}]

RowType == taskRow \in [Tasks -> TaskRecord]
LoopType ==
    /\ loop \in {"waiting", "over"}
    /\ due \subseteq DueRecord
    /\ loop = "over" => due = {}
    /\ schedulerCancelled \in BOOLEAN
ExecutionType ==
    /\ executions \subseteq Execution /\ IsFiniteSet(executions)
    /\ \A x, y \in executions : x.number = y.number => x = y
    /\ \A x \in executions : x.next <= now
HistoryType == now \in Nat /\ changes \in Nat /\ latest \in [Tasks -> Nat \cup {Nothing}]

TaskTypes == RowType /\ LoopType /\ ExecutionType /\ HistoryType

(***************************************************************************)
(* What relates the rows to the occurrences that were executed.  A row     *)
(* that will be dispatched names an occurrence after the latest one, and   *)
(* so does the list dispatchDue has read.                                  *)
(***************************************************************************)
RowInv(t) ==
    /\ taskRow[t].status = Absent => latest[t] = Nothing
    /\ taskRow[t].status = "active" => taskRow[t].next > latest[t]
    /\ taskRow[t].status = "paused" /\ ~Executing(t) => taskRow[t].next > latest[t]
    /\ latest[t] <= now

DueInv ==
    /\ \A d \in due : d.next > latest[d.task] /\ d.next <= now
    /\ \A d, e \in due : d.task = e.task => d = e

TasksInv == TaskTypes /\ (\A t \in Tasks : RowInv(t)) /\ DueInv

LEMMA InitTasks == TasksInit => TasksInv
<1>. SUFFICES ASSUME TasksInit PROVE TasksInv
  OBVIOUS
<1>1. TaskTypes
  BY FS_EmptySet DEF TasksInit, TaskTypes, RowType, LoopType, ExecutionType, HistoryType,
     NoTask, Absent, Nothing, TaskRecord, TaskStatuses
<1>. QED
  BY <1>1 DEF TasksInit, TasksInv, RowInv, DueInv, NoTask, Absent, Nothing

\* A number that no execution has: one of the first Cardinality(executions) + 1.
LEMMA FreeNumberIsFree ==
    ASSUME ExecutionType
    PROVE  FreeNumber \in Nat /\ \A x \in executions : x.number # FreeNumber
<1>. DEFINE Numbers == {x.number : x \in executions}
            Free == 1 .. Cardinality(executions) + 1
            f == [x \in executions |-> x.number]
<1>1. Cardinality(executions) \in Nat
  BY FS_CardinalityType DEF ExecutionType
<1>2. f \in Surjection(executions, Numbers)
  BY DEF Surjection
<1>3. IsFiniteSet(Numbers) /\ Cardinality(Numbers) <= Cardinality(executions)
  BY <1>2, FS_Surjection DEF ExecutionType
<1>4. Cardinality(Free) = Cardinality(executions) + 1
  BY <1>1, FS_Interval
<1>5. Cardinality(Numbers) \in Nat
  BY <1>3, FS_CardinalityType
<1>6. ~(Free \subseteq Numbers)
  <2>. HIDE DEF Free, Numbers
  <2>1. SUFFICES ASSUME Free \subseteq Numbers PROVE FALSE
    OBVIOUS
  <2>2. Cardinality(Free) <= Cardinality(Numbers)
    BY <2>1, <1>3, FS_Subset
  <2>. QED
    BY <2>2, <1>1, <1>3, <1>4, <1>5
<1>7. \E n \in Free : \A x \in executions : x.number # n
  BY <1>6
<1>. QED
  BY <1>1, <1>7 DEF FreeNumber

\* The first occurrence after now, found by division: it is an occurrence, and
\* none before it is after now.
LEMMA NextRunIsLater ==
    ASSUME HistoryType, NEW x \in Execution, x.next <= now
    PROVE  NextRun(x) \in Nat /\ NextRun(x) > now
<1>. DEFINE q == (now - x.next) \div Interval
            first == x.next + (q + 1) * Interval
            Later == {n \in Occurrences(x) : n > now}
<1>1. /\ now \in Nat /\ x.next \in Nat /\ Interval \in Nat /\ Interval >= 1
      /\ now - x.next \in Nat
  BY TasksAssumption DEF HistoryType, Execution
<1>2. /\ q \in Nat
      /\ q * Interval <= now - x.next
      /\ now - x.next < q * Interval + Interval
      /\ q <= now - x.next
  BY <1>1, Z3
<1>3. (q + 1) * Interval = q * Interval + Interval
  BY <1>1, <1>2, Z3
<1>4. first \in Later
  <2>. HIDE DEF q
  <2>1. q + 1 \in 1 .. now + 1
    BY <1>1, <1>2
  <2>2. first \in Nat /\ first > now
    BY <1>1, <1>2, <1>3
  <2>. QED
    BY <2>1, <2>2 DEF Occurrences
<1>5. ASSUME NEW n \in Later PROVE n \in Nat /\ first <= n
  <2>1. PICK k \in 1 .. now + 1 : n = x.next + k * Interval
    BY <1>5 DEF Occurrences
  <2>2. k * Interval \in Nat /\ n > now /\ k \in Nat
    BY <2>1, <1>1, <1>5
  <2>3. k > q
    <3>. HIDE DEF q
    <3>1. SUFFICES ASSUME k <= q PROVE FALSE
      BY <2>2, <1>2
    <3>2. k * Interval <= q * Interval
      BY <3>1, <2>2, <1>1, <1>2, Z3
    <3>. QED
      BY <3>2, <2>1, <2>2, <1>1, <1>2
  <2>4. k * Interval >= (q + 1) * Interval
    <3>. HIDE DEF q
    <3>1. k >= q + 1
      BY <2>3, <2>2, <1>2
    <3>. QED
      BY <3>1, <2>2, <1>1, <1>2, Z3
  <2>. QED
    BY <2>1, <2>2, <2>4, <1>1, <1>2, <1>3
<1>6. NextRun(x) \in Later
  <2>. HIDE DEF Later, first
  <2>1. \E n \in Later : \A m \in Later : n =< m
    BY <1>4, <1>5
  <2>. QED
    BY <2>1 DEF NextRun, Min, Later
<1>. QED
  BY <1>5, <1>6
-----------------------------------------------------------------------------
(***************************************************************************)
(* Scheduled tasks: steps.                                                 *)
(***************************************************************************)
LEMMA CreateInv ==
    ASSUME TasksInv, NEW t \in Tasks, Create(t)
    PROVE  TasksInv'
<1>. USE DEF TasksInv, Create
<1>1. PICK next \in now .. Horizon, recurring \in BOOLEAN :
        taskRow' = [taskRow EXCEPT ![t] = [status |-> "active", next |-> next, recurring |-> recurring]]
  OBVIOUS
<1>2. next \in Nat
  BY <1>1, TasksAssumption DEF TaskTypes, HistoryType
<1>3. TaskTypes'
  BY <1>1, <1>2 DEF TaskTypes, RowType, LoopType, ExecutionType, HistoryType, TaskRecord, TaskStatuses
<1>4. ASSUME NEW s \in Tasks PROVE RowInv(s)'
  BY <1>1, <1>2 DEF TaskTypes, RowType, RowInv, Executing, Nothing, Absent
<1>5. DueInv'
  BY DEF DueInv
<1>. QED
  BY <1>3, <1>4, <1>5

\* Activating a task that executes, or one that was over, is a new beginning.
LEMMA SetStatusInv ==
    ASSUME TasksInv, NEW t \in Tasks, NEW status \in {"active", "paused"}, SetStatus(t, status),
           taskRow[t].status = "running" => Executing(t)
    PROVE  TasksInv'
<1>. USE DEF TasksInv, SetStatus
<1>1. TaskTypes'
  BY DEF TaskTypes, RowType, LoopType, ExecutionType, HistoryType, TaskRecord, TaskStatuses, Nothing
<1>2. ASSUME NEW s \in Tasks PROVE latest'[s] <= latest[s] /\ latest[s] \in Int
  BY DEF TaskTypes, HistoryType, Nothing
<1>3. ASSUME NEW s \in Tasks, s # t PROVE RowInv(s)'
  BY <1>3 DEF TaskTypes, RowType, HistoryType, RowInv, Executing
<1>4. RowInv(t)'
  <2>1. /\ taskRow'[t].status = status /\ taskRow'[t].next = taskRow[t].next
        /\ taskRow[t].next \in Nat /\ taskRow[t].status \in TaskStatuses
    BY DEF TaskTypes, RowType, TaskRecord
  <2>2. Executing(t)' = Executing(t)
    BY DEF Executing
  <2>3. latest'[t] \in {latest[t], Nothing} /\ now' = now /\ now \in Nat
    BY DEF TaskTypes, HistoryType
  <2>4. CASE taskRow[t].status \in {"done", "failed"} \/ (status = "active" /\ Executing(t))
    <3>1. latest'[t] = Nothing
      BY <2>4 DEF TaskTypes, HistoryType
    <3>. QED
      BY <2>1, <2>3, <3>1 DEF RowInv, Nothing, Absent
  <2>5. CASE ~(taskRow[t].status \in {"done", "failed"} \/ (status = "active" /\ Executing(t)))
    <3>1. latest'[t] = latest[t]
      BY <2>5
    <3>2. CASE status = "active"
      <4>1. taskRow[t].next > latest[t]
        BY <3>2, <2>1, <2>5 DEF RowInv, TaskStatuses, Exists
      <4>. QED
        BY <4>1, <3>1, <3>2, <2>1, <2>3 DEF RowInv, Absent
    <3>3. CASE status = "paused"
      <4>1. ~Executing(t) => taskRow[t].next > latest[t]
        BY <3>3, <2>1, <2>5 DEF RowInv, TaskStatuses, Exists
      <4>. QED
        BY <4>1, <3>1, <3>3, <2>1, <2>2, <2>3 DEF RowInv, Absent
    <3>. QED
      BY <3>2, <3>3
  <2>. QED
    BY <2>4, <2>5
<1>5. DueInv'
  <2>1. \A d \in due : d.next \in Nat /\ d.task \in Tasks
    BY DEF TaskTypes, LoopType, DueRecord
  <2>. QED
    BY <1>2, <2>1 DEF DueInv, TaskTypes, HistoryType, Nothing
<1>. QED
  BY <1>1, <1>3, <1>4, <1>5

LEMMA DeleteInv ==
    ASSUME TasksInv, NEW t \in Tasks, Delete(t)
    PROVE  TasksInv'
<1>. USE DEF TasksInv, Delete
<1>1. TaskTypes'
  <2>1. [NoTask EXCEPT !.status = "deleted"] \in TaskRecord
    BY DEF NoTask, TaskRecord, TaskStatuses
  <2>2. RowType'
    BY <2>1 DEF TaskTypes, RowType
  <2>. QED
    BY <2>2 DEF TaskTypes, LoopType, ExecutionType, HistoryType
<1>2. ASSUME NEW s \in Tasks PROVE RowInv(s)'
  BY DEF TaskTypes, RowType, RowInv, Executing, NoTask, Absent
<1>3. DueInv'
  BY DEF DueInv
<1>. QED
  BY <1>1, <1>2, <1>3

LEMMA QueryInv ==
    ASSUME TasksInv, QueryDue
    PROVE  TasksInv'
<1>. USE DEF TasksInv, QueryDue
<1>1. PICK D \in SUBSET {t \in Tasks : Due(t)} :
        due' = {[task |-> d, next |-> taskRow[d].next, recurring |-> taskRow[d].recurring] : d \in D}
  OBVIOUS
<1>2. TaskTypes'
  <2>1. due' \subseteq DueRecord
    BY <1>1 DEF TaskTypes, RowType, TaskRecord, DueRecord
  <2>. QED
    BY <2>1 DEF TaskTypes, RowType, LoopType, ExecutionType, HistoryType
<1>3. ASSUME NEW s \in Tasks PROVE RowInv(s)'
  BY DEF RowInv, Executing
<1>4. DueInv'
  BY <1>1 DEF DueInv, RowInv, Due
<1>. QED
  BY <1>2, <1>3, <1>4

LEMMA DispatchInv ==
    ASSUME TasksInv, NEW d \in due, Dispatch(d)
    PROVE  TasksInv'
<1>1. d \in DueRecord /\ d.task \in Tasks /\ d.next \in Nat /\ d.recurring \in BOOLEAN
  BY DEF TasksInv, TaskTypes, LoopType, DueRecord
<1>2. CASE taskRow[d.task].status # "active"
  <2>1. UNCHANGED <<now, taskRow, loop, executions, schedulerCancelled, changes, latest>> /\ due' = due \ {d}
    BY <1>2 DEF Dispatch
  <2>2. TaskTypes'
    BY <2>1 DEF TasksInv, TaskTypes, RowType, LoopType, ExecutionType, HistoryType
  <2>3. ASSUME NEW s \in Tasks PROVE RowInv(s)'
    BY <2>1 DEF TasksInv, RowInv, Executing
  <2>. QED
    BY <2>1, <2>2, <2>3 DEF TasksInv, DueInv
<1>3. CASE taskRow[d.task].status = "active"
  <2>. DEFINE x == [task |-> d.task, next |-> d.next, recurring |-> d.recurring,
                    number |-> FreeNumber, at |-> "running"]
  <2>1. /\ due' = due \ {d}
        /\ taskRow' = [taskRow EXCEPT ![d.task].status = "running"]
        /\ executions' = executions \cup {x}
        /\ latest' = [latest EXCEPT ![d.task] = d.next]
        /\ UNCHANGED <<now, loop, schedulerCancelled, changes>>
    BY <1>3 DEF Dispatch, Launch
  <2>2. FreeNumber \in Nat /\ \A y \in executions : y.number # FreeNumber
    BY FreeNumberIsFree DEF TasksInv, TaskTypes
  <2>3. x \in Execution
    BY <1>1, <2>2 DEF Execution
  <2>4. RowType' /\ LoopType' /\ HistoryType'
    BY <1>1, <2>1 DEF TasksInv, TaskTypes, RowType, LoopType, HistoryType, TaskRecord, TaskStatuses
  <2>5. ExecutionType'
    <3>1. IsFiniteSet(executions')
      BY <2>1, FS_AddElement DEF TasksInv, TaskTypes, ExecutionType
    <3>2. x.next <= now /\ x.number = FreeNumber
      BY DEF TasksInv, DueInv
    <3>. HIDE DEF x
    <3>3. \A y \in executions' : y.next <= now'
      BY <3>2, <2>1 DEF TasksInv, TaskTypes, ExecutionType
    <3>4. \A y, z \in executions' : y.number = z.number => y = z
      BY <3>2, <2>1, <2>2 DEF TasksInv, TaskTypes, ExecutionType
    <3>. QED
      BY <3>1, <3>3, <3>4, <2>1, <2>3 DEF TasksInv, TaskTypes, ExecutionType
  <2>6. ASSUME NEW s \in Tasks, s # d.task PROVE RowInv(s)'
    BY <2>1, <2>6, <1>1 DEF TasksInv, TaskTypes, RowType, HistoryType, RowInv, Executing
  <2>7. RowInv(d.task)'
    BY <2>1, <1>1 DEF TasksInv, TaskTypes, RowType, HistoryType, RowInv, DueInv, Absent
  <2>8. DueInv'
    BY <2>1, <1>1 DEF TasksInv, TaskTypes, HistoryType, LoopType, DueRecord, DueInv
  <2>. QED
    BY <2>4, <2>5, <2>6, <2>7, <2>8 DEF TasksInv, TaskTypes
<1>. QED
  BY <1>2, <1>3

\* An execution moves on: it stays the execution of its task.
LEMMA ExecuteInv ==
    ASSUME TasksInv, NEW x \in executions, Execute(x)
    PROVE  TasksInv' /\ \A t \in Tasks : Executing(t)' = Executing(t)
<1>1. PICK at \in {"done", "failed"} : executions' = (executions \ {x}) \cup {[x EXCEPT !.at = at]}
  BY DEF Execute, Goes
<1>. DEFINE y == [x EXCEPT !.at = at]
<1>2. /\ y \in Execution /\ y.task = x.task /\ y.number = x.number /\ y.next = x.next
      /\ x \in Execution
  BY DEF TasksInv, TaskTypes, ExecutionType, Execution
<1>3. executions' = (executions \ {x}) \cup {y}
  BY <1>1
<1>. HIDE DEF y
<1>4. UNCHANGED <<now, taskRow, loop, due, schedulerCancelled, changes, latest>>
  BY DEF Execute
<1>5. ExecutionType'
  <2>1. IsFiniteSet(executions')
    BY <1>3, FS_AddElement, FS_RemoveElement DEF TasksInv, TaskTypes, ExecutionType
  <2>2. executions' \subseteq Execution
    BY <1>2, <1>3 DEF TasksInv, TaskTypes, ExecutionType
  <2>3. \A v \in executions' : v.next <= now'
    BY <1>2, <1>3, <1>4 DEF TasksInv, TaskTypes, ExecutionType
  <2>4. \A v, w \in executions' : v.number = w.number => v = w
    BY <1>2, <1>3 DEF TasksInv, TaskTypes, ExecutionType
  <2>. QED
    BY <2>1, <2>2, <2>3, <2>4 DEF ExecutionType
<1>6. ASSUME NEW t \in Tasks PROVE Executing(t)' = Executing(t)
  BY <1>2, <1>3 DEF Executing
<1>7. TaskTypes'
  BY <1>4, <1>5 DEF TasksInv, TaskTypes, RowType, LoopType, HistoryType
<1>8. ASSUME NEW t \in Tasks PROVE RowInv(t)'
  BY <1>4, <1>6 DEF TasksInv, RowInv
<1>9. DueInv'
  BY <1>4 DEF TasksInv, DueInv
<1>. QED
  BY <1>6, <1>7, <1>8, <1>9 DEF TasksInv
\* The end of an execution: the next occurrence is after everything executed.
LEMMA FinishInv ==
    ASSUME TasksInv, NEW x \in executions, Finish(x)
    PROVE  TasksInv'
<1>1. /\ x \in Execution /\ x.task \in Tasks /\ x.next \in Nat /\ x.next <= now
      /\ x.at \in {"done", "failed"} /\ x.recurring \in BOOLEAN
  BY DEF TasksInv, TaskTypes, ExecutionType, Execution, Finish
<1>2. NextRun(x) \in Nat /\ NextRun(x) > now
  BY <1>1, NextRunIsLater DEF TasksInv, TaskTypes
<1>3. executions' = executions \ {x} /\ UNCHANGED <<now, loop, due, schedulerCancelled, changes, latest>>
  BY DEF Finish
<1>4. ASSUME NEW t \in Tasks, t # x.task PROVE taskRow'[t] = taskRow[t]
  BY <1>4 DEF Finish, TasksInv, TaskTypes, RowType
<1>5. /\ taskRow'[x.task].status = "active" => taskRow'[x.task].next > now
      /\ taskRow'[x.task].status \notin {"paused", Absent} \/ taskRow'[x.task].status = taskRow[x.task].status
      /\ taskRow'[x.task].status # "paused"
  <2>1. CASE ~Exists(x.task)
    BY <2>1 DEF Finish, Exists, Absent
  <2>2. CASE Exists(x.task) /\ x.recurring
    BY <2>2, <1>1, <1>2 DEF Finish, TasksInv, TaskTypes, RowType, TaskRecord, Absent
  <2>3. CASE Exists(x.task) /\ ~x.recurring
    BY <2>3, <1>1 DEF Finish, TasksInv, TaskTypes, RowType, TaskRecord, Absent
  <2>. QED
    BY <2>1, <2>2, <2>3, <1>1
<1>6. TaskTypes'
  <2>1. RowType'
    BY <1>1, <1>2 DEF Finish, TasksInv, TaskTypes, RowType, TaskRecord, TaskStatuses
  <2>2. ExecutionType'
    BY <1>3, FS_RemoveElement DEF TasksInv, TaskTypes, ExecutionType
  <2>. QED
    BY <2>1, <2>2, <1>3 DEF TasksInv, TaskTypes, LoopType, HistoryType
<1>7. ASSUME NEW t \in Tasks, t # x.task PROVE RowInv(t)'
  <2>1. Executing(t)' = Executing(t)
    BY <1>7, <1>3 DEF Executing
  <2>. QED
    BY <1>7, <1>3, <1>4, <2>1 DEF TasksInv, RowInv
<1>8. RowInv(x.task)'
  <2>1. now \in Nat /\ latest[x.task] \in Int /\ latest[x.task] <= now
    BY <1>1 DEF TasksInv, TaskTypes, HistoryType, RowInv, Nothing
  <2>2. taskRow'[x.task].next \in Nat
    BY <1>1, <1>6 DEF TaskTypes, RowType, TaskRecord
  <2>. QED
    BY <1>1, <1>3, <1>5, <2>1, <2>2 DEF TasksInv, RowInv
<1>9. DueInv'
  BY <1>3 DEF TasksInv, DueInv
<1>. QED
  BY <1>6, <1>7, <1>8, <1>9 DEF TasksInv

\* The rest: time, and the process around the scheduler.
LEMMA PassInv ==
    ASSUME TasksInv, Pass
    PROVE  TasksInv'
<1>. USE DEF TasksInv, Pass, schedulerVars
<1>1. TaskTypes'
  BY DEF TaskTypes, RowType, LoopType, ExecutionType, HistoryType, Execution
<1>2. ASSUME NEW t \in Tasks PROVE RowInv(t)'
  BY DEF TaskTypes, HistoryType, RowInv, Executing, Nothing
<1>3. DueInv'
  BY DEF TaskTypes, LoopType, HistoryType, DueRecord, DueInv
<1>. QED
  BY <1>1, <1>2, <1>3

LEMMA SchedulerInv ==
    ASSUME TasksInv, EndLoop \/ CancelScheduler \/ UNCHANGED taskVars
    PROVE  TasksInv' /\ \A t \in Tasks : Executing(t)' = Executing(t)
<1>1. /\ UNCHANGED <<now, taskRow, due, executions, changes, latest>>
      /\ loop' = loop \/ (loop' = "over" /\ due = {})
      /\ schedulerCancelled' \in {schedulerCancelled, TRUE}
  BY DEF EndLoop, CancelScheduler, taskVars, schedulerVars
<1>2. TaskTypes'
  BY <1>1 DEF TasksInv, TaskTypes, RowType, LoopType, ExecutionType, HistoryType
<1>3. ASSUME NEW t \in Tasks PROVE RowInv(t)'
  BY <1>1 DEF TasksInv, RowInv, Executing
<1>4. DueInv'
  BY <1>1 DEF TasksInv, DueInv
<1>. QED
  BY <1>1, <1>2, <1>3, <1>4 DEF TasksInv, Executing

LEMMA LoseSchedulerInv ==
    ASSUME TasksInv, LoseScheduler
    PROVE  TasksInv'
<1>. USE DEF TasksInv, LoseScheduler
<1>1. TaskTypes'
  BY FS_EmptySet DEF TaskTypes, RowType, LoopType, ExecutionType, HistoryType, Nothing
<1>2. ASSUME NEW t \in Tasks PROVE RowInv(t)'
  <2>1. taskRow[t].next \in Nat /\ latest[t] \in Int /\ now \in Nat
    BY DEF TaskTypes, RowType, TaskRecord, HistoryType, Nothing
  <2>2. CASE Executing(t)
    <3>1. latest'[t] = Nothing
      BY <2>2
    <3>. QED
      BY <3>1, <2>1 DEF RowInv, Nothing
  <2>3. CASE ~Executing(t)
    <3>1. latest'[t] = latest[t]
      BY <2>3
    <3>. QED
      BY <3>1, <2>1, <2>3 DEF RowInv
  <2>. QED
    BY <2>2, <2>3
<1>3. DueInv'
  BY DEF DueInv
<1>. QED
  BY <1>1, <1>2, <1>3

LEMMA RecoverTasksInv ==
    ASSUME TasksInv, RecoverTasks,
           UNCHANGED <<now, loop, due, executions, schedulerCancelled, changes, latest>>,
           \A t \in Tasks : taskRow[t].status = "running" => latest[t] = Nothing
    PROVE  TasksInv'
<1>. USE DEF TasksInv, RecoverTasks
<1>1. TaskTypes'
  BY DEF TaskTypes, RowType, LoopType, ExecutionType, HistoryType, TaskRecord, TaskStatuses
<1>2. ASSUME NEW t \in Tasks PROVE RowInv(t)'
  <2>1. taskRow[t] \in TaskRecord /\ Executing(t)' = Executing(t)
    BY DEF TaskTypes, RowType, Executing
  <2>2. CASE taskRow[t].status = "running"
    BY <2>1, <2>2 DEF RowInv, TaskRecord, Nothing, Absent
  <2>3. CASE taskRow[t].status # "running"
    BY <2>1, <2>3 DEF RowInv
  <2>. QED
    BY <2>2, <2>3
<1>3. DueInv'
  BY DEF DueInv
<1>. QED
  BY <1>1, <1>2, <1>3
-----------------------------------------------------------------------------
(***************************************************************************)
(* The process around both.                                                *)
(***************************************************************************)
ProcessType ==
    /\ process \in {"up", "draining", "tasks", "jobs", "down"}
    /\ clean \in BOOLEAN /\ restarts \in 0 .. MaxRestarts
    /\ process # "up" => restarts < MaxRestarts
    /\ starter \in [Jobs -> Execution \cup {User}]

\* While the process lives, what a row calls unfinished or running is somebody's.
JobsOwned == \A j \in Jobs : jobRow[j] \in Unfinished => work[j] # "none"
TasksOwned == \A t \in Tasks : taskRow[t].status = "running" => Executing(t)

\* Who is in Start is a request or an execution, and after a shutdown that met
\* no deadline there are no requests, and later no executions.
StartersThere == \A j \in Jobs : work[j] = "inserted" => starter[j] \in executions \cup {User}
RequestsGone == \A j \in Jobs : ~(work[j] = "inserted" /\ starter[j] = User)

\* Memory is lost.
MemoryLost ==
    /\ \A j \in Jobs : work[j] = "none" /\ Idle(j)
    /\ executions = {} /\ due = {}
    /\ \A t \in Tasks : taskRow[t].status = "running" => latest[t] = Nothing

ProcessInv ==
    /\ ProcessType /\ StartersThere
    /\ process # "down" => JobsOwned /\ TasksOwned
    /\ clean /\ process \in {"tasks", "jobs"} => RequestsGone
    /\ clean /\ process = "jobs" => SchedulerDrained
    /\ process = "down" => MemoryLost
    /\ CleanExit

BackgroundInv == JobsInv /\ TasksInv /\ ProcessInv

LEMMA InitBackground == BackgroundInit => BackgroundInv
<1>. SUFFICES ASSUME BackgroundInit PROVE BackgroundInv
  OBVIOUS
<1>1. JobsInv /\ TasksInv
  BY InitJobs, InitTasks DEF BackgroundInit
<1>2. ProcessType
  BY RestartsAssumption DEF BackgroundInit, ProcessType
<1>3. StartersThere /\ JobsOwned /\ TasksOwned /\ CleanExit
  BY DEF BackgroundInit, JobsInit, TasksInit, StartersThere, JobsOwned, TasksOwned, CleanExit,
     Unfinished, NoTask, Absent
<1>. QED
  BY <1>1, <1>2, <1>3 DEF BackgroundInv, ProcessInv, BackgroundInit

\* An execution is not a request.
LEMMA UserIsNoExecution == User \notin Execution
<1>1. DOMAIN User = {"task"}
  BY DEF User
<1>2. ASSUME NEW x \in Execution PROVE "at" \in DOMAIN x
  BY DEF Execution
<1>. QED
  BY <1>1, <1>2

\* No step of a job that goes on leaves its row behind.
LEMMA JobsOwnedKept ==
    ASSUME JobsInv, JobsOwned, NEW j \in Jobs, Insert(j) \/ CheckStatus(j) \/ JobStep(j)
    PROVE  JobsOwned'
<1>1. ASSUME NEW k \in Jobs, k # j, jobRow'[k] \in Unfinished PROVE work'[k] # "none"
  BY <1>1, OtherJobs DEF JobsOwned
<1>2. ASSUME jobRow'[j] \in Unfinished PROVE work'[j] # "none"
  <2>. USE DEF JobsInv, JobsTypeOK, JobsOwned, Moves, Writes, Unfinished
  <2>1. CASE Insert(j)
    BY <2>1 DEF Insert
  <2>2. CASE CheckStatus(j)
    BY <2>2, <1>2 DEF CheckStatus
  <2>3. CASE Register(j) \/ MarkRunning(j) \/ WorkSucceeds(j) \/ WorkFails(j)
    BY <2>3 DEF Register, MarkRunning, WorkSucceeds, WorkFails
  <2>4. CASE Store(j)
    BY <2>4, <1>2 DEF Store
  <2>5. CASE Signal(j)
    BY <2>5, <1>2 DEF Signal
  <2>6. CASE MarkCancelled(j)
    BY <2>6, <1>2 DEF MarkCancelled
  <2>. QED
    BY <2>1, <2>2, <2>3, <2>4, <2>5, <2>6 DEF JobStep
<1>. QED
  BY <1>1, <1>2 DEF JobsOwned

\* Only Insert brings somebody into Start.
LEMMA NobodyEnters ==
    ASSUME JobsInv, NEW j \in Jobs, CheckStatus(j) \/ JobStep(j), NEW k \in Jobs, work'[k] = "inserted"
    PROVE  work[k] = "inserted"
<1>. USE DEF JobsInv, JobsTypeOK, Moves
<1>1. CASE k # j
  BY <1>1, OtherJobs
<1>2. CASE k = j
  <2>1. CASE CheckStatus(j)
    BY <2>1, <1>2 DEF CheckStatus
  <2>2. CASE Register(j) \/ MarkRunning(j) \/ WorkSucceeds(j) \/ WorkFails(j) \/ Store(j)
    BY <2>2, <1>2 DEF Register, MarkRunning, WorkSucceeds, WorkFails, Store
  <2>3. CASE Signal(j) \/ MarkCancelled(j)
    BY <2>3, <1>2 DEF Signal, MarkCancelled
  <2>. QED
    BY <2>1, <2>2, <2>3 DEF JobStep
<1>. QED
  BY <1>1, <1>2

(***************************************************************************)
(* Steps that start, cancel and carry on jobs.                             *)
(***************************************************************************)
LEMMA UserStartsInv ==
    ASSUME BackgroundInv, NEW j \in Jobs, UserStarts(j)
    PROVE  BackgroundInv'
<1>. USE DEF BackgroundInv, UserStarts, processVars
<1>1. process # "down" /\ (clean => process = "up")
  BY DEF Serving, ProcessInv, ProcessType
<1>2. JobsInv' /\ JobsOwned'
  BY <1>1, JobsKept, JobsOwnedKept DEF ProcessInv
<1>3. TasksInv' /\ \A t \in Tasks : Executing(t)' = Executing(t)
  BY SchedulerInv
<1>4. ProcessType'
  BY DEF ProcessInv, ProcessType
<1>5. StartersThere'
  BY DEF ProcessInv, ProcessType, StartersThere, Insert, Moves, JobsInv, JobsTypeOK, taskVars, schedulerVars
<1>6. TasksOwned'
  BY <1>1, <1>3 DEF ProcessInv, TasksOwned, taskVars, schedulerVars
<1>. QED
  BY <1>1, <1>2, <1>3, <1>4, <1>5, <1>6 DEF ProcessInv, CleanExit

LEMMA RunStartsInv ==
    ASSUME BackgroundInv, NEW j \in Jobs, RunStarts(j)
    PROVE  BackgroundInv'
<1>. USE DEF BackgroundInv, RunStarts, processVars
<1>1. PICK x \in executions : starter' = [starter EXCEPT ![j] = x]
  OBVIOUS
<1>2. x \in Execution /\ x # User
  BY UserIsNoExecution DEF TasksInv, TaskTypes, ExecutionType
<1>3. process # "down" /\ ~(clean /\ process = "jobs")
  BY <1>1 DEF ProcessInv, MemoryLost, SchedulerDrained
<1>4. JobsInv' /\ JobsOwned'
  BY <1>3, JobsKept, JobsOwnedKept DEF ProcessInv
<1>5. TasksInv' /\ \A t \in Tasks : Executing(t)' = Executing(t)
  BY SchedulerInv
<1>6. ProcessType'
  BY <1>1, <1>2 DEF ProcessInv, ProcessType
<1>7. StartersThere'
  BY <1>1 DEF ProcessInv, ProcessType, StartersThere, Insert, Moves, JobsInv, JobsTypeOK, taskVars, schedulerVars
<1>8. TasksOwned'
  BY <1>3, <1>5 DEF ProcessInv, TasksOwned, taskVars, schedulerVars
<1>9. RequestsGone => RequestsGone'
  BY <1>1, <1>2 DEF ProcessInv, ProcessType, RequestsGone, Insert, Moves, JobsInv, JobsTypeOK
<1>. QED
  BY <1>3, <1>4, <1>5, <1>6, <1>7, <1>8, <1>9 DEF ProcessInv, CleanExit

LEMMA UserCancelsInv ==
    ASSUME BackgroundInv, NEW j \in Jobs, UserCancels(j)
    PROVE  BackgroundInv'
<1>. USE DEF BackgroundInv, UserCancels, processVars
<1>1. process # "down" /\ (clean => process = "up")
  BY DEF Serving, ProcessInv, ProcessType
<1>2. JobsInv' /\ JobsOwned'
  BY <1>1, JobsKept, JobsOwnedKept DEF ProcessInv
<1>3. TasksInv' /\ \A t \in Tasks : Executing(t)' = Executing(t)
  BY SchedulerInv
<1>4. ProcessType' /\ StartersThere'
  BY DEF ProcessInv, ProcessType, StartersThere, CheckStatus, taskVars, schedulerVars
<1>5. TasksOwned'
  BY <1>1, <1>3 DEF ProcessInv, TasksOwned, taskVars, schedulerVars
<1>. QED
  BY <1>1, <1>2, <1>3, <1>4, <1>5 DEF ProcessInv, CleanExit

LEMMA JobGoesOnInv ==
    ASSUME BackgroundInv, NEW j \in Jobs, JobGoesOn(j)
    PROVE  BackgroundInv'
<1>. USE DEF BackgroundInv, JobGoesOn, processVars
<1>1. process # "down"
  <2>1. SUFFICES ASSUME process = "down" PROVE FALSE
    OBVIOUS
  <2>2. work[j] = "none" /\ Idle(j)
    BY <2>1 DEF ProcessInv, MemoryLost
  <2>. QED
    BY <2>2 DEF JobStep, Register, MarkRunning, WorkSucceeds, WorkFails, Store, Signal, MarkCancelled, Idle
<1>2. JobsInv' /\ JobsOwned'
  BY <1>1, JobsKept, JobsOwnedKept DEF ProcessInv
<1>3. TasksInv' /\ \A t \in Tasks : Executing(t)' = Executing(t)
  BY SchedulerInv
<1>4. ProcessType'
  BY DEF ProcessInv, ProcessType
<1>5. ASSUME NEW k \in Jobs, work'[k] = "inserted"
      PROVE  work[k] = "inserted" /\ starter'[k] = starter[k]
  BY <1>5, NobodyEnters DEF ProcessInv, ProcessType
<1>6. StartersThere' /\ (RequestsGone => RequestsGone')
  BY <1>5 DEF ProcessInv, StartersThere, RequestsGone, taskVars, schedulerVars
<1>7. TasksOwned'
  BY <1>1, <1>3 DEF ProcessInv, TasksOwned, taskVars, schedulerVars
<1>8. SchedulerDrained' = SchedulerDrained
  BY DEF SchedulerDrained, taskVars, schedulerVars
<1>. QED
  BY <1>1, <1>2, <1>3, <1>4, <1>6, <1>7, <1>8 DEF ProcessInv, CleanExit
(***************************************************************************)
(* Steps of requests, the loop, executions and time.                       *)
(***************************************************************************)
LEMMA JobsStill ==
    ASSUME BackgroundInv, UNCHANGED jobVars
    PROVE  JobsInv' /\ (JobsOwned => JobsOwned')
<1>1. JobsInv'
  BY JobsSurvive DEF BackgroundInv
<1>. QED
  BY <1>1 DEF JobsOwned, jobVars, managerVars

LEMMA UserChangesInv ==
    ASSUME BackgroundInv, NEW t \in Tasks, UserChanges(t)
    PROVE  BackgroundInv'
<1>. USE DEF BackgroundInv, UserChanges, processVars
<1>1. process # "down" /\ (clean => process = "up")
  BY DEF Serving, ProcessInv, ProcessType
<1>2. JobsInv' /\ JobsOwned'
  BY <1>1, JobsStill DEF ProcessInv
<1>3. TasksInv'
  <2>1. taskRow[t].status = "running" => Executing(t)
    BY <1>1 DEF ProcessInv, TasksOwned
  <2>. QED
    BY <2>1, CreateInv, SetStatusInv, DeleteInv DEF ChangeTask
<1>4. UNCHANGED <<loop, due, executions>>
  BY DEF Create, ChangeTask, SetStatus, Delete
<1>5. ASSUME NEW s \in Tasks, taskRow'[s].status = "running" PROVE taskRow[s].status = "running"
  <2>. USE DEF TasksInv, TaskTypes, RowType, TaskRecord
  <2>1. CASE Create(t)
    BY <2>1, <1>5 DEF Create
  <2>2. CASE SetStatus(t, "active") \/ SetStatus(t, "paused")
    BY <2>2, <1>5 DEF SetStatus
  <2>3. CASE Delete(t)
    BY <2>3, <1>5 DEF Delete, NoTask
  <2>. QED
    BY <2>1, <2>2, <2>3 DEF ChangeTask
<1>6. TasksOwned'
  BY <1>1, <1>4, <1>5 DEF ProcessInv, TasksOwned, Executing
<1>7. ProcessType' /\ StartersThere'
  BY <1>4 DEF ProcessInv, ProcessType, StartersThere, jobVars, managerVars
<1>. QED
  BY <1>1, <1>2, <1>3, <1>6, <1>7 DEF ProcessInv, CleanExit

\* What a step of the scheduler leaves to show: its own part, that running
\* tasks are executed, and that whoever waits in Start stays.
LEMMA SchedulerGoesOn ==
    ASSUME BackgroundInv, UNCHANGED <<jobVars, processVars, starter>>, process # "down",
           TasksInv', TasksOwned', StartersThere',
           SchedulerDrained => SchedulerDrained'
    PROVE  BackgroundInv'
<1>. USE DEF BackgroundInv, processVars
<1>1. JobsInv' /\ JobsOwned'
  BY JobsStill DEF ProcessInv
<1>2. ProcessType' /\ (RequestsGone => RequestsGone')
  BY DEF ProcessInv, ProcessType, RequestsGone, jobVars, managerVars
<1>. QED
  BY <1>1, <1>2 DEF ProcessInv, CleanExit

LEMMA LoopGoesOnInv ==
    ASSUME BackgroundInv, LoopGoesOn
    PROVE  BackgroundInv'
<1>. USE DEF BackgroundInv, LoopGoesOn
<1>1. TasksOwned
  BY DEF ProcessInv
<1>2. CASE QueryDue
  <2>1. TasksInv' /\ TasksOwned' /\ StartersThere' /\ (SchedulerDrained => SchedulerDrained')
    BY <1>1, <1>2, QueryInv DEF QueryDue, TasksOwned, Executing, ProcessInv, StartersThere,
       SchedulerDrained, jobVars, managerVars
  <2>. QED
    BY <2>1, SchedulerGoesOn
<1>3. ASSUME NEW d \in due, Dispatch(d) PROVE BackgroundInv'
  <2>1. TasksInv'
    BY <1>3, DispatchInv
  <2>2. \/ UNCHANGED <<taskRow, executions>>
        \/ /\ taskRow' = [taskRow EXCEPT ![d.task].status = "running"]
           /\ executions \subseteq executions' /\ \E x \in executions' : x.task = d.task
    <3>1. CASE taskRow[d.task].status = "active"
      <4>. DEFINE x == [task |-> d.task, next |-> d.next, recurring |-> d.recurring,
                        number |-> FreeNumber, at |-> "running"]
      <4>1. /\ taskRow' = [taskRow EXCEPT ![d.task].status = "running"]
            /\ executions' = executions \cup {x}
        BY <1>3, <3>1 DEF Dispatch, Launch
      <4>2. x.task = d.task
        OBVIOUS
      <4>. QED
        BY <4>1, <4>2
    <3>. QED
      BY <1>3, <3>1 DEF Dispatch
  <2>3. TasksOwned'
    BY <1>1, <2>2 DEF TasksInv, TaskTypes, RowType, TasksOwned, Executing
  <2>4. StartersThere'
    BY <2>2 DEF ProcessInv, StartersThere, jobVars, managerVars
  <2>5. ~SchedulerDrained
    BY <1>3 DEF SchedulerDrained, TasksInv, TaskTypes, LoopType
  <2>. QED
    BY <2>1, <2>3, <2>4, <2>5, SchedulerGoesOn
<1>4. CASE EndLoop
  <2>1. TasksInv' /\ \A t \in Tasks : Executing(t)' = Executing(t)
    BY <1>4, SchedulerInv
  <2>2. TasksOwned' /\ StartersThere' /\ (SchedulerDrained => SchedulerDrained')
    BY <1>1, <1>4, <2>1 DEF EndLoop, TasksOwned, ProcessInv, StartersThere, SchedulerDrained,
       jobVars, managerVars
  <2>. QED
    BY <2>1, <2>2, SchedulerGoesOn
<1>. QED
  BY <1>2, <1>3, <1>4 DEF LoopStep

\* An execution that waits in Start does not move, so the starter of a job
\* that is being inserted is not the one that does.
LEMMA ExecutionGoesOnInv ==
    ASSUME BackgroundInv, ExecutionGoesOn
    PROVE  BackgroundInv'
<1>. USE DEF BackgroundInv, ExecutionGoesOn
<1>1. PICK x \in executions : ~Starting(x) /\ ExecutionStep(x)
  OBVIOUS
<1>2. process # "down" /\ TasksOwned
  BY <1>1 DEF ProcessInv, MemoryLost
<1>3. executions \ {x} \subseteq executions' /\ ~SchedulerDrained
  BY <1>1 DEF ExecutionStep, Execute, Finish, Goes, SchedulerDrained
<1>4. StartersThere'
  BY <1>1, <1>3 DEF ProcessInv, StartersThere, Starting, jobVars, managerVars
<1>5. CASE Execute(x)
  <2>1. TasksInv' /\ \A t \in Tasks : Executing(t)' = Executing(t)
    BY <1>5, ExecuteInv
  <2>2. TasksOwned'
    BY <1>2, <1>5, <2>1 DEF TasksOwned, Execute
  <2>. QED
    BY <1>2, <1>3, <1>4, <2>1, <2>2, SchedulerGoesOn
<1>6. CASE Finish(x)
  <2>1. TasksInv'
    BY <1>6, FinishInv
  <2>2. x.task \in Tasks /\ x.at # "running"
    BY <1>6 DEF TasksInv, TaskTypes, ExecutionType, Execution, Finish
  <2>3. taskRow'[x.task].status # "running"
    <3>1. CASE ~Exists(x.task)
      BY <1>6, <3>1 DEF Finish, Exists, Absent
    <3>2. CASE Exists(x.task)
      BY <1>6, <2>2, <3>2 DEF Finish, TasksInv, TaskTypes, RowType, TaskRecord
    <3>. QED
      BY <3>1, <3>2
  <2>4. ASSUME NEW t \in Tasks, t # x.task PROVE taskRow'[t] = taskRow[t] /\ Executing(t)' = Executing(t)
    BY <1>6, <2>4 DEF Finish, TasksInv, TaskTypes, RowType, Executing
  <2>5. TasksOwned'
    BY <1>2, <2>3, <2>4 DEF TasksOwned
  <2>. QED
    BY <1>2, <1>3, <1>4, <2>1, <2>5, SchedulerGoesOn
<1>. QED
  BY <1>1, <1>5, <1>6 DEF ExecutionStep

LEMMA TimePassesInv ==
    ASSUME BackgroundInv, TimePasses
    PROVE  BackgroundInv'
<1>. USE DEF BackgroundInv, TimePasses, processVars
<1>1. JobsInv' /\ (JobsOwned => JobsOwned')
  BY JobsStill
<1>2. TasksInv'
  BY PassInv
<1>3. UNCHANGED <<jobVars, taskRow, loop, due, executions, latest, process, clean, starter, restarts>>
  BY DEF Pass, schedulerVars
<1>4. (TasksOwned => TasksOwned') /\ ProcessType' /\ StartersThere' /\ (RequestsGone => RequestsGone')
  BY <1>3 DEF TasksOwned, Executing, ProcessInv, ProcessType, StartersThere, RequestsGone, jobVars, managerVars
<1>5. (SchedulerDrained => SchedulerDrained') /\ (MemoryLost => MemoryLost') /\ CleanExit'
  BY <1>3 DEF SchedulerDrained, MemoryLost, Idle, CleanExit, ProcessInv, jobVars, managerVars
<1>. QED
  BY <1>1, <1>2, <1>3, <1>4, <1>5 DEF ProcessInv
(***************************************************************************)
(* Steps of the process.                                                   *)
(***************************************************************************)
LEMMA StopServingInv ==
    ASSUME BackgroundInv, StopServing
    PROVE  BackgroundInv'
<1>. USE DEF BackgroundInv, StopServing
<1>1. JobsInv' /\ (JobsOwned => JobsOwned')
  BY JobsStill
<1>2. TasksInv' /\ \A t \in Tasks : Executing(t)' = Executing(t)
  BY SchedulerInv
<1>3. (TasksOwned => TasksOwned') /\ StartersThere' /\ ProcessType'
  BY <1>2 DEF TasksOwned, ProcessInv, ProcessType, StartersThere, jobVars, managerVars, taskVars, schedulerVars
<1>. QED
  BY <1>1, <1>2, <1>3 DEF ProcessInv, CleanExit

LEMMA StopTasksInv ==
    ASSUME BackgroundInv, StopTasks
    PROVE  BackgroundInv'
<1>. USE DEF BackgroundInv, StopTasks, Proceeds
<1>1. JobsInv' /\ (JobsOwned => JobsOwned')
  BY JobsStill
<1>2. TasksInv' /\ \A t \in Tasks : Executing(t)' = Executing(t)
  BY SchedulerInv
<1>3. (TasksOwned => TasksOwned') /\ StartersThere' /\ ProcessType'
  BY <1>2 DEF CancelScheduler, TasksOwned, ProcessInv, ProcessType, StartersThere, jobVars, managerVars
<1>4. clean' => RequestsGone'
  BY DEF RequestsDrained, RequestsGone, ProcessInv, ProcessType, jobVars, managerVars
<1>. QED
  BY <1>1, <1>2, <1>3, <1>4 DEF ProcessInv, CleanExit

LEMMA StopJobsInv ==
    ASSUME BackgroundInv, StopJobs
    PROVE  BackgroundInv'
<1>. USE DEF BackgroundInv, StopJobs, Proceeds
<1>1. JobsInv'
  BY JobsSurvive
<1>2. TasksInv' /\ \A t \in Tasks : Executing(t)' = Executing(t)
  BY SchedulerInv
<1>3. (JobsOwned => JobsOwned') /\ (TasksOwned => TasksOwned') /\ StartersThere' /\ ProcessType'
  BY <1>2 DEF CancelManager, JobsOwned, TasksOwned, ProcessInv, ProcessType, StartersThere, taskVars, schedulerVars
<1>4. clean' => clean /\ SchedulerDrained' /\ RequestsGone'
  BY DEF CancelManager, SchedulerDrained, RequestsGone, ProcessInv, ProcessType, taskVars, schedulerVars
<1>. QED
  BY <1>1, <1>2, <1>3, <1>4 DEF ProcessInv, CleanExit

\* Whatever the process was doing, what is left is consistent.
LEMMA MemoryIsLost ==
    ASSUME BackgroundInv, LoseMemory, process # "down", process' = "down", clean' \in BOOLEAN,
           restarts < MaxRestarts
    PROVE  /\ JobsInv' /\ TasksInv' /\ ProcessType' /\ StartersThere' /\ MemoryLost'
           /\ UNCHANGED <<jobRow, taskRow>>
<1>. USE DEF BackgroundInv, LoseMemory
<1>1. JobsInv' /\ TasksInv'
  BY JobsSurvive, LoseSchedulerInv
<1>2. ProcessType'
  BY DEF ProcessInv, ProcessType
<1>3. MemoryLost'
  <2>1. ASSUME NEW t \in Tasks, taskRow'[t].status = "running" PROVE latest'[t] = Nothing
    BY <2>1 DEF LoseScheduler, ProcessInv, TasksOwned
  <2>. QED
    BY <2>1 DEF LoseManager, LoseScheduler, Idle, MemoryLost
<1>. QED
  BY <1>1, <1>2, <1>3 DEF LoseManager, LoseScheduler, StartersThere

LEMMA ExitInv ==
    ASSUME BackgroundInv, Exit
    PROVE  BackgroundInv'
<1>1. /\ process = "jobs" /\ process' = "down" /\ clean' \in BOOLEAN
      /\ clean' => clean /\ ManagerDrained
      /\ LoseMemory
  <2>1. clean \in BOOLEAN
    BY DEF BackgroundInv, ProcessInv, ProcessType
  <2>2. CASE ManagerDrained
    BY <2>1, <2>2 DEF Exit, Proceeds
  <2>3. CASE ~ManagerDrained
    BY <2>1, <2>3 DEF Exit, Proceeds
  <2>. QED
    BY <2>2, <2>3
<1>2. /\ JobsInv' /\ TasksInv' /\ ProcessType' /\ StartersThere' /\ MemoryLost'
      /\ UNCHANGED <<jobRow, taskRow>>
  BY <1>1, MemoryIsLost DEF BackgroundInv, ProcessInv, ProcessType
<1>3. ASSUME clean' PROVE /\ \A j \in Jobs : jobRow[j] \notin Unfinished
                          /\ \A t \in Tasks : taskRow[t].status # "running"
  <2>1. executions = {} /\ RequestsGone /\ JobsOwned /\ TasksOwned
    BY <1>1, <1>3 DEF BackgroundInv, ProcessInv, SchedulerDrained
  <2>2. ASSUME NEW j \in Jobs PROVE jobRow[j] \notin Unfinished
    <3>1. work[j] # "inserted" /\ ~Live(j)
      BY <1>1, <1>3, <2>1 DEF BackgroundInv, ProcessInv, StartersThere, RequestsGone, ManagerDrained
    <3>. QED
      BY <2>1, <3>1 DEF BackgroundInv, JobsInv, JobsTypeOK, JobsOwned, Live
  <2>. QED
    BY <2>1, <2>2 DEF TasksOwned, Executing
<1>. QED
  BY <1>1, <1>2, <1>3 DEF BackgroundInv, ProcessInv, CleanExit

LEMMA CrashInv ==
    ASSUME BackgroundInv, Crash
    PROVE  BackgroundInv'
<1>1. /\ process # "down" /\ process' = "down" /\ clean' = FALSE /\ LoseMemory
      /\ restarts < MaxRestarts
  BY DEF Crash
<1>. QED
  BY <1>1, MemoryIsLost DEF BackgroundInv, ProcessInv, CleanExit

\* The rows are repaired: nothing that is unfinished was left to anybody.
LEMMA RestartInv ==
    ASSUME BackgroundInv, Restart
    PROVE  BackgroundInv'
<1>. USE DEF BackgroundInv, Restart
<1>1. MemoryLost
  BY DEF ProcessInv
<1>2. JobsInv' /\ TasksInv'
  BY <1>1, JobsSurvive, RecoverTasksInv DEF MemoryLost
<1>3. ProcessType' /\ StartersThere'
  BY RestartsAssumption DEF ProcessInv, ProcessType, StartersThere
<1>4. JobsOwned'
  BY DEF JobsOwned, RecoverJobs, Unfinished
<1>5. TasksOwned'
  BY DEF TasksOwned, RecoverTasks, TasksInv, TaskTypes, RowType, TaskRecord
<1>. QED
  BY <1>2, <1>3, <1>4, <1>5 DEF ProcessInv, CleanExit
-----------------------------------------------------------------------------
(***************************************************************************)
(* Theorems.                                                               *)
(***************************************************************************)
LEMMA StepInv ==
    ASSUME BackgroundInv, [BackgroundNext]_backgroundVars
    PROVE  BackgroundInv'
<1>1. CASE UNCHANGED backgroundVars
  <2>1. JobsInv' /\ TasksInv'
    BY <1>1, JobsSurvive, SchedulerInv DEF BackgroundInv, backgroundVars
  <2>2. UNCHANGED <<jobRow, work, cancel, taskRow, executions, due, loop, latest, process, clean, restarts, starter>>
    BY <1>1 DEF backgroundVars, jobVars, managerVars, taskVars, schedulerVars, processVars
  <2>3. ProcessInv'
    BY <2>2 DEF BackgroundInv, ProcessInv, ProcessType, StartersThere, JobsOwned, TasksOwned, Executing,
       RequestsGone, SchedulerDrained, MemoryLost, Idle, CleanExit
  <2>. QED
    BY <2>1, <2>3 DEF BackgroundInv
<1>2. ASSUME NEW j \in Jobs, UserStarts(j) \/ RunStarts(j) \/ UserCancels(j) \/ JobGoesOn(j)
      PROVE  BackgroundInv'
  BY <1>2, UserStartsInv, RunStartsInv, UserCancelsInv, JobGoesOnInv
<1>3. ASSUME NEW t \in Tasks, UserChanges(t) PROVE BackgroundInv'
  BY <1>3, UserChangesInv
<1>4. CASE LoopGoesOn \/ ExecutionGoesOn \/ TimePasses
  BY <1>4, LoopGoesOnInv, ExecutionGoesOnInv, TimePassesInv
<1>5. CASE StopServing \/ StopTasks \/ StopJobs \/ Exit \/ Crash \/ Restart
  BY <1>5, StopServingInv, StopTasksInv, StopJobsInv, ExitInv, CrashInv, RestartInv
<1>. QED
  BY <1>1, <1>2, <1>3, <1>4, <1>5 DEF BackgroundNext

LEMMA InvHolds == BackgroundSpec => []BackgroundInv
BY InitBackground, StepInv, PTL DEF BackgroundSpec

\* Rows, goroutines, requests and executions are where the code can have them,
\* and no two executions are the same.
THEOREM BackgroundTypes == BackgroundSpec => []BackgroundTypeOK
<1>1. BackgroundInv => BackgroundTypeOK
  BY DEF BackgroundInv, JobsInv, TasksInv, TaskTypes, RowType, TaskRecord, TaskStatuses, LoopType,
     ExecutionType, Execution, ProcessInv, ProcessType, BackgroundTypeOK, TasksTypeOK
<1>. QED
  BY <1>1, InvHolds, PTL

\* The row of a job tells what happened, whichever of run and Cancel wrote last.
THEOREM RowsTruthful == BackgroundSpec => []JobsTruthful
<1>1. BackgroundInv => JobsTruthful
  BY DEF BackgroundInv, JobsInv, JobInv, JobsTruthful
<1>. QED
  BY <1>1, InvHolds, PTL

\* After Cancel has returned, the context of a live job is cancelled.
THEOREM CancelSignals == BackgroundSpec => []CancelIsSignalled
<1>1. BackgroundInv => CancelIsSignalled
  BY DEF BackgroundInv, JobsInv, JobInv, CancelIsSignalled
<1>. QED
  BY <1>1, InvHolds, PTL

\* The ordered shutdown of the process leaves no unfinished row.
THEOREM ExitIsClean == BackgroundSpec => []CleanExit
<1>1. BackgroundInv => CleanExit
  BY DEF BackgroundInv, ProcessInv
<1>. QED
  BY <1>1, InvHolds, PTL

\* A running task always has an execution that finishes it.
THEOREM TasksAreOwned == BackgroundSpec => []NoTaskLeftBehind
<1>1. BackgroundInv => NoTaskLeftBehind
  BY DEF BackgroundInv, ProcessInv, TasksOwned, NoTaskLeftBehind
<1>. QED
  BY <1>1, InvHolds, PTL

\* A scheduled occurrence is executed once, and in order.
THEOREM OccurrencesOnce == BackgroundSpec => OccurrenceOnce
<1>. DEFINE Later == \A x \in executions' \ executions : x.at = "running" => x.next > latest[x.task]
<1>1. BackgroundInv /\ [BackgroundNext]_backgroundVars => [Later]_taskVars
  <2>. SUFFICES ASSUME BackgroundInv, BackgroundNext, NEW x \in executions' \ executions, x.at = "running"
                PROVE  x.next > latest[x.task]
    BY DEF backgroundVars
  <2>1. CASE LoopGoesOn
    <3>1. PICK d \in due : Dispatch(d) /\ taskRow[d.task].status = "active"
      BY <2>1 DEF LoopGoesOn, LoopStep, QueryDue, EndLoop, Dispatch
    <3>. DEFINE y == [task |-> d.task, next |-> d.next, recurring |-> d.recurring,
                      number |-> FreeNumber, at |-> "running"]
    <3>2. executions' = executions \cup {y}
      BY <3>1 DEF Dispatch, Launch
    <3>3. x.next = d.next /\ x.task = d.task
      BY <3>2
    <3>. QED
      BY <3>1, <3>3 DEF BackgroundInv, TasksInv, DueInv
  <2>2. CASE ExecutionGoesOn
    <3>1. PICK y \in executions : Execute(y) \/ Finish(y)
      BY <2>2 DEF ExecutionGoesOn, ExecutionStep
    <3>2. PICK at \in {"done", "failed"} : x = [y EXCEPT !.at = at]
      BY <3>1 DEF Execute, Finish, Goes
    <3>3. y \in Execution
      BY DEF BackgroundInv, TasksInv, TaskTypes, ExecutionType
    <3>4. x.at = at
      BY <3>2, <3>3 DEF Execution
    <3>. QED
      BY <3>4
  <2>3. CASE LoseMemory
    BY <2>3 DEF LoseMemory, LoseScheduler
  <2>4. CASE UNCHANGED executions
    BY <2>4
  <2>. QED
    BY <2>1, <2>2, <2>3, <2>4 DEF BackgroundNext, UserStarts, RunStarts, UserCancels, JobGoesOn, UserChanges,
       Create, ChangeTask, SetStatus, Delete, TimePasses, Pass, StopServing, StopTasks, StopJobs, Exit, Crash,
       Restart, CancelScheduler, taskVars, schedulerVars
<1>. QED
  BY <1>1, InvHolds, PTL DEF BackgroundSpec, OccurrenceOnce

\* A pause is undone by the user or by an execution that was under way only.
THEOREM PausesHold == BackgroundSpec => PauseHolds
<1>. DEFINE Held == \A t \in Tasks :
                      /\ taskRow[t].status = "paused" /\ taskRow'[t].status # "paused"
                      => changes' # changes \/ (Executing(t) /\ executions' # executions)
<1>1. BackgroundInv /\ [BackgroundNext]_backgroundVars => [Held]_taskVars
  <2>. SUFFICES ASSUME BackgroundInv, BackgroundNext, NEW t \in Tasks,
                       taskRow[t].status = "paused", taskRow'[t].status # "paused", changes' = changes
                PROVE  Executing(t) /\ executions' # executions
    BY DEF backgroundVars
  <2>1. ASSUME NEW s \in Tasks, UserChanges(s) PROVE FALSE
    <3>1. CASE Create(s)
      BY <2>1, <3>1 DEF Create, BackgroundInv, TasksInv, TaskTypes, RowType, Absent
    <3>2. CASE ChangeTask(s)
      <4>1. changes' = changes + 1 /\ changes \in Nat
        BY <3>2 DEF ChangeTask, SetStatus, Delete, BackgroundInv, TasksInv, TaskTypes, HistoryType
      <4>. QED
        BY <4>1
    <3>. QED
      BY <2>1, <3>1, <3>2 DEF UserChanges
  <2>2. CASE LoopGoesOn
    <3>1. PICK d \in due : Dispatch(d) /\ taskRow[d.task].status = "active"
      BY <2>2 DEF LoopGoesOn, LoopStep, QueryDue, EndLoop, Dispatch
    <3>2. taskRow' = [taskRow EXCEPT ![d.task].status = "running"] /\ d.task # t
      BY <3>1 DEF Dispatch
    <3>. QED
      BY <3>2 DEF BackgroundInv, TasksInv, TaskTypes, RowType
  <2>3. CASE ExecutionGoesOn
    <3>1. PICK x \in executions : Execute(x) \/ Finish(x)
      BY <2>3 DEF ExecutionGoesOn, ExecutionStep
    <3>2. Finish(x)
      BY <3>1 DEF Execute
    <3>3. x.task = t
      BY <3>2 DEF Finish, BackgroundInv, TasksInv, TaskTypes, RowType
    <3>. QED
      BY <3>2, <3>3 DEF Finish, Executing
  <2>4. CASE Restart
    BY <2>4 DEF Restart, RecoverTasks
  <2>5. CASE UNCHANGED taskRow
    BY <2>5
  <2>. QED
    BY <2>1, <2>2, <2>3, <2>4, <2>5 DEF BackgroundNext, UserStarts, RunStarts, UserCancels, JobGoesOn,
       TimePasses, Pass, StopServing, StopTasks, StopJobs, Exit, Crash, LoseMemory, LoseScheduler,
       CancelScheduler, taskVars, schedulerVars
<1>. QED
  BY <1>1, InvHolds, PTL DEF BackgroundSpec, PauseHolds
=============================================================================
