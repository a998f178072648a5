# OmniLLM-Studio: a verification project

TLA+ models of the stateful parts of OmniLLM-Studio, checked with TLC and, where
noted, proved with TLAPS.  Paths are relative to the repository; `sandbox/` stands
for `backend/internal/sandbox/`, `B/` for `backend/internal/`.

## 1. The system

A Go backend (HTTP API over SQLite, also embedded in a Wails desktop application), a
React frontend, and a separate sandbox host (`backend/cmd/sandboxd`).  Most of the
backend is request handling: read rows, call a provider, write rows.  The logic that
is hard to get right is in the parts that keep running after a request returns.

| Component | State | Operations | What makes it correct |
|---|---|---|---|
| Durable sandbox task queue (`sandbox/task_queue.go`, `task_recovery.go`) | tables `sandbox_tasks`, `sandbox_task_attempts` | Enqueue, Claim (with reclaim of expired leases), Renew, BindRuntime, BindRuntimeAssociation, Complete, clear association | one owner per lease; the two tables agree; finished rows never change; work that is not idempotent is never replayed; no retry while a runtime is recorded |
| Task worker and executor (`sandbox/task_worker.go`, `task_executor.go`) | place of each worker loop, heartbeat, recovery pass | Start, run, RunOne, Shutdown | the predecessor's runtime is gone before a retry; a success was earned; every task is finished in the end |
| Sandbox Broker (`sandbox/broker.go`, `broker_restore.go`) | in-memory session map with TTLs | Create, Exec, Cancel, Destroy, DestroyRecordedRuntime, RestoreSession | a session is used by its owner before its TTL only; recovery can destroy what the map forgot |
| Sandbox runtime host (`sandbox/local_runtime_*.go`, `http_runtime.go`, `cmd/sandboxd`) | sessions, active executions, TTL timers | Create, Exec, Cancel, Destroy, timer | after a confirmed Destroy nothing of the session runs |
| Video render scheduler (`B/video/render_scheduler.go`) | queue, counters per user and workspace, registered cancel functions | Render, cancel, worker, Shutdown | limits hold, no lost wake-up, no render for a caller that left, one place per request |
| Video export jobs (`B/video/service.go:1540-1800`, `render_recovery.go`) | rows of `video_render_jobs`, export assets, cancel functions | StartRender, the job's goroutine, CancelRenderJob, delete, Shutdown, recovery | a final row stays, one export per job, a cancellation stops the render |
| Agent runner (`B/agent/runner.go`) | `agent_runs`, `agent_steps`, run contexts and their approval channels | Start, Resume, Pause, Cancel, ApproveStep, replan, recovery | a completed run has no unsettled step, checkpoints are kept, no run is left behind |
| Background jobs (`B/jobs/manager.go`) | rows of `agent_jobs`, contexts | Start, run, Cancel, Shutdown, recovery | the row tells what happened, a cancellation is signalled |
| Scheduled tasks (`B/tasks/scheduler.go`) | rows of `scheduled_tasks`, running executions | create, activate, pause, delete, dispatch, execute, finish, recovery | an occurrence is executed once, a pause holds, what is due gets its turn |
| Tool executor and approval broker (`B/tools`) | pending approvals, their channels, policies, replay cache | Execute, ExecuteApproved, Request, Resolve, answer handler | a tool runs as the user answered, once, and never against a standing denial |
| MCP client, plugins (`B/mcpclient`, `B/plugins`) | connections, child processes | connect, call, reconnect, close | answers go to their request, no leaked process |
| RAG and file library (`B/rag`, `B/filelibrary`) | indexing status, chunks | index, reindex, delete | an index matches its file |
| Workspace journal, credentials, network grants (`sandbox/`) | journal files, grants | mutate, revert, grant, revoke | a revert restores exactly what was recorded |
| Video projects and editor (`B/video`, `frontend/src/video`) | timelines, undo stack | edit commands, autosave | undo restores, versions do not regress |
| API, auth, repositories, providers, search, music, sports, ... | rows, caches | CRUD and provider calls | mostly sequential request handling |

How they meet in the core: the API (or an agent) enqueues a task; a worker of the
control-plane process claims it, creates a session through the Broker over HTTP on the
sandbox host, records session and runtime in the row, executes, destroys the session and
completes the row.  The host knows nothing of tasks and survives the process; the row
survives both.  `api/router.go:228-249` and `cmd/server/main.go:43-53` (or
`cmd/desktop/main.go`) each start a worker, so two loops share queue and Broker.

Around that core, in the control-plane process:

- An **agent run** calls models and tools; a tool whose policy is `ask` sends it through
  the approval of the runner, a chat call through the approval broker.
- A **scheduled task** is an agent run started by the clock, and tools of an agent run
  (`image_generate`, `music_generate`, ...) start **background jobs**.  The process stops
  in the order requests, scheduled tasks, jobs (`api/router.go:403-406`).
- An **export job** is a goroutine that asks the **render scheduler** for a slot.  The row of
  the job survives the process, the queue of the scheduler does not.

The hard behaviours are listed at their lines in `PROJECT.json` under `hazards`:
recovery against renewal, crashes between two writes of which one is remote, lost
answers, destruction racing with execution, TTLs, failing cleanups, two workers.

## 2. Modules

| Module | Models | Role |
|---|---|---|
| `SandboxRuns` | names of tasks, attempts and runs | shared constants |
| `SandboxTaskQueue` | the two tables and their transactions | detailed model of the queue, and at the same time the specification the composition implements |
| `SandboxRuntime` | sessions and executions of one host | actions without a specification of their own |
| `SandboxTasks` | workers, Broker, queue, host, faults | composition; implements `QueueSpec` |
| `RenderAdmission` | what the render scheduler promises about admission | abstract specification |
| `RenderScheduler` | callers, queue, counters, workers, delegates | implements `RenderAdmission` |
| `RenderJobs` | rows and goroutines of export jobs around the scheduler | extends `RenderScheduler` |
| `AgentRun` | one agent run: rows, executors, requests, restart | stands alone |
| `JobsManager` | background jobs | part of `BackgroundWork` |
| `ScheduledTasks` | scheduled tasks and their executions | part of `BackgroundWork` |
| `BackgroundWork` | the process around both, its ordered shutdown and restart | composition |
| `ToolApprovals` | executor, broker, answers, policies, replay cache | stands alone |
| `MC...` | | TLC instances |
| `SandboxTaskQueueProofs`, `SandboxTasksProofs`, `SandboxCleanupProofs`, `BackgroundWorkProofs`, `ToolApprovalsProofs`, `RenderSchedulerProofs`, `RenderJobsProofs`, `AgentRunProofs` | | theorems (section 4) |

A definition whose comment begins with "Variant" is a plausible bug in the definition
after it; no specification uses it.  It is there to show that the properties of the runs
notice such a change.

### Sandbox tasks

**State and code.** `task[t]` is a row of `sandbox_tasks`, `attempt[<<t, n>>]` the status of
its n-th row in `sandbox_task_attempts`.  A lease token is fresh for every claim, so the
attempt number stands for token, owner, execution id, session and runtime of that claim
(a *run* `<<t, n>>`).  One SQL transaction is one action.  The status `leased` is written
and overwritten inside the transaction of Claim and never seen outside.  The status
`cancelled` is declared (`task_queue.go:21`) and never written.  Time is a lease that is
`live` or `expired`.

`sess` and `proc` are the runtime's sessions and executions.  `Exec` is three actions
(look up; register and start; end), because the code releases its mutex in between;
`Destroy` is two (cancel and mark; wait and delete).  `DestroyWaits` selects the platform.
`proc` keeps the outcome of a process, so that "what was recorded" can be compared with
"what happened".

`pc[w]` is the place of worker `w` between two calls of `CleanupExpiredRuntimeAssociations`
and `RunOne`.  `todo[w]` is the slice the recovery pass listed.  `unrenewed[w]` stands for the
comparison of the lease with the pass's own `now` (`task_recovery.go:115`, `:155`): a renewal in
between takes the task out of it.  `mapped` is the Broker's map, `overdue` the sessions past
their TTL.  The heartbeat is an action of its own that may happen any number of times
during `Exec`.

**Abstracted.** Request contents, owners (every call of the executor passes the
owner of the row), capability checks, outputs and error texts.  `Outcomes` tells apart
only a success (`ok`), a success whose result is above the 2 MiB a row may hold (`big`,
`task_queue.go:403`) and an error.  `BindRuntime` has no caller outside tests; it is in the
queue's model and in its proofs, and the workers do not call it.

### Video rendering

**Scheduler.** One action per critical section of `s.mu`, per `select`, and per step of the
delegate, which runs in a goroutine of its own.  `place[w]` is a worker; `asleep` is
`cond.Wait`, and `Broadcast` wakes all of them.  `caller[r]` is the place of a caller in
`Render`, `result[r]` the channel of capacity one, to which a second send is dropped.
`active`, `activeByUser` and `activeByWorkspace` are the counters as the code keeps them.
`activeCancels` and `stopped` are the registered cancel functions and the contexts
they cancelled.  The grace period of a cancelled delegate ends in `GraceEnds` (it
returned) or `GraceExpires` (it did not; `Stubborn` are the requests for which that may
happen).  The stall timer is an interruption that may come at any time.

**Admission.** `RenderAdmission` knows only sets: waiting, running, over.  A request is
admitted when it is the best of those that fit, and "fits" counts the running requests
themselves.  The refinement maps `running` to the requests the workers serve.  Thereby it
says that the counters are right, that nothing is admitted twice or after its
withdrawal, and that the order is that of priority and ticket.

**Export jobs.** `row[j]` is the row, each SQL update with its `WHERE` clause (`MarkRunning`,
`MarkCompleted`, `MarkFailed`); `job[j]` the goroutine; `exports[j]` the assets that name the
job.  The process ends at any moment: the scheduler's state is reset, the rows stay,
and recovery fails what was running and launches what was queued.  `MarkRunning` and
the check for a cancellation after it are two steps, since `CancelRenderJob` writes the
row and cancels the context without a common lock.

### Agent run

`status`, `hasPlan` and `rows` are the tables.  An executor (`exec[e]`, a goroutine in `StartRun`
or `ResumeRun`) keeps the list of database writes it is about to make in `todo` and performs
them one by one, so that requests, other executors and the end of the process come
between any two of them.  `steps` and `index` are the slice it has loaded and its position:
it works from its own copy.  `inbox[e]` is the approval channel of capacity one,
`registered` the entry in `Runner.runs`; a request (`user[u]`) reads, sends and writes in
steps of its own.  A parallel group is the set `busy` of its members still running.
Kinds of steps are `work`, `read` (parallel), `asks` (a tool whose policy is `ask`) and
`approval`.  Outputs, history, budgets (one cause of a failing step), conversation
messages and events are left out, and so are database statements that fail.  `stored` and `overlapped`
are history variables.

### Background work

`JobsManager`: the INSERT and the registration in `m.live` are two steps; `MarkRunning`
writes the row without looking at it; `Cancel` reads the status, cancels the context and
writes the row in three steps.  `earned` remembers which work returned without an error.

`ScheduledTasks`: `due` is the result of the query that `dispatchDue` goes through; a
`Dispatch` is the conditional UPDATE and the goroutine; `Finish` writes status and
`next_run_at` from what the execution captured, with the catch-up over missed
occurrences.  An agent run is a call that returns a run or an error.

`BackgroundWork` puts both into one process: requests and agent runs start jobs; the
shutdown goes `draining`, `tasks`, `jobs`, `down`, each step when there is nothing more to wait for
or at its deadline (which `clean` records); a crash is possible at any moment; memory
is lost and the rows are repaired at the next start.

### Tool approvals

`Execute` is a sequence of places of `call[c]`: replay cache, policy, question, policy again,
run.  How it asks is the call's `Mode`: `inline` waits in the broker, `out_of_band` leaves a
pending entry for the request that answers it to run (`ExecuteApproved`), `handler` is an
agent's call, whose own approval is in `AgentRun`.  `pending[c]` is the broker's entry,
`decision[c]` its channel, `answer[a]` a request to `POST approvals/{id}`: it reads the entry,
then resolves it, then may run the tool, with other requests in between.  `policy` changes
at any time.  `cache` holds identities; `CallId` leaves the arguments out as the code does, and
`Deferred` calls (children of `tool_invoke`) share one id.  Time is a flag per entry (`late`),
set at any moment: the order in which entries become overdue is not that of their
creation, which allows more than the code does.  Edited arguments of a rejection go
nowhere and are not distinguished.  `ran`, `done`, `repeated` and `barred` are history variables.
Which tools exist and what they do is external; a side effect is a run of the tool.

## 3. Runs

| Run | Instance | Shows |
|---|---|---|
| `tasks` | 1 task, 2 attempts, 2 workers, 2 faults, all outcomes, `DestroyWaits` | predecessor gone before a retry; an acting process is recorded; successes are earned; the two tables agree; no replay; the composition implements the queue |
| `tasks_live` | 1 worker, 3 attempts, 2 faults, fairness | every queued task is finished |
| `linux_overlap` | `DestroyWaits = FALSE` | finding 1 |
| `two_workers` | 2 workers | finding 2 |
| `render` | 3 requests, 2 workers, 1 cancellation, a shutdown | no lost wake-up, no render for a caller that left, delegates bounded, admission refined |
| `jobs` | 1 job, 1 worker, 3 restarts, fairness | final rows stay, one export, cancellation reaches the delegate, every job settles |
| `jobs_restart` | 2 jobs, 1 worker, 1 restart | finding 3 |
| `agent` | plans of one or two steps of every kind, 2 executors, 1 request, 1 restart, fairness | checkpoints are kept, steps of a completed run are marked completed or skipped (and done, in a process that never ended), nobody left behind, sessions end |
| `agent_pause` | 1 step, 1 request, nothing else fails | finding 4 |
| `background` | 1 job, 2 tasks, 1 change, 1 restart, fairness | rows tell the truth, cancellation is signalled, clean exit, occurrences once, pauses hold, everything settles |
| `approvals` | a chat call beside its repetition, a manual call or an agent's call; 2 answers, 1 change of policy, cache of 1, fairness | tools run once, as answered, never against a standing denial; answers take effect |
| `approvals_invoke` | 2 calls through `tool_invoke` | finding 5 |

The properties of the queue on its own (any caller at any time, more tasks and attempts)
have no run: they are theorems for every number of tasks and attempts (section 4), and
`tasks` shows that the composition is a `QueueSpec`.  The same holds for the cleanup properties
with more tasks, workers and faults, and for the safety of the other passing runs with more jobs,
calls, requests, plans and executors, in any number of restarts and changes.

**Bounds.**

- *Sandbox tasks.* `NumTasks` and `MaxAttempts` bound what the code leaves unbounded; a worker that
  would claim beyond `MaxAttempts` passes on.  Two attempts are the smallest number with
  a predecessor and a retry; the three of `tasks_live` add a retry of a retry.
  Two workers are what the composition starts.  `MaxFaults` bounds crashes, shutdowns,
  renewals that fail or come too late, failed transactions, elapsed TTLs, unconfirmed
  cleanups and host restarts; two allow a fault during the recovery from a fault.  Not counted, because
  the code may meet them at any time: refused or lost Create, Exec and Destroy calls,
  expiry of a lease nobody attends to, a crash while the process is going down anyway.
- *Rendering.* Three requests, two of which share a user and two a workspace, one with
  precedence: the smallest instance where a limit holds one request back while a later one
  passes.  The limits are 1, so the second request of a user meets them.  The delegate's
  result plays no part in the scheduler and is one value in `render`; `jobs` has both.
  `MaxCancels` bounds cancelled contexts.  `MaxRestarts` of 3 lets a job be queued,
  running and finished at a restart, in any order.
- *Agent run.* Plans of up to two steps, repaired by plans of one; a failing step is tried
  twice.  Two sessions are what an overlap needs.  `SmallOverlap` keeps overlapping resumes to
  runs of an approval step in a process that was not interrupted.  `OnlyStopsEndCalls` confines `agent_pause`
  to behaviours in which no deadline passes and a call fails only when a stop ended it; `PauseHolds`
  looks at runs that have their steps, although a pause while the plan is made can be overwritten
  as well (`failRun`).
- *Background work.* Two tasks with `Limit` 1 is where one could be passed over for ever;
  `Horizon` 1 has an occurrence and the one after it, and a catch-up.  `TwoAtOnce` has a job beside a task,
  with a restart, or two tasks without.
- *Approvals.* Two answers to one request; `CacheLimit` 1 makes every second entry empty the
  cache.  `Apart` has one other call beside the chat call, and lets `a1` be the first to look (the
  answers are alike).  The policy of the tool with side effects starts anywhere.

Worker symmetry is used in safety runs only.  Deadlock is checked in the sandbox runs, whose
workers and users can always go on, and in the approvals runs, where it can tell little (listing
the approvals is always possible).  It is not checked where the system really stops: a drained
scheduler, settled rows with no restart to come, a finished run.

**Fairness.**  Only what the code's scheduling justifies; faults, users and crashes owe
nothing.

- `tasks_live`: weak fairness of each worker's next step, of the runtime's
  executions (every one has a wall timeout, `local_runtime_linux.go:227-238`), of the restart by a
  supervisor, and of the expiry of an unattended lease (time passes).  Two limits are explicit:
  the run uses one worker, since with two the recovery passes can go on ending one
  another (finding 2), and leaves out `big`, since an idempotent task with such a result is
  repeated for ever.
- `jobs`: the goroutine of the job, the recovery loop, the caller of `Render`, each
  worker, the delegate (FFmpeg ends, or the stall timer ends it), the steps of a
  shutdown that has begun (it has a deadline), and the restart.
- `agent`: each executor's next step (calls of models and tools have timeouts and obey the
  context) and the deadline of its run, which is what ends a wait for an approval nobody answers.
- `background`: the jobs, the loop (a ticker) and the executions, the steps of a shutdown that
  has begun, and the restart.
- `approvals`: goroutines that can go on, and a tool that runs returns at the latest with its
  context.  Nobody has to answer, to look or to leave; a call whose approval is overdue waits
  until its client leaves, so nothing is claimed about it.

## 4. Proofs

`SandboxTaskQueueProofs` proves, for all `NumTasks` and `MaxAttempts`, the four invariants and the two
action properties of the queue (`QueueTypeOK`, `LedgerConsistent`, `NeverReplayed`, `AssociationCurrent`,
`HistoryIsFinal`, `RetryNeedsCleanRow`), from `RunsAssumption` alone.  None of the invariants is
inductive alone: that a stale `Complete` cannot touch another attempt needs the ledger,
the ledger needs the lease and association discipline, and replay denial needs both.
`QueueInv` is their conjunction with the types; `TaskInv(t)` is the same for one task.
Every action changes one task (`TaskUntouched` covers the others), except Claim, whose
reclaim touches all expired ones.  The step lemma has one step per action; the temporal
theorems follow by PTL.  The action properties are proved from `QueueInv`.

`SandboxTasksProofs` does the same for the composition, for any set of workers and any
number of faults (`TasksAssumption`, `RuntimeAssumption`).  `Typed` adds to `TypeOK` that a worker
at the place of a run holds one (`JobHeld`); without it the queue operations the worker calls could
not be matched with `CallerStep`.  `StepIsQueueStep` then matches every action with a step of the
queue or a stutter, so `QueueInv` carries over and `Spec => QueueSpec` follows.

`SandboxCleanupProofs` proves, where `DestroyWaits` (Windows, macOS), `PredecessorGone`,
`ExecutionRecorded` and `NoLiveOverlap`, the last of which the run `linux_overlap` refutes for
Linux.  None of them is inductive: a worker that is about to call `Exec` when its lease runs out
has not executed anything yet, but will.  `CleanupInv` therefore speaks of runs that are `Bound`
(executed, or their worker is about to).  Per run (`RunInv`): a bound run of the
current attempt is recorded or its session is gone; a bound run of an older attempt, or of a
requeued task, has a session that is gone; recorded runs have a session.  Per worker (`WorkerInv`): what a
recovery pass lists exists, one run per task, and is on its way out or gone at the places after its
destruction.  Per execution (`ExecInv`): only a session that still exists runs anything,
which is what a Destroy that does not wait breaks.  Sessions only move on (`Onward`), so a
worker keeps what it knows whatever others do (`WorkerKept`), and only Bind, Clear and the
hand-outs of the queue need an argument of their own.  `SuccessIsEarned` is proved for every
platform from what a worker holds between Create and Complete (`EarnedAt`).

`BackgroundWorkProofs` proves the safety of jobs and scheduled tasks for any sets of them, any
interval, any limit of the query and any number of restarts (`TasksAssumption`, `RestartsAssumption`):
`BackgroundTypeOK`, `JobsTruthful`, `CancelIsSignalled`, `CleanExit`, `NoTaskLeftBehind`, `OccurrenceOnce`
and `PauseHolds`.  `BackgroundInv` has three parts.

- *`JobInv(j)`* ties a row to its goroutine and to the request that cancels it.  That a cancelled job
  was signalled needs to know that a request which found the job between INSERT and
  registration is remembered as one that missed it, and that a job without a row has no request.
- *`TasksInv`*: a row that is active, or paused without an execution, names an occurrence after the
  latest one executed, and so does every entry of the list `dispatchDue` has read.  `OccurrenceOnce`
  follows.  What keeps it is that `Finish` moves on to an occurrence after `now` (`NextRunIsLater`, by
  division: the first occurrence after `now` is among those the catch-up looks at), while
  everything executed is at or before `now`.
- *`ProcessInv`*: while the process lives, unfinished rows have a goroutine and running rows an
  execution; after a phase of the shutdown that met no deadline, whoever could start something
  is gone.  `CleanExit` needs all of it: an execution that waits in `Start` stays until it has returned,
  so when the scheduler is drained nobody is left in `Start`.

`ToolApprovalsProofs` proves, for any calls, answers, policies and size of the cache
(`ApprovalsAssumption`), `ApprovalsTypeOK`, `RunsAsAnswered`, `SideEffectsOnce`, `RepeatsAreReplayed`,
`DenialHolds` and `NoAnswerAfterReturn`.  `ApprovalsInv` says of a call (`CallInv`) that at the places before
its run, and while its question is open, nothing ran and there is no decision; of an accepted answer
(`AnswerInv`) that its question is settled, that the decision is its own, and that a call
which goes on to run has the arguments it approved; and that one answer per call is
accepted (`OneAnswer`).  Without the first, an answer taken when the wait had just ended
could not be excluded.  `Quiet(c)` covers the steps that leave a call alone but for the
expiry of its entry.

`RenderSchedulerProofs` proves, for any requests, workers, limits and cancellations
(`RenderAssumption`: finite sets, a worker, positive limits, a `None` that is no request), `RenderTypeOK`,
`NoLostWakeup`, `NoGhostRender`, `DelegatesBounded` and the refinement `ImplementsAdmission`.
`RenderInv` is about who owns what.

- *Slots.* No two workers serve one request, and the three counters, which the code adds to and
  subtracts from by hand, are the numbers of the requests served (`CounterInv`).  That the
  abstract `Fits` and the code's test of its counters agree, hence every admission step of the
  refinement, and that `active` never exceeds the workers, rest on it.
- *Sleepers.* While a worker sleeps nothing is eligible and the scheduler is open (`SleepInv`).
  It is kept because each step that makes something eligible wakes everybody, and the others
  only shrink the set: a worker that takes a request does not lift a limit.
- *Results.* A request is undecided, with an empty channel, until one of admission, withdrawal,
  shutdown or its worker decides it (`ResultInv`); a delegate that runs for nobody was told to
  stop (`DelegateInv`).  Without the first, a second result could be sent and a caller
  that left could still be served.

The steps shown to keep `RenderInv` are those of the scheduler and two more: any set of contexts is
cancelled at once, and the state is reset.  `RenderJobsProofs` needs no other: whatever rows and
goroutines do, the scheduler sees one of these (`SchedulerKept`), so its promises hold through
restarts (`SchedulerSurvives`).  `JobsInv` adds that a goroutine enters `Render` once in the life of a
process, that only the user touches a row while a goroutine has the job, that a job with an
export is past every place that could store another, and that a cancelled row whose
goroutine renders has its context cancelled or a handler about to do so.  `JobsTypeOK`,
`ExportedOnce`, `CancelReachesDelegate` and `FinalRowsStay` follow for any number of jobs and restarts.

`AgentRunProofs` proves the safety of agent runs for any plans, repairs, executors, requests,
retries and restarts (`AgentAssumption`), in two invariants.

- *`RunInv`* holds of every run, with any overlap of calls.  Its heart is `CarryInv`: while the run
  shows as planning or running, some executor still owes a status (`Owes`).  An executor that has
  reached its deferred calls owes only what is left in `todo`, and none of that is `running`.
  `AgentTypeOK` and `NobodyLeftBehind` follow.
- *`SoloInv`* holds while no resume overlapped another call; then at most one executor is at work.
  It relates the executor's copy of the steps to the rows.  The rows are at
  positions 1, 2, ... (`PosInv`), so the n-th of the copy is the row at position n (`Loaded`;
  `ListingInOrder`, by counting the rows before a row).  What the executor passed is settled, or the
  statement that settles it comes next (`Passed`); what it still writes concerns the step behind it or
  the one it is at (`Writing`).  A row whose success was stored stays completed (`StoredInv`),
  and the executor loaded it as settled if it is still ahead (`Storing`); a row that shows as
  completed was done unless the next statement undoes it (`Doing`), which is what
  `UpdateOutput` followed by `failed` needs.  `CompletedMeansSettled`, `CheckpointsAreKept` and
  `PassedMeansDone` follow; that a step was done (`DoneInv`), while the process has not ended.

Every statement on the database is an action there, so each of these parts is needed at some
point between two statements.  A replan deletes rows and gives out new ids and positions; that the
positions are successive again is a count (`RowsBelow`, `FreshRows`), as is the end of a parallel
group (`GroupsAreIntervals`).  `Ordered(x)` collects what is said of an executor; steps that
change no table are covered by `QuietMove`, the others by `MoveKeepsRunInv` and `SoloMove`.

Only model-checked: all liveness (`EventuallySettled`, `EveryJobSettles`, `SessionsEnd`, `JobsSettle`,
`DueIsDispatched`, `AnswersTakeEffect`: fairness and ENABLED are outside the prover's reach), and the
findings.

## 5. Findings

1. **A retry can overlap its predecessor on Linux** (`linux_overlap`).  `Exec` looks the session
   up, later registers its execution, and does not look again; `Destroy` does not wait.
2. **Two workers where one is documented** (`two_workers`).  Their recovery passes and
   heartbeats make one another fail, which ends the process.
3. **Queued exports do not survive a restart** (`jobs_restart`).  The goroutine of a job marks it
   running before it asks for a slot, so a job that only waits is failed by the next start;
   the comment of the recovery says that queued work survives.
4. **A paused run can end as failed** (`agent_pause`).  The pause marks the row and ends the call of the
   step in progress; `failStepAndRun` then writes `failed` over `paused`, and a failed run cannot be
   resumed.
5. **A second side effect through `tool_invoke` is answered from the cache**
   (`approvals_invoke`).  Its children share the id `tool-invoke-child`, and the key of the replay
   cache leaves the arguments out: the second call of a message gets the first one's
   result, nobody is asked, and nothing happens.

Hazards, or parts of them, that no property covers, and why:

- a result above 2 MiB (`task_queue.go:403`): modelled, but `MaxAttempts` cuts the repetition off;
- a row with a runtime but no session (`task_queue.go:351`): `BindRuntime` has no caller, so only
  the queue's own theorems speak of it;
- a second answer to an approval left in the channel (`agent/runner.go:577`): needs two requests at
  once and two approvals in a plan, where the run has one;
- a crash between the first two statements of `failStepAndRun` (`agent/runner.go:792`): the resume takes
  the failed step for completed, and the run completes.  The model has it, so
  `CompletedMeansSettled` and `PassedMeansDone` say that a step was done only while `restarts = 0`; the run
  `agent` refutes either without that condition;
- a run that waits for an approval when the process ends (`agent/runner.go:77`): it keeps its
  status and nobody executes it until it is resumed, and nothing in the repository says otherwise;
- a crash between plan and steps (`agent/runner.go:230`): the resume completes a run with no step;
- a one-time task that a shutdown interrupted is `done` (`tasks/scheduler.go:294`): the run's own
  status is abstracted there;
- an occurrence whose execution a restart cut off is executed again (`tasks/scheduler.go:82`): the code
  does so on purpose, and `OccurrenceOnce` leaves it out;
- a delegate that ignores its cancellation beyond the grace period (`video/render_scheduler.go:389`) runs
  on while its slot is free: `Stubborn` requests are exempt from `DelegatesBounded` and
  `CancelReachesDelegate`;
- an answer accepted between the moment a call gives up and `expire()` (`tools/approval_broker.go:128`) is
  lost: `NoAnswerAfterReturn` begins when the call has returned;
- two calls with one id in flight (`tools/executor.go:93`), and an overdue approval that keeps
  its call waiting (`tools/approval_broker.go:104`): no statement of the code promises more.

## 6. Plan

Done: sandbox tasks, rendering, export jobs, agent runs, background work and tool approvals, each
checked and its safety proved.  Next, in this order:

1. `WorkspaceJournal`: mutate and revert with crashes between file and journal writes.
2. MCP sessions and plugin processes: answers to their requests, restart of a dead child.

## 7. Not modelled

- *Workspace journal, credentials, network grants, MCP, plugins*: stateful, and next in the
  plan after the proofs.
- *RAG and file library, workflows of music, sports, templates, evaluation*: pipelines of SQL and
  provider calls, one at a time per row.
- *Providers, search, URL context*: protocols and parsing, no state of their own.
- *Video projects, timeline, media computation; frontend*: transformation of data, and React
  components and stores.
- *HTTP API, repositories, authentication, configuration*: request handling over SQL; the
  calls of handlers into the modelled components are actions there.
- *Browser automation, Git, extension processes, desktop shell, deployment*: effects of
  the operating system and of other programs.

Inside the modelled parts: process confinement, output limits, disk preflight beyond its
refusal, file clean-up, progress and stage texts, prompts and plan contents, ownership and scopes,
batches, truncation and events.
