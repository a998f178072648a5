------------------------ MODULE SandboxCleanupProofs ------------------------
(***************************************************************************)
(* Cleanup before replay, proved for any number of tasks, attempts,        *)
(* workers and faults on the platforms whose Destroy waits for the         *)
(* processes of its session (Windows, macOS).                              *)
(*                                                                         *)
(* The inductive invariant has three parts beside the types and QueueInv:  *)
(* what the runtime host guarantees of an execution, what a worker knows   *)
(* at its place, and what the row of a task says of each of its runs.  A   *)
(* run counts from the moment its worker is about to call Exec (Bound):    *)
(* that call may still come when the lease is long gone.                   *)
(*                                                                         *)
(* The last section proves, for every platform, that a recorded success    *)
(* was earned.                                                             *)
(***************************************************************************)
EXTENDS SandboxTasksProofs

ExecInv ==
    \A r \in Runs :
        /\ proc[r] # "none" => sess[r] # "none"
        /\ proc[r] = "running" => sess[r] \in {"live", "destroying"}

WorkerInv(w) ==
    /\ job[w] \in Runs => job[w][2] <= task[job[w][1]].attempts
    /\ pc[w] \in {"bind", "exec"} => sess[job[w]] # "none"
    /\ \A r \in todo[w] :
         /\ sess[r] # "none"
         /\ \A q \in todo[w] : r[1] = q[1] => r = q
         /\ pc[w] = "confirm" /\ First(w, r) => sess[r] \in {"destroying", "gone"}
         /\ pc[w] = "clear" /\ First(w, r) => sess[r] = "gone"

\* Run r has executed, or its worker is about to call Exec.
Bound(r) == proc[r] # "none" \/ \E w \in Workers : pc[w] = "exec" /\ job[w] = r

RunInv(r) ==
    /\ sess[r] # "none" => r[2] <= task[r[1]].attempts
    /\ task[r[1]].session = r[2] => sess[r] # "none"
    /\ Bound(r) /\ task[r[1]].status = "running" /\ task[r[1]].attempts = r[2]
         => task[r[1]].session = r[2] \/ sess[r] = "gone"
    /\ Bound(r) /\ (r[2] < task[r[1]].attempts \/ task[r[1]].status = "queued")
         => sess[r] = "gone"

CleanupInv ==
    /\ QueueInv /\ Typed
    /\ ExecInv
    /\ \A w \in Workers : WorkerInv(w)
    /\ \A r \in Runs : RunInv(r)

-----------------------------------------------------------------------------
(***************************************************************************)
(* The runtime host: sessions only move on.                                *)
(***************************************************************************)

Onward(r) ==
    /\ sess[r] # "none" => sess'[r] # "none"
    /\ sess[r] \in {"destroying", "gone"} => sess'[r] \in {"destroying", "gone"}
    /\ sess[r] = "gone" => sess'[r] = "gone"

\* ... and nothing begins.
Still(r) ==
    /\ Onward(r)
    /\ sess'[r] # "none" => sess[r] # "none"
    /\ proc'[r] # "none" => proc[r] # "none"

\* A step of the runtime that begins neither a session nor an Exec.
QuietRuntime ==
    \/ UNCHANGED runtimeVars
    \/ HostRestart
    \/ \E r \in Runs : \/ StartExec(r) \/ EndExec(r) \/ Disconnect(r) \/ CancelExec(r)
                       \/ BeginDestroy(r) \/ EndDestroy(r)

LEMMA QuietOnward ==
    ASSUME DestroyWaits, RuntimeTypeOK, ExecInv, QuietRuntime
    PROVE  ExecInv' /\ \A q \in Runs : Still(q)
<1>1. CASE UNCHANGED runtimeVars
  BY <1>1 DEF runtimeVars, ExecInv, Still, Onward
<1>2. CASE HostRestart
  BY <1>2 DEF HostRestart, Active, ExecInv, Still, Onward
<1>3. ASSUME NEW r \in Runs, StartExec(r) \/ EndExec(r)
      PROVE  ExecInv' /\ \A q \in Runs : Still(q)
  BY <1>3, RuntimeAssumption DEF StartExec, EndExec, RuntimeTypeOK, ExecInv, Still, Onward
<1>4. ASSUME NEW r \in Runs, Disconnect(r) \/ CancelExec(r) \/ BeginDestroy(r)
      PROVE  ExecInv' /\ \A q \in Runs : Still(q)
  BY <1>4 DEF Disconnect, CancelExec, BeginDestroy, RuntimeTypeOK, ExecInv, Still, Onward
<1>5. ASSUME NEW r \in Runs, EndDestroy(r)
      PROVE  ExecInv' /\ \A q \in Runs : Still(q)
  BY <1>5 DEF EndDestroy, Destroyable, RuntimeTypeOK, ExecInv, Still, Onward
<1>. QED
  BY <1>1, <1>2, <1>3, <1>4, <1>5 DEF QuietRuntime

LEMMA BeginsOnward ==
    ASSUME RuntimeTypeOK, ExecInv, NEW r \in Runs, CreateSession(r) \/ EnterExec(r)
    PROVE  ExecInv' /\ \A q \in Runs : Onward(q)
BY DEF CreateSession, EnterExec, RuntimeTypeOK, ExecInv, Onward

-----------------------------------------------------------------------------
(***************************************************************************)
(* What a worker knows at its place.                                       *)
(***************************************************************************)

\* Worker w takes up no run, lists nothing and destroys nothing.
Keeps(w) ==
    /\ job'[w] \in {job[w], NoRun}
    /\ pc'[w] \in {"bind", "exec"} => job'[w] = job[w] /\ (pc'[w] = pc[w] \/ Bind(w))
    /\ todo'[w] \subseteq todo[w]
    /\ pc'[w] \in {"confirm", "clear"} => pc'[w] = pc[w] /\ todo'[w] = todo[w]

LEMMA WorkerKept ==
    ASSUME Typed, QueueTypeOK', NEW w \in Workers, WorkerInv(w), Keeps(w),
           \A r \in Runs : Onward(r),
           \A t \in Tasks : task'[t].attempts >= task[t].attempts
    PROVE  WorkerInv(w)'
<1>0. /\ todo[w] \subseteq Runs
      /\ job[w] \in Runs \union {NoRun} /\ (pc[w] \in {"bind", "exec"} => job[w] \in Runs)
      /\ QueueTypeOK
  BY DEF Typed, TypeOK, WorkerTypeOK, JobHeld, AtRun
<1>1. job'[w] \in Runs => job'[w][2] <= task'[job'[w][1]].attempts
  <2>. SUFFICES ASSUME job'[w] \in Runs PROVE job'[w][2] <= task'[job'[w][1]].attempts
    OBVIOUS
  <2>1. job'[w] = job[w] /\ job[w][1] \in Tasks /\ job[w][2] \in Numbers
    BY <1>0, NoRunIsNone, RunParts DEF Keeps
  <2>2. job[w][2] <= task[job[w][1]].attempts
    BY <2>1 DEF WorkerInv
  <2>3. task[job[w][1]].attempts \in 0 .. MaxAttempts /\ task'[job[w][1]].attempts \in 0 .. MaxAttempts
    BY <1>0, <2>1 DEF QueueTypeOK, Row
  <2>. QED
    BY <2>1, <2>2, <2>3, RunsAssumption DEF Numbers
<1>2. pc'[w] \in {"bind", "exec"} => sess'[job'[w]] # "none"
  BY <1>0 DEF WorkerInv, Onward, Keeps, Bind
<1>3. ASSUME NEW r \in todo'[w]
      PROVE /\ sess'[r] # "none"
            /\ \A q \in todo'[w] : r[1] = q[1] => r = q
            /\ pc'[w] = "confirm" /\ First(w, r)' => sess'[r] \in {"destroying", "gone"}
            /\ pc'[w] = "clear" /\ First(w, r)' => sess'[r] = "gone"
  <2>1. r \in Runs /\ Onward(r) /\ r \in todo[w]
    BY <1>0, <1>3 DEF Keeps
  <2>2. pc'[w] \in {"confirm", "clear"} => (First(w, r)' <=> First(w, r))
    BY DEF First, Keeps
  <2>. QED
    BY <2>1, <2>2 DEF WorkerInv, Onward, Keeps
<1>. QED
  BY <1>1, <1>2, <1>3 DEF WorkerInv

\* Two runs that come first in one pass are the same run.
LEMMA FirstIsUnique ==
    ASSUME NEW w \in Workers, todo[w] \subseteq Runs, WorkerInv(w),
           NEW r \in todo[w], NEW q \in todo[w], First(w, r), First(w, q)
    PROVE  r = q
<1>1. r[1] <= q[1] /\ q[1] <= r[1] /\ r[1] \in Int /\ q[1] \in Int
  BY RunParts, RunsAssumption DEF First, Tasks
<1>2. r[1] = q[1]
  BY <1>1
<1>. QED
  BY <1>2 DEF WorkerInv

LEMMA AttemptsGrow ==
    ASSUME QueueTypeOK, [QueueNext]_queueVars
    PROVE  \A t \in Tasks : task'[t].attempts >= task[t].attempts
<1>. SUFFICES ASSUME NEW t \in Tasks PROVE task'[t].attempts >= task[t].attempts
  OBVIOUS
<1>1. task \in [Tasks -> Row] /\ task[t].attempts \in Int
  BY RunsAssumption DEF QueueTypeOK, Row
<1>2. \A u \in Tasks : ReclaimedTask(u).attempts = task[u].attempts
  BY DEF ReclaimedTask
<1>3. ASSUME NEW u \in Tasks, NEW p \in Policies, Enqueue(u, p)
      PROVE task'[t].attempts = task[t].attempts
  <2>1. CASE t = u
    BY <1>1, <1>3, <2>1 DEF Enqueue
  <2>2. CASE t # u
    BY <1>1, <1>3, <2>2 DEF Enqueue
  <2>. QED
    BY <2>1, <2>2
<1>4. ASSUME NEW u \in Tasks, ClaimTask(u) PROVE task'[t].attempts >= task[t].attempts
  BY <1>1, <1>2, <1>4 DEF ClaimTask
<1>5. CASE ClaimNothing
  BY <1>1, <1>2, <1>5 DEF ClaimNothing
<1>6. ASSUME NEW u \in Tasks, LeaseExpires(u) PROVE task'[t].attempts = task[t].attempts
  BY <1>1, <1>6 DEF LeaseExpires, Recording
<1>7. ASSUME NEW r \in Runs, CallerStep(r) PROVE task'[t].attempts = task[t].attempts
  <2>1. r[1] \in Tasks
    BY RunParts
  <2>2. CASE t # r[1]
    BY <1>1, <1>7, <2>1, <2>2
    DEF CallerStep, Renew, BindRuntime, BindRuntimeAssociation, Complete, ClearAssociation
  <2>3. CASE t = r[1] /\ \E outcome \in Terminal : Complete(r, outcome)
    BY <1>1, <2>3 DEF Complete, Finished
  <2>4. CASE t = r[1] /\ ~ \E outcome \in Terminal : Complete(r, outcome)
    BY <1>1, <1>7, <2>4
    DEF CallerStep, Renew, BindRuntime, BindRuntimeAssociation, ClearAssociation, Recording
  <2>. QED
    BY <2>2, <2>3, <2>4
<1>8. CASE UNCHANGED queueVars
  BY <1>1, <1>8 DEF queueVars
<1>. QED
  BY <1>1, <1>3, <1>4, <1>5, <1>6, <1>7, <1>8 DEF QueueNext

-----------------------------------------------------------------------------
(***************************************************************************)
(* Every step, as the runtime host and one worker see it.                  *)
(***************************************************************************)

Begins(w) ==
    /\ job[w] \in Runs
    /\ \/ pc[w] = "create" /\ CreateSession(job[w])
       \/ pc[w] = "exec" /\ EnterExec(job[w])

LEMMA StepRuntime ==
    ASSUME Typed, [Next]_vars
    PROVE  QuietRuntime \/ \E w \in Workers : Begins(w)
<1>0. \A w \in Workers : todo[w] \subseteq Runs /\ (pc[w] \in AtRun => job[w] \in Runs)
  BY DEF Typed, TypeOK, WorkerTypeOK, JobHeld
<1>1. ASSUME NEW w \in Workers, Recovery(w) PROVE QuietRuntime
  BY <1>0, <1>1
  DEF Recovery, ListExpired, DestroyRecorded, DestroyConfirmed, DestroyUnconfirmed, Clear, QuietRuntime
<1>2. ASSUME NEW w \in Workers, CreateOne(w) \/ CreateFails(w) \/ CallExec(w)
      PROVE QuietRuntime \/ Begins(w)
  BY <1>0, <1>2 DEF CreateOne, CreateFails, CallExec, QuietRuntime, Begins, AtRun
<1>3. ASSUME NEW w \in Workers, CancelLost(w) \/ DestroyOwn(w) \/ OwnDestroyed(w)
      PROVE QuietRuntime
  BY <1>0, <1>3 DEF CancelLost, DestroyOwn, OwnDestroyed, QuietRuntime, AtRun
<1>4. ASSUME NEW w \in Workers,
             \/ ClaimOne(w) \/ RecordCreateFailure(w) \/ Bind(w) \/ ExecReturns(w) \/ ExecFails(w)
             \/ OwnDestroyFails(w) \/ RecordOutcome(w) \/ StopIdle(w)
             \/ Heartbeat(w) \/ HeartbeatFails(w) \/ QueueFails(w) \/ Shutdown(w)
      PROVE QuietRuntime
  BY <1>4
  DEF ClaimOne, RecordCreateFailure, Bind, ExecReturns, ExecFails, Returned, OwnDestroyFails,
      RecordOutcome, StopIdle, Heartbeat, HeartbeatFails, QueueFails, Shutdown, QuietRuntime
<1>5. CASE \/ \E t \in Tasks : Expire(t) \/ \E p \in Policies : Submit(t, p)
           \/ Crash \/ Restart \/ RestartHost \/ UNCHANGED vars
  BY <1>5 DEF Expire, Submit, Crash, Restart, RestartHost, vars, QuietRuntime
<1>6. ASSUME NEW r \in Runs, TTLPasses(r) \/ TimerDestroys(r) \/ NoticeDisconnect(r) \/ Proceed(r)
      PROVE QuietRuntime
  BY <1>6 DEF TTLPasses, TimerDestroys, NoticeDisconnect, Proceed, QuietRuntime
<1>. QED
  BY <1>1, <1>2, <1>3, <1>4, <1>5, <1>6 DEF Next, Work, RunOne

LEMMA StepOnward ==
    ASSUME DestroyWaits, Typed, ExecInv, [Next]_vars
    PROVE  ExecInv' /\ \A q \in Runs : Onward(q)
<1>1. RuntimeTypeOK
  BY DEF Typed, TypeOK
<1>2. CASE QuietRuntime
  BY <1>1, <1>2, QuietOnward DEF Still
<1>3. CASE \E w \in Workers : Begins(w)
  BY <1>1, <1>3, BeginsOnward DEF Begins
<1>. QED
  BY <1>2, <1>3, StepRuntime

\* Worker w is not the one that acts.
Aside(w) == pc'[w] = pc[w] /\ job'[w] = job[w] /\ todo'[w] = todo[w]

LEMMA StepKeeps ==
    ASSUME Typed, NEW w \in Workers, [Next]_vars
    PROVE  \/ Keeps(w)
           \/ ListExpired(w) \/ DestroyRecorded(w) \/ DestroyConfirmed(w)
           \/ ClaimOne(w) \/ CreateOne(w)
<1>0. WorkerTypeOK
  BY DEF Typed, TypeOK
<1>1. Aside(w) => Keeps(w)
  BY DEF Aside, Keeps
<1>2. ASSUME NEW v \in Workers, v # w,
             Work(v) \/ Heartbeat(v) \/ HeartbeatFails(v) \/ QueueFails(v) \/ Shutdown(v)
      PROVE Aside(w)
  <2>1. CASE Recovery(v)
    BY <1>0, <1>2, <2>1
    DEF Recovery, ListExpired, DestroyRecorded, DestroyConfirmed, DestroyUnconfirmed, Clear,
        Goto, WorkerTypeOK, Aside
  <2>2. CASE \/ ClaimOne(v) \/ CreateOne(v) \/ CreateFails(v) \/ Bind(v) \/ CallExec(v)
             \/ ExecReturns(v) \/ ExecFails(v) \/ CancelLost(v) \/ DestroyOwn(v)
    BY <1>0, <1>2, <2>2
    DEF ClaimOne, CreateOne, CreateFails, Bind, CallExec, ExecReturns, ExecFails, Returned,
        CancelLost, DestroyOwn, Goto, WorkerTypeOK, Aside
  <2>3. CASE RecordCreateFailure(v) \/ OwnDestroyed(v) \/ OwnDestroyFails(v) \/ RecordOutcome(v)
    BY <1>0, <1>2, <2>3
    DEF RecordCreateFailure, OwnDestroyed, OwnDestroyFails, RecordOutcome, EndRun, Goto, WorkerTypeOK, Aside
  <2>4. CASE StopIdle(v) \/ Heartbeat(v) \/ HeartbeatFails(v) \/ QueueFails(v) \/ Shutdown(v)
    BY <1>0, <1>2, <2>4
    DEF StopIdle, Heartbeat, HeartbeatFails, QueueFails, Shutdown, EndRun, Goto, WorkerTypeOK, Aside
  <2>. QED
    BY <1>2, <2>1, <2>2, <2>3, <2>4 DEF Work, RunOne
<1>3. CASE DestroyUnconfirmed(w) \/ Clear(w)
  BY <1>0, <1>3 DEF DestroyUnconfirmed, Clear, Cleaned, Goto, WorkerTypeOK, Keeps
<1>4. CASE \/ CreateFails(w) \/ Bind(w) \/ CallExec(w)
           \/ ExecReturns(w) \/ ExecFails(w) \/ CancelLost(w) \/ DestroyOwn(w)
  BY <1>0, <1>4
  DEF CreateFails, Bind, CallExec, ExecReturns, ExecFails, Returned, CancelLost, DestroyOwn,
      Goto, WorkerTypeOK, Keeps
<1>5. CASE RecordCreateFailure(w) \/ OwnDestroyed(w) \/ OwnDestroyFails(w) \/ RecordOutcome(w)
  BY <1>0, <1>5
  DEF RecordCreateFailure, OwnDestroyed, OwnDestroyFails, RecordOutcome, EndRun, Goto, WorkerTypeOK, Keeps
<1>6. CASE StopIdle(w) \/ Heartbeat(w) \/ HeartbeatFails(w) \/ QueueFails(w) \/ Shutdown(w)
  BY <1>0, <1>6
  DEF StopIdle, Heartbeat, HeartbeatFails, QueueFails, Shutdown, EndRun, Goto, WorkerTypeOK, Keeps
<1>7. CASE \/ \E t \in Tasks : Expire(t) \/ \E p \in Policies : Submit(t, p)
           \/ \E r \in Runs : TTLPasses(r) \/ TimerDestroys(r) \/ NoticeDisconnect(r) \/ Proceed(r)
           \/ RestartHost \/ UNCHANGED vars
  BY <1>1, <1>7
  DEF Expire, Submit, TTLPasses, TimerDestroys, NoticeDisconnect, Proceed, RestartHost, vars, workerVars, Aside
<1>8. CASE Crash \/ Restart
  BY <1>8 DEF Crash, Restart, Keeps
<1>. QED
  BY <1>1, <1>2, <1>3, <1>4, <1>5, <1>6, <1>7, <1>8 DEF Next, Work, Recovery, RunOne

\* What worker w lists exists, one run for every task.
LEMMA ListExpiredWorker ==
    ASSUME CleanupInv, NEW w \in Workers, ListExpired(w),
           \A r \in Runs : Onward(r)
    PROVE  WorkerInv(w)'
<1>1. todo'[w] = {r \in Runs : NeedsCleanup(r[1]) /\ task[r[1]].session = r[2]}
  BY DEF ListExpired, CleanupInv, Typed, TypeOK, WorkerTypeOK
<1>2. pc'[w] \notin {"bind", "exec", "confirm", "clear"}
  BY DEF ListExpired, Cleaned, CleanupInv, Typed, TypeOK, WorkerTypeOK
<1>3. job'[w] = job[w] /\ task' = task
  BY DEF ListExpired, queueVars
<1>4. ASSUME NEW r \in todo'[w]
      PROVE sess'[r] # "none" /\ \A q \in todo'[w] : r[1] = q[1] => r = q
  <2>1. r \in Runs /\ task[r[1]].session = r[2]
    BY <1>1, <1>4
  <2>2. sess[r] # "none"
    BY <2>1 DEF CleanupInv, RunInv
  <2>3. ASSUME NEW q \in todo'[w], r[1] = q[1] PROVE r = q
    <3>1. q \in Runs /\ task[q[1]].session = q[2]
      BY <1>1
    <3>. QED
      BY <2>1, <2>3, <3>1, RunParts
  <2>. QED
    BY <2>1, <2>2, <2>3 DEF Onward
<1>. QED
  BY <1>2, <1>3, <1>4 DEF WorkerInv, CleanupInv

\* The run destroyed is the one that comes first, and stays so.
LEMMA DestroyRecordedWorker ==
    ASSUME DestroyWaits, CleanupInv, NEW w \in Workers,
           DestroyRecorded(w) \/ DestroyConfirmed(w),
           \A r \in Runs : Onward(r)
    PROVE  WorkerInv(w)'
<1>1. WorkerInv(w) /\ todo[w] \subseteq Runs /\ pc \in [Workers -> Places] /\ sess \in [Runs -> SessStates]
  BY DEF CleanupInv, Typed, TypeOK, WorkerTypeOK, RuntimeTypeOK
<1>2. task' = task /\ job' = job /\ todo' = todo
  BY DEF DestroyRecorded, DestroyConfirmed, queueVars
<1>3. PICK r \in todo[w] :
        /\ First(w, r)
        /\ \/ BeginDestroy(r) /\ pc'[w] = "confirm"
           \/ pc[w] = "confirm" /\ EndDestroy(r) /\ pc'[w] = "clear"
  BY <1>1 DEF DestroyRecorded, DestroyConfirmed, Goto
<1>4. ASSUME NEW q \in todo[w], First(w, q) PROVE q = r
  BY <1>1, <1>3, <1>4, FirstIsUnique
<1>5. \A q \in todo[w] : First(w, q)' <=> First(w, q)
  BY <1>2 DEF First
<1>6. CASE BeginDestroy(r) /\ pc'[w] = "confirm"
  <2>1. sess[r] # "none" /\ r \in Runs
    BY <1>1 DEF WorkerInv
  <2>2. sess'[r] \in {"destroying", "gone"}
    BY <1>1, <1>6, <2>1 DEF BeginDestroy, SessStates
  <2>. QED
    BY <1>1, <1>2, <1>4, <1>5, <1>6, <2>2 DEF WorkerInv, Onward
<1>7. CASE pc[w] = "confirm" /\ EndDestroy(r) /\ pc'[w] = "clear"
  <2>1. sess[r] \in {"destroying", "gone"} /\ r \in Runs
    BY <1>1, <1>3, <1>7 DEF WorkerInv
  <2>2. sess'[r] = "gone"
    BY <1>1, <1>7, <2>1 DEF EndDestroy
  <2>. QED
    BY <1>1, <1>2, <1>4, <1>5, <1>7, <2>2 DEF WorkerInv, Onward
<1>. QED
  BY <1>3, <1>6, <1>7

LEMMA TakingUpWorker ==
    ASSUME CleanupInv, NEW w \in Workers, ClaimOne(w) \/ CreateOne(w),
           \A r \in Runs : Onward(r), \A t \in Tasks : task'[t].attempts >= task[t].attempts,
           QueueTypeOK'
    PROVE  WorkerInv(w)'
<1>1. /\ WorkerInv(w) /\ todo[w] \subseteq Runs /\ pc \in [Workers -> Places]
      /\ sess \in [Runs -> SessStates] /\ job \in [Workers -> Runs \union {NoRun}]
      /\ task \in [Tasks -> Row]
  BY DEF CleanupInv, Typed, TypeOK, WorkerTypeOK, RuntimeTypeOK, QueueTypeOK
<1>2. todo' = todo /\ pc'[w] \notin {"exec", "confirm", "clear"}
  BY <1>1 DEF ClaimOne, CreateOne, Goto
<1>3. \A r \in todo'[w] : sess'[r] # "none" /\ \A q \in todo'[w] : r[1] = q[1] => r = q
  BY <1>1, <1>2 DEF WorkerInv, Onward
<1>4. CASE CreateOne(w)
  <2>1. job[w] \in Runs
    BY <1>4 DEF CreateOne, CleanupInv, Typed, JobHeld, AtRun
  <2>2. job' = job /\ task' = task /\ sess'[job[w]] = "live"
    BY <1>1, <1>4, <2>1 DEF CreateOne, CreateSession, queueVars
  <2>. QED
    BY <1>1, <1>2, <1>3, <2>2 DEF WorkerInv
<1>5. CASE ClaimOne(w)
  <2>1. pc'[w] \in {"create", "idle"}
    BY <1>1, <1>5 DEF ClaimOne, Goto
  <2>2. job'[w] \in Runs => job'[w][2] <= task'[job'[w][1]].attempts
    <3>1. ASSUME NEW t \in Tasks, ClaimTask(t), job'[w] = <<t, task[t].attempts + 1>>
          PROVE  job'[w][2] <= task'[job'[w][1]].attempts
      <4>1. task'[t].attempts = task[t].attempts + 1 /\ task[t].attempts \in Int
        BY <1>1, <3>1, RunsAssumption DEF ClaimTask, Row
      <4>. QED
        BY <3>1, <4>1
    <3>2. CASE job'[w] = job[w]
      <4>. SUFFICES ASSUME job[w] \in Runs PROVE job[w][2] <= task'[job[w][1]].attempts
        BY <3>2
      <4>1. job[w][1] \in Tasks /\ job[w][2] \in Numbers
        BY RunParts
      <4>2. task[job[w][1]].attempts \in Int /\ task'[job[w][1]].attempts \in Int
        BY <4>1, RunsAssumption DEF CleanupInv, QueueInv, QueueTypeOK, Row
      <4>. QED
        BY <1>1, <4>1, <4>2, RunsAssumption DEF WorkerInv, Numbers
    <3>. QED
      BY <1>1, <1>5, <3>1, <3>2 DEF ClaimOne
  <2>. QED
    BY <1>2, <1>3, <2>1, <2>2 DEF WorkerInv
<1>. QED
  BY <1>4, <1>5

LEMMA StepWorker ==
    ASSUME DestroyWaits, CleanupInv, [Next]_vars, NEW w \in Workers
    PROVE  WorkerInv(w)'
<1>1. \A r \in Runs : Onward(r)
  BY StepOnward DEF CleanupInv
<1>2. [QueueNext]_queueVars /\ QueueTypeOK /\ WorkerInv(w) /\ Typed
  BY StepIsQueueStep DEF CleanupInv, QueueInv
<1>3. QueueTypeOK' /\ \A t \in Tasks : task'[t].attempts >= task[t].attempts
  BY <1>2, NextInv, AttemptsGrow DEF CleanupInv, QueueInv
<1>4. CASE Keeps(w)
  BY <1>1, <1>2, <1>3, <1>4, WorkerKept
<1>5. CASE ListExpired(w)
  BY <1>1, <1>5, ListExpiredWorker
<1>6. CASE DestroyRecorded(w) \/ DestroyConfirmed(w)
  BY <1>1, <1>6, DestroyRecordedWorker
<1>7. CASE ClaimOne(w) \/ CreateOne(w)
  BY <1>1, <1>3, <1>7, TakingUpWorker
<1>. QED
  BY <1>2, <1>4, <1>5, <1>6, <1>7, StepKeeps

-----------------------------------------------------------------------------
(***************************************************************************)
(* What the row of a task says of each of its runs.                        *)
(***************************************************************************)

\* The row of t keeps what RunInv speaks of, or the task is over.
RowKept(t) ==
    /\ task'[t].attempts = task[t].attempts
    /\ \/ task'[t].status = task[t].status /\ task'[t].session = task[t].session
       \/ task'[t].status \in Terminal /\ task'[t].session = 0

LEMMA RunKept ==
    ASSUME NEW r \in Runs, RunInv(r), Onward(r), Bound(r)' => Bound(r),
           sess'[r] # "none" => sess[r] # "none", RowKept(r[1])
    PROVE  RunInv(r)'
<1>1. r[2] # 0
  BY RunParts, RunsAssumption DEF Numbers
<1>. QED
  BY <1>1 DEF RunInv, Onward, RowKept, Terminal

LEMMA RowsKept ==
    ASSUME QueueTypeOK, NEW r \in Runs,
           UNCHANGED queueVars \/ Renew(r) \/ LeaseExpires(r[1]) \/ Complete(r, "succeeded") \/ Complete(r, "failed")
    PROVE  \A t \in Tasks : RowKept(t)
<1>1. r[1] \in Tasks /\ task \in [Tasks -> Row]
  BY RunParts DEF QueueTypeOK
<1>2. CASE UNCHANGED queueVars
  BY <1>2 DEF queueVars, RowKept
<1>3. CASE Renew(r) \/ LeaseExpires(r[1])
  <2>1. \A t \in Tasks : t # r[1] => task'[t] = task[t]
    BY <1>1, <1>3 DEF Renew, LeaseExpires
  <2>2. RowKept(r[1])
    BY <1>1, <1>3 DEF Renew, LeaseExpires, Recording, RowKept
  <2>. QED
    BY <2>1, <2>2 DEF RowKept
<1>4. CASE Complete(r, "succeeded") \/ Complete(r, "failed")
  <2>1. \A t \in Tasks : t # r[1] => task'[t] = task[t]
    BY <1>1, <1>4 DEF Complete
  <2>2. RowKept(r[1])
    BY <1>1, <1>4 DEF Complete, Finished, RowKept, Terminal
  <2>. QED
    BY <2>1, <2>2 DEF RowKept
<1>. QED
  BY <1>2, <1>3, <1>4

\* Only Bind brings a worker to Exec.
LEMMA StepBound ==
    ASSUME Typed, [Next]_vars, NEW r \in Runs, Bound(r)'
    PROVE  Bound(r) \/ \E w \in Workers : Bind(w) /\ job[w] = r /\ pc'[w] = "exec"
<1>1. CASE proc'[r] # "none"
  <2>1. CASE QuietRuntime
    BY <1>1, <2>1
    DEF QuietRuntime, runtimeVars, HostRestart, Active, StartExec, EndExec, Disconnect, CancelExec,
        BeginDestroy, EndDestroy, Bound, Typed, TypeOK, RuntimeTypeOK
  <2>2. ASSUME NEW w \in Workers, Begins(w) PROVE Bound(r)
    BY <1>1, <2>2 DEF Begins, CreateSession, EnterExec, Bound, Typed, TypeOK, RuntimeTypeOK
  <2>. QED
    BY <2>1, <2>2, StepRuntime
<1>2. ASSUME NEW w \in Workers, pc'[w] = "exec", job'[w] = r
      PROVE  (pc[w] = "exec" /\ job[w] = r) \/ (Bind(w) /\ job[w] = r)
  <2>1. Keeps(w)
    BY StepKeeps, <1>2
    DEF ListExpired, Cleaned, DestroyRecorded, DestroyConfirmed, ClaimOne, CreateOne, Goto,
        Typed, TypeOK, WorkerTypeOK
  <2>. QED
    BY <1>2, <2>1 DEF Keeps
<1>. QED
  BY <1>1, <1>2 DEF Bound

\* Only CreateOne and CreateFails bring a session into being.
LEMMA StepSession ==
    ASSUME DestroyWaits, Typed, ExecInv, [Next]_vars, NEW r \in Runs, sess'[r] # "none"
    PROVE  sess[r] # "none" \/ \E w \in Workers : pc[w] = "create" /\ job[w] = r
<1>1. CASE QuietRuntime
  BY <1>1, QuietOnward DEF Still, Typed, TypeOK
<1>2. ASSUME NEW w \in Workers, Begins(w)
      PROVE sess[r] # "none" \/ (pc[w] = "create" /\ job[w] = r)
  BY <1>2 DEF Begins, CreateSession, EnterExec, Typed, TypeOK, RuntimeTypeOK
<1>. QED
  BY <1>1, <1>2, StepRuntime

\* The steps that clear an identity, and those that hand a task out.
Cleared(w, r) == Clear(w) /\ pc[w] = "clear" /\ First(w, r) /\ ClearAssociation(r)
HandsOut == ClaimNothing \/ \E t \in Tasks : ClaimTask(t) \/ \E p \in Policies : Enqueue(t, p)

LEMMA StepRows ==
    ASSUME Typed, [Next]_vars, \A w \in Workers : ~ Bind(w)
    PROVE  \/ \A t \in Tasks : RowKept(t)
           \/ \E w \in Workers : \E r \in todo[w] : Cleared(w, r)
           \/ HandsOut /\ UNCHANGED runtimeVars
<1>0. /\ QueueTypeOK /\ \A t \in Tasks : \E r \in Runs : r[1] = t
      /\ \A w \in Workers : pc[w] \in AtRun => job[w] \in Runs
  <2>1. 1 \in Numbers
    BY RunsAssumption DEF Numbers
  <2>2. \A t \in Tasks : <<t, 1>> \in Runs /\ <<t, 1>>[1] = t
    BY <2>1 DEF Runs
  <2>. QED
    BY <2>2 DEF Typed, TypeOK, JobHeld
<1>1. UNCHANGED queueVars => \A t \in Tasks : RowKept(t)
  BY DEF queueVars, RowKept
<1>2. ASSUME NEW w \in Workers,
             \/ Clear(w) \/ ListExpired(w) \/ DestroyRecorded(w) \/ DestroyConfirmed(w) \/ DestroyUnconfirmed(w)
      PROVE UNCHANGED queueVars \/ \E r \in todo[w] : Cleared(w, r)
  BY <1>2
  DEF Clear, ListExpired, DestroyRecorded, DestroyConfirmed, DestroyUnconfirmed, Cleared
<1>3. ASSUME NEW w \in Workers, ClaimOne(w)
      PROVE UNCHANGED queueVars \/ (HandsOut /\ UNCHANGED runtimeVars)
  BY <1>3 DEF ClaimOne, HandsOut
<1>4. ASSUME NEW w \in Workers, RecordCreateFailure(w) \/ RecordOutcome(w) \/ Heartbeat(w)
      PROVE \A t \in Tasks : RowKept(t)
  <2>1. job[w] \in Runs
    BY <1>0, <1>4 DEF RecordCreateFailure, RecordOutcome, Heartbeat, AtRun
  <2>2. UNCHANGED queueVars \/ Renew(job[w]) \/ Complete(job[w], "succeeded") \/ Complete(job[w], "failed")
    BY <1>4 DEF RecordCreateFailure, RecordOutcome, Heartbeat
  <2>. QED
    BY <1>0, <2>1, <2>2, RowsKept
<1>5. ASSUME NEW w \in Workers,
             \/ CreateOne(w) \/ CreateFails(w) \/ CallExec(w) \/ ExecReturns(w) \/ ExecFails(w)
             \/ CancelLost(w) \/ DestroyOwn(w) \/ OwnDestroyed(w) \/ OwnDestroyFails(w)
             \/ StopIdle(w) \/ HeartbeatFails(w) \/ QueueFails(w) \/ Shutdown(w)
      PROVE UNCHANGED queueVars
  BY <1>5
  DEF CreateOne, CreateFails, CallExec, ExecReturns, ExecFails, Returned, CancelLost, DestroyOwn,
      OwnDestroyed, OwnDestroyFails, StopIdle, HeartbeatFails, QueueFails, Shutdown
<1>6. ASSUME NEW t \in Tasks, Expire(t) PROVE \A u \in Tasks : RowKept(u)
  <2>1. PICK r \in Runs : r[1] = t
    BY <1>0
  <2>2. LeaseExpires(r[1])
    BY <1>6, <2>1 DEF Expire
  <2>. QED
    BY <1>0, <2>2, RowsKept
<1>7. ASSUME NEW t \in Tasks, NEW p \in Policies, Submit(t, p) PROVE HandsOut /\ UNCHANGED runtimeVars
  BY <1>7 DEF Submit, HandsOut
<1>8. CASE \/ \E r \in Runs : TTLPasses(r) \/ TimerDestroys(r) \/ NoticeDisconnect(r) \/ Proceed(r)
           \/ Crash \/ Restart \/ RestartHost \/ UNCHANGED vars
  BY <1>1, <1>8
  DEF TTLPasses, TimerDestroys, NoticeDisconnect, Proceed, Crash, Restart, RestartHost, vars
<1>. QED
  BY <1>1, <1>2, <1>3, <1>4, <1>5, <1>6, <1>7, <1>8 DEF Next, Work, Recovery, RunOne

\* Nobody executes a run that was not handed out yet.
LEMMA BoundIsClaimed ==
    ASSUME CleanupInv, NEW r \in Runs, Bound(r)
    PROVE  sess[r] # "none" /\ r[2] <= task[r[1]].attempts
<1>1. sess[r] # "none"
  BY DEF Bound, CleanupInv, ExecInv, WorkerInv
<1>. QED
  BY <1>1 DEF CleanupInv, RunInv

LEMMA BindRun ==
    ASSUME CleanupInv, NEW w \in Workers, Bind(w), NEW r \in Runs,
           Bound(r)' => Bound(r) \/ (job[w] = r /\ pc'[w] = "exec")
    PROVE  RunInv(r)'
<1>1. /\ RunInv(r) /\ WorkerInv(w) /\ task \in [Tasks -> Row]
      /\ job[w] \in Runs /\ pc[w] = "bind" /\ pc'[w] \in {"exec", "destroy"}
  BY DEF Bind, Goto, CleanupInv, Typed, TypeOK, QueueTypeOK, WorkerTypeOK, JobHeld, AtRun
<1>2. r[1] \in Tasks /\ r[2] \in Numbers /\ job[w][1] \in Tasks /\ job[w][2] \in Numbers
  BY <1>1, RunParts
<1>3. sess' = sess
  BY DEF Bind, runtimeVars
<1>4. CASE pc'[w] = "destroy"
  <2>1. UNCHANGED queueVars
    BY <1>1, <1>4 DEF Bind, Goto, CleanupInv, Typed, TypeOK, WorkerTypeOK
  <2>. QED
    BY <1>1, <1>3, <1>4, <2>1 DEF queueVars, RunInv
<1>5. CASE pc'[w] = "exec"
  <2>1. BindRuntimeAssociation(job[w])
    BY <1>1, <1>5 DEF Bind, Goto, CleanupInv, Typed, TypeOK, WorkerTypeOK
  <2>2. task[job[w][1]].status = "running" /\ task[job[w][1]].attempts = job[w][2]
    BY <2>1 DEF BindRuntimeAssociation, Holds, Owns
  <2>3. CASE r[1] # job[w][1]
    <3>1. task'[r[1]] = task[r[1]]
      BY <1>1, <1>2, <2>1, <2>3 DEF BindRuntimeAssociation
    <3>. QED
      BY <1>1, <1>3, <2>3, <3>1 DEF RunInv
  <2>4. CASE r[1] = job[w][1]
    <3>1. /\ task'[r[1]].attempts = job[w][2] /\ task'[r[1]].status = "running"
          /\ task'[r[1]].session = job[w][2]
      BY <1>1, <1>2, <2>1, <2>2, <2>4 DEF BindRuntimeAssociation, Recording
    <3>2. r[2] = job[w][2] => r = job[w]
      BY <1>1, <2>4, RunParts
    <3>3. sess[job[w]] # "none"
      BY <1>1 DEF WorkerInv
    <3>. QED
      BY <1>1, <1>2, <1>3, <2>2, <2>4, <3>1, <3>2, <3>3, RunsAssumption DEF RunInv, Numbers
  <2>. QED
    BY <2>3, <2>4
<1>. QED
  BY <1>1, <1>4, <1>5

LEMMA ClearRun ==
    ASSUME CleanupInv, NEW w \in Workers, NEW q \in todo[w], Cleared(w, q), NEW r \in Runs,
           Bound(r)' => Bound(r)
    PROVE  RunInv(r)'
<1>1. /\ RunInv(r) /\ WorkerInv(w) /\ task \in [Tasks -> Row] /\ q \in Runs
      /\ r[1] \in Tasks /\ r[2] \in Numbers /\ q[1] \in Tasks /\ q[2] \in Numbers
  BY RunParts DEF CleanupInv, Typed, TypeOK, QueueTypeOK, WorkerTypeOK
<1>2. sess' = sess /\ sess[q] = "gone"
  BY <1>1 DEF Cleared, Clear, runtimeVars, WorkerInv
<1>3. task[q[1]].session = q[2] /\ task[q[1]].status = "running"
  BY DEF Cleared, ClearAssociation, NeedsCleanup, Expired
<1>4. CASE r[1] # q[1]
  <2>1. task'[r[1]] = task[r[1]]
    BY <1>1, <1>4 DEF Cleared, ClearAssociation
  <2>. QED
    BY <1>1, <1>2, <1>4, <2>1 DEF RunInv
<1>5. CASE r[1] = q[1]
  <2>1. /\ task'[r[1]].attempts = task[r[1]].attempts /\ task'[r[1]].status = task[r[1]].status
        /\ task'[r[1]].session = 0
    BY <1>1, <1>5 DEF Cleared, ClearAssociation, Recording
  <2>2. r[2] = q[2] => r = q
    BY <1>1, <1>5, RunParts
  <2>. QED
    BY <1>1, <1>2, <1>3, <1>5, <2>1, <2>2, RunsAssumption DEF RunInv, Numbers
<1>. QED
  BY <1>4, <1>5

\* When a task goes back to the queue or out of it, all that was bound is gone.
LEMMA FreeMeansGone ==
    ASSUME CleanupInv, NEW r \in Runs, Bound(r),
           ReclaimedTask(r[1]).status = "queued" \/ Reclaimable(r[1])
    PROVE  sess[r] = "gone"
<1>1. /\ r[1] \in Tasks /\ r[2] \in Numbers /\ task[r[1]] \in Row
      /\ RunInv(r) /\ r[2] <= task[r[1]].attempts
  BY RunParts, BoundIsClaimed DEF CleanupInv, Typed, TypeOK, QueueTypeOK
<1>2. CASE Reclaimable(r[1])
  BY <1>1, <1>2, RunsAssumption DEF Reclaimable, Expired, RunInv, Numbers, Row
<1>3. CASE ~ Reclaimable(r[1])
  <2>1. task[r[1]].status = "queued"
    BY <1>3 DEF ReclaimedTask
  <2>. QED
    BY <1>1, <2>1 DEF RunInv
<1>. QED
  BY <1>2, <1>3

LEMMA HandOutRun ==
    ASSUME CleanupInv, HandsOut, UNCHANGED runtimeVars, NEW r \in Runs, Bound(r)' => Bound(r)
    PROVE  RunInv(r)'
<1>. DEFINE t == r[1]
<1>1. /\ t \in Tasks /\ r[2] \in Numbers /\ task \in [Tasks -> Row] /\ task[t] \in Row
      /\ RunInv(r) /\ sess' = sess
  BY RunParts DEF CleanupInv, Typed, TypeOK, QueueTypeOK, runtimeVars
<1>2. r[2] # 0 /\ r[2] \in Int /\ task[t].attempts \in Int
  BY <1>1, RunsAssumption DEF Numbers, Row
<1>3. CASE task'[t] = task[t]
  BY <1>1, <1>3 DEF RunInv
<1>4. ASSUME task[t].status = "absent", task'[t].attempts = task[t].attempts, task'[t].session = 0
      PROVE RunInv(r)'
  <2>1. task[t].attempts = 0
    BY <1>1, <1>4, AbsentIsFresh, InvPerTask DEF CleanupInv, QueueInv
  <2>2. ~ Bound(r) /\ sess[r] = "none"
    BY <1>1, <1>2, <2>1, BoundIsClaimed, RunsAssumption DEF RunInv, Numbers
  <2>. QED
    BY <1>1, <1>2, <1>4, <2>2 DEF RunInv
<1>5. ASSUME task'[t] = ReclaimedTask(t) PROVE RunInv(r)'
  <2>1. CASE ~ Reclaimable(t)
    BY <1>3, <1>5, <2>1 DEF ReclaimedTask
  <2>2. CASE Reclaimable(t)
    <3>1. /\ task'[t].attempts = task[t].attempts /\ task'[t].session = 0
          /\ task'[t].status \in {"queued", "failed"}
      BY <1>1, <1>5, <2>2 DEF ReclaimedTask
    <3>2. Bound(r) => sess[r] = "gone"
      BY <2>2, FreeMeansGone
    <3>. QED
      BY <1>1, <1>2, <3>1, <3>2 DEF RunInv
  <2>. QED
    BY <2>1, <2>2
<1>6. ASSUME Claimable(t), task'[t].attempts = task[t].attempts + 1,
             task'[t].status = "running", task'[t].session = 0
      PROVE RunInv(r)'
  <2>1. Bound(r) => sess[r] = "gone"
    BY <1>6, FreeMeansGone DEF Claimable
  <2>2. sess[r] # "none" => r[2] <= task'[t].attempts
    BY <1>1, <1>2, <1>6 DEF RunInv
  <2>. QED
    BY <1>1, <1>2, <1>6, <2>1, <2>2 DEF RunInv
<1>7. CASE ClaimNothing
  BY <1>1, <1>5, <1>7 DEF ClaimNothing
<1>8. ASSUME NEW u \in Tasks, ClaimTask(u) PROVE RunInv(r)'
  <2>1. CASE u = t
    <3>1. /\ Claimable(t) /\ task'[t].attempts = task[t].attempts + 1
          /\ task'[t].status = "running" /\ task'[t].session = 0
      BY <1>1, <1>8, <2>1 DEF ClaimTask
    <3>. QED
      BY <1>6, <3>1
  <2>2. CASE u # t
    BY <1>1, <1>5, <1>8, <2>2 DEF ClaimTask
  <2>. QED
    BY <2>1, <2>2
<1>9. ASSUME NEW u \in Tasks, NEW p \in Policies, Enqueue(u, p) PROVE RunInv(r)'
  <2>1. CASE u = t
    <3>1. task[t].status = "absent" /\ task'[t].attempts = task[t].attempts /\ task'[t].session = 0
      BY <1>1, <1>9, <2>1 DEF Enqueue
    <3>. QED
      BY <1>4, <3>1
  <2>2. CASE u # t
    BY <1>1, <1>3, <1>9, <2>2 DEF Enqueue
  <2>. QED
    BY <2>1, <2>2
<1>. QED
  BY <1>7, <1>8, <1>9 DEF HandsOut

\* A session that comes into being is that of a claimed run nobody executes yet.
LEMMA KeptRun ==
    ASSUME CleanupInv, NEW r \in Runs, \A t \in Tasks : RowKept(t), Onward(r), Bound(r)' => Bound(r),
           sess'[r] # "none" => sess[r] # "none" \/ \E w \in Workers : pc[w] = "create" /\ job[w] = r
    PROVE  RunInv(r)'
<1>1. RunInv(r) /\ RowKept(r[1]) /\ r[2] # 0
  BY RunParts, RunsAssumption DEF CleanupInv, Numbers
<1>2. CASE sess'[r] # "none" => sess[r] # "none"
  BY <1>1, <1>2, RunKept
<1>3. CASE sess'[r] # "none" /\ sess[r] = "none"
  <2>1. ~ Bound(r)
    BY <1>3, BoundIsClaimed
  <2>2. r[2] <= task[r[1]].attempts
    BY <1>3 DEF CleanupInv, WorkerInv
  <2>. QED
    BY <1>1, <1>3, <2>1, <2>2 DEF RunInv, RowKept
<1>. QED
  BY <1>2, <1>3

LEMMA StepRun ==
    ASSUME DestroyWaits, CleanupInv, [Next]_vars, NEW r \in Runs
    PROVE  RunInv(r)'
<1>1. Typed /\ ExecInv /\ Onward(r)
  BY StepOnward DEF CleanupInv
<1>2. CASE \E w \in Workers : Bind(w)
  <2>1. PICK w \in Workers : Bind(w)
    BY <1>2
  <2>2. \A v \in Workers : v # w => pc'[v] = pc[v]
    BY <1>1, <2>1 DEF Bind, Goto, Typed, TypeOK, WorkerTypeOK
  <2>3. Bound(r)' => Bound(r) \/ (job[w] = r /\ pc'[w] = "exec")
    BY <1>1, <2>2, StepBound DEF Bind
  <2>. QED
    BY <2>1, <2>3, BindRun
<1>3. CASE \A w \in Workers : ~ Bind(w)
  <2>1. Bound(r)' => Bound(r)
    BY <1>1, <1>3, StepBound
  <2>2. CASE \A t \in Tasks : RowKept(t)
    BY <1>1, <2>1, <2>2, StepSession, KeptRun
  <2>3. CASE \E w \in Workers : \E q \in todo[w] : Cleared(w, q)
    BY <2>1, <2>3, ClearRun
  <2>4. CASE HandsOut /\ UNCHANGED runtimeVars
    BY <2>1, <2>4, HandOutRun
  <2>. QED
    BY <1>1, <1>3, <2>2, <2>3, <2>4, StepRows
<1>. QED
  BY <1>2, <1>3

-----------------------------------------------------------------------------
LEMMA CleanupInit == Init => CleanupInv
<1>. SUFFICES ASSUME Init PROVE CleanupInv
  OBVIOUS
<1>1. QueueInv /\ Typed
  BY TypedInit
<1>2. ExecInv /\ \A w \in Workers : WorkerInv(w)
  BY NoRunIsNone DEF Init, RuntimeInit, ExecInv, WorkerInv
<1>3. \A r \in Runs : RunInv(r)
  BY RunParts, RunsAssumption DEF Init, RuntimeInit, QueueInit, AbsentRow, RunInv, Bound, Numbers
<1>. QED
  BY <1>1, <1>2, <1>3 DEF CleanupInv

LEMMA CleanupNext == ASSUME DestroyWaits PROVE CleanupInv /\ [Next]_vars => CleanupInv'
<1>. SUFFICES ASSUME CleanupInv, [Next]_vars PROVE CleanupInv'
  OBVIOUS
<1>1. QueueInv' /\ Typed'
  BY TypedNext DEF CleanupInv
<1>2. ExecInv'
  BY StepOnward DEF CleanupInv
<1>. QED
  BY <1>1, <1>2, StepWorker, StepRun DEF CleanupInv

\* Where Destroy waits, no task is handed to another attempt, or put back into
\* the queue, while a process of an earlier attempt runs or its session lives.
THEOREM PredecessorIsGone == ASSUME DestroyWaits PROVE Spec => []PredecessorGone
<1>1. CleanupInv => PredecessorGone
  <2>. SUFFICES ASSUME CleanupInv, NEW t \in Tasks, NEW n \in Numbers, proc[<<t, n>>] # "none",
                       n < task[t].attempts \/ task[t].status = "queued"
                PROVE  sess[<<t, n>>] = "gone" /\ proc[<<t, n>>] # "running"
    BY DEF PredecessorGone
  <2>1. <<t, n>> \in Runs /\ RunInv(<<t, n>>) /\ Bound(<<t, n>>)
    BY DEF Runs, CleanupInv, Bound
  <2>2. sess[<<t, n>>] = "gone"
    BY <2>1 DEF RunInv
  <2>. QED
    BY <2>1, <2>2 DEF CleanupInv, ExecInv
<1>. QED
  BY <1>1, CleanupInit, CleanupNext, PTL DEF Spec

\* Where Destroy waits, a process that acts for an unfinished task is always
\* found in its row by the next recovery pass, whatever crashes.
THEOREM ExecutionIsRecorded == ASSUME DestroyWaits PROVE Spec => []ExecutionRecorded
<1>1. CleanupInv => ExecutionRecorded
  <2>. SUFFICES ASSUME CleanupInv, NEW r \in Runs, proc[r] = "running", task[r[1]].status \notin Terminal
                PROVE  task[r[1]].status = "running" /\ task[r[1]].session = r[2] /\ task[r[1]].runtime = r[2]
    BY DEF ExecutionRecorded
  <2>1. /\ r[1] \in Tasks /\ r[2] \in Numbers /\ task[r[1]] \in Row
        /\ Bound(r) /\ RunInv(r) /\ TaskInv(r[1]) /\ QueueTypeOK
        /\ sess[r] # "gone" /\ sess[r] # "none"
    BY RunParts, InvPerTask DEF CleanupInv, Typed, TypeOK, QueueTypeOK, Bound, ExecInv
  <2>2. task[r[1]].attempts = r[2] /\ task[r[1]].status # "queued"
    BY <2>1, RunsAssumption DEF RunInv, Numbers, Row
  <2>3. task[r[1]].status = "running"
    BY <2>1, <2>2, AbsentIsFresh, RunsAssumption DEF Numbers, Row, TaskStatuses, Terminal
  <2>4. task[r[1]].session = r[2]
    BY <2>1, <2>2, <2>3 DEF RunInv
  <2>. QED
    BY <2>1, <2>2, <2>3, <2>4, RunsAssumption DEF TaskInv, Numbers
<1>. QED
  BY <1>1, CleanupInit, CleanupNext, PTL DEF Spec

\* Where Destroy waits, two attempts of one task never execute at once, told to
\* stop or not: what the Linux runtime does not give.
THEOREM NoOverlap == ASSUME DestroyWaits PROVE Spec => []NoLiveOverlap
<1>1. CleanupInv => NoLiveOverlap
  <2>. SUFFICES ASSUME CleanupInv, NEW t \in Tasks, NEW n \in Numbers, NEW m \in Numbers,
                       n < m, proc[<<t, n>>] = "running", proc[<<t, m>>] = "running"
                PROVE  FALSE
    BY DEF NoLiveOverlap
  <2>1. /\ <<t, n>> \in Runs /\ RunInv(<<t, n>>) /\ Bound(<<t, n>>)
        /\ <<t, m>> \in Runs /\ RunInv(<<t, m>>) /\ sess[<<t, m>>] # "none"
        /\ sess[<<t, n>>] # "gone" /\ task[t].attempts \in Int
    BY RunsAssumption DEF Runs, CleanupInv, ExecInv, Bound, QueueInv, QueueTypeOK, Row
  <2>2. m <= task[t].attempts /\ ~ (n < task[t].attempts)
    BY <2>1 DEF RunInv
  <2>. QED
    BY <2>1, <2>2, RunsAssumption DEF Numbers
<1>. QED
  BY <1>1, CleanupInit, CleanupNext, PTL DEF Spec

-----------------------------------------------------------------------------
(***************************************************************************)
(* A recorded success is earned, on every platform.                        *)
(***************************************************************************)

\* What the worker can rely on between creating a session and recording "ok".
EarnedAt(w) ==
    /\ pc[w] \in {"bind", "exec", "call", "cancel", "destroy", "await"} => sess[job[w]] # "none"
    /\ pc[w] = "await" => sess[job[w]] \in {"destroying", "gone"}
    /\ res[w] = "none" \/ pc[w] \in {"cancel", "destroy", "await", "complete"}
    /\ pc[w] \in {"cancel", "destroy", "await", "complete"} /\ res[w] = "ok" => proc[job[w]] = "ok"
    /\ pc[w] = "complete" /\ res[w] = "ok" => sess[job[w]] = "gone"

Earned(t) ==
    task[t].status = "succeeded" =>
      <<t, task[t].attempts>> \in Runs /\ proc[<<t, task[t].attempts>>] = "ok" /\ sess[<<t, task[t].attempts>>] = "gone"

EarnedInv == QueueInv /\ Typed /\ (\A w \in Workers : EarnedAt(w)) /\ \A t \in Tasks : Earned(t)

\* Sessions move on and outcomes stay, whatever the platform does.
Lasting(r) == Onward(r) /\ (proc[r] = "ok" => proc'[r] = "ok")

LEMMA StepLasting ==
    ASSUME Typed, [Next]_vars
    PROVE  \A q \in Runs : Lasting(q)
<1>0. RuntimeTypeOK
  BY DEF Typed, TypeOK
<1>1. CASE UNCHANGED runtimeVars \/ HostRestart
  BY <1>1 DEF runtimeVars, HostRestart, Active, Lasting, Onward
<1>2. ASSUME NEW r \in Runs, StartExec(r) \/ EndExec(r) \/ EnterExec(r)
      PROVE \A q \in Runs : Lasting(q)
  BY <1>0, <1>2 DEF StartExec, EndExec, EnterExec, RuntimeTypeOK, Lasting, Onward
<1>3. ASSUME NEW r \in Runs, Disconnect(r) \/ CancelExec(r) \/ BeginDestroy(r) \/ EndDestroy(r)
      PROVE \A q \in Runs : Lasting(q)
  BY <1>0, <1>3 DEF Disconnect, CancelExec, BeginDestroy, EndDestroy, RuntimeTypeOK, Lasting, Onward
<1>4. ASSUME NEW r \in Runs, CreateSession(r) PROVE \A q \in Runs : Lasting(q)
  BY <1>0, <1>4 DEF CreateSession, RuntimeTypeOK, Lasting, Onward
<1>. QED
  BY <1>1, <1>2, <1>3, <1>4, StepRuntime DEF QuietRuntime, Begins

\* A worker that stays where it is, or leaves the run's course, owes nothing new.
LEMMA EarnedKept ==
    ASSUME Typed, NEW w \in Workers, EarnedAt(w), \A q \in Runs : Lasting(q),
           \/ /\ pc'[w] \in Places \ {"bind", "exec", "call", "cancel", "destroy", "await", "complete"}
              /\ \/ res'[w] = "none"
                 \/ res'[w] = res[w] /\ pc[w] \notin {"cancel", "destroy", "await", "complete"}
           \/ pc'[w] = pc[w] /\ job'[w] = job[w] /\ res'[w] = res[w]
    PROVE  EarnedAt(w)'
<1>1. pc[w] \in AtRun => job[w] \in Runs
  BY DEF Typed, JobHeld
<1>. QED
  BY <1>1 DEF EarnedAt, Lasting, Onward, AtRun

LEMMA EarnedRunOne ==
    ASSUME Typed, NEW w \in Workers, EarnedAt(w), \A q \in Runs : Lasting(q),
           RunOne(w)
    PROVE  EarnedAt(w)'
<1>0. /\ WorkerTypeOK /\ RuntimeTypeOK /\ (pc[w] \in AtRun => job[w] \in Runs)
  BY DEF Typed, TypeOK, JobHeld
<1>1. CASE ClaimOne(w) \/ CreateFails(w) \/ RecordCreateFailure(w) \/ RecordOutcome(w)
  BY <1>0, <1>1, EarnedKept
  DEF ClaimOne, CreateFails, RecordCreateFailure, RecordOutcome, EndRun, Goto, WorkerTypeOK, Places
<1>2. CASE CreateOne(w)
  BY <1>0, <1>2 DEF CreateOne, CreateSession, Goto, EarnedAt, WorkerTypeOK, RuntimeTypeOK, AtRun
<1>3. CASE Bind(w) \/ CallExec(w)
  BY <1>0, <1>3 DEF Bind, CallExec, Goto, EarnedAt, Lasting, Onward, WorkerTypeOK, AtRun
<1>4. CASE ExecReturns(w) \/ ExecFails(w)
  BY <1>0, <1>4
  DEF ExecReturns, ExecFails, Returned, Goto, EarnedAt, Lasting, Onward, WorkerTypeOK, AtRun
<1>5. CASE CancelLost(w)
  BY <1>0, <1>5 DEF CancelLost, Goto, EarnedAt, Lasting, Onward, WorkerTypeOK, AtRun
<1>6. CASE DestroyOwn(w)
  <2>1. job[w] \in Runs /\ sess'[job[w]] \in {"destroying", "gone"}
    BY <1>0, <1>6 DEF DestroyOwn, BeginDestroy, EarnedAt, RuntimeTypeOK, SessStates, AtRun
  <2>. QED
    BY <1>0, <1>6, <2>1 DEF DestroyOwn, Goto, EarnedAt, Lasting, Onward, WorkerTypeOK
<1>7. CASE OwnDestroyed(w)
  <2>1. job[w] \in Runs /\ sess'[job[w]] = "gone"
    BY <1>0, <1>7 DEF OwnDestroyed, EndDestroy, EarnedAt, RuntimeTypeOK, AtRun
  <2>2. CASE w \in lost
    BY <1>0, <1>7, <2>2, EarnedKept DEF OwnDestroyed, EndRun, WorkerTypeOK, Places
  <2>3. CASE w \notin lost
    BY <1>0, <1>7, <2>1, <2>3 DEF OwnDestroyed, Goto, EarnedAt, Lasting, WorkerTypeOK
  <2>. QED
    BY <2>2, <2>3
<1>8. CASE OwnDestroyFails(w)
  BY <1>0, <1>8 DEF OwnDestroyFails, EndRun, Goto, EarnedAt, WorkerTypeOK
<1>. QED
  BY <1>1, <1>2, <1>3, <1>4, <1>5, <1>6, <1>7, <1>8 DEF RunOne

LEMMA EarnedStep ==
    ASSUME Typed, Typed', NEW w \in Workers, EarnedAt(w), [Next]_vars
    PROVE  EarnedAt(w)'
<1>0. WorkerTypeOK /\ (\A q \in Runs : Lasting(q)) /\ pc'[w] \in Places
  BY StepLasting DEF Typed, TypeOK, WorkerTypeOK
<1>1. CASE RunOne(w)
  BY <1>0, <1>1, EarnedRunOne
<1>2. ASSUME NEW v \in Workers, v # w, Work(v) \/ Heartbeat(v) \/ HeartbeatFails(v) \/ QueueFails(v) \/ Shutdown(v)
      PROVE pc'[w] = pc[w] /\ job'[w] = job[w] /\ res'[w] = res[w]
  <2>1. CASE Recovery(v)
    BY <1>0, <1>2, <2>1
    DEF Recovery, ListExpired, DestroyRecorded, DestroyConfirmed, DestroyUnconfirmed, Clear, Goto, WorkerTypeOK
  <2>2. CASE \/ ClaimOne(v) \/ CreateOne(v) \/ CreateFails(v) \/ Bind(v) \/ CallExec(v)
             \/ ExecReturns(v) \/ ExecFails(v) \/ CancelLost(v) \/ DestroyOwn(v)
    BY <1>0, <1>2, <2>2
    DEF ClaimOne, CreateOne, CreateFails, Bind, CallExec, ExecReturns, ExecFails, Returned,
        CancelLost, DestroyOwn, Goto, WorkerTypeOK
  <2>3. CASE RecordCreateFailure(v) \/ OwnDestroyed(v) \/ OwnDestroyFails(v) \/ RecordOutcome(v)
    BY <1>0, <1>2, <2>3
    DEF RecordCreateFailure, OwnDestroyed, OwnDestroyFails, RecordOutcome, EndRun, Goto, WorkerTypeOK
  <2>4. CASE StopIdle(v) \/ Heartbeat(v) \/ HeartbeatFails(v) \/ QueueFails(v) \/ Shutdown(v)
    BY <1>0, <1>2, <2>4
    DEF StopIdle, Heartbeat, HeartbeatFails, QueueFails, Shutdown, EndRun, Goto, WorkerTypeOK
  <2>. QED
    BY <1>2, <2>1, <2>2, <2>3, <2>4 DEF Work, RunOne
<1>3. CASE Recovery(w) \/ StopIdle(w)
  BY <1>0, <1>3, EarnedKept
  DEF Recovery, ListExpired, MayList, DestroyRecorded, DestroyConfirmed, DestroyUnconfirmed, Clear,
      Cleaned, StopIdle, Goto, WorkerTypeOK, Places
<1>4. CASE Heartbeat(w) \/ HeartbeatFails(w) \/ Shutdown(w)
  BY <1>0, <1>4, EarnedKept DEF Heartbeat, HeartbeatFails, Shutdown
<1>5. CASE QueueFails(w)
  <2>1. CASE pc[w] = "bind"
    BY <1>0, <1>5, <2>1 DEF QueueFails, Goto, EndRun, EarnedAt, WorkerTypeOK, runtimeVars
  <2>2. CASE pc[w] # "bind"
    BY <1>0, <1>5, <2>2, EarnedKept DEF QueueFails, Goto, EndRun, WorkerTypeOK, Places
  <2>. QED
    BY <2>1, <2>2
<1>6. CASE \/ \E t \in Tasks : Expire(t) \/ \E p \in Policies : Submit(t, p)
           \/ \E r \in Runs : TTLPasses(r) \/ TimerDestroys(r) \/ NoticeDisconnect(r) \/ Proceed(r)
           \/ RestartHost \/ UNCHANGED vars
  BY <1>0, <1>6, EarnedKept
  DEF Expire, Submit, TTLPasses, TimerDestroys, NoticeDisconnect, Proceed, RestartHost, vars, workerVars
<1>7. CASE Crash \/ Restart
  BY <1>0, <1>7, EarnedKept DEF Crash, Restart, Places
<1>. QED
  BY <1>0, <1>1, <1>2, <1>3, <1>4, <1>5, <1>6, <1>7, EarnedKept DEF Next, Work

\* What the queue does without recording a success.
QueueOther ==
    \/ UNCHANGED queueVars \/ HandsOut \/ \E t \in Tasks : LeaseExpires(t)
    \/ \E r \in Runs : \/ Renew(r) \/ BindRuntimeAssociation(r) \/ ClearAssociation(r)
                       \/ Complete(r, "failed")

LEMMA OtherKeepsSuccess ==
    ASSUME QueueTypeOK, QueueOther, NEW t \in Tasks, task'[t].status = "succeeded"
    PROVE  task[t].status = "succeeded" /\ task'[t].attempts = task[t].attempts
<1>0. task \in [Tasks -> Row] /\ \A r \in Runs : r[1] \in Tasks
  BY RunParts DEF QueueTypeOK
<1>1. \A u \in Tasks : ReclaimedTask(u).status = "succeeded" => ReclaimedTask(u) = task[u]
  BY DEF ReclaimedTask
<1>2. CASE UNCHANGED queueVars \/ ClaimNothing
  BY <1>0, <1>1, <1>2 DEF queueVars, ClaimNothing
<1>3. ASSUME NEW u \in Tasks, ClaimTask(u) PROVE task'[t] = task[t]
  BY <1>0, <1>1, <1>3 DEF ClaimTask
<1>4. ASSUME NEW u \in Tasks, NEW p \in Policies, Enqueue(u, p) PROVE task'[t] = task[t]
  BY <1>0, <1>4 DEF Enqueue
<1>5. ASSUME NEW u \in Tasks, LeaseExpires(u) PROVE task'[t] = task[t]
  BY <1>0, <1>5 DEF LeaseExpires, Recording
<1>6. ASSUME NEW r \in Runs, Renew(r) \/ BindRuntimeAssociation(r) PROVE task'[t] = task[t]
  BY <1>0, <1>6 DEF Renew, BindRuntimeAssociation, Holds, Owns, Recording
<1>7. ASSUME NEW r \in Runs, ClearAssociation(r) \/ Complete(r, "failed") PROVE task'[t] = task[t]
  BY <1>0, <1>7 DEF ClearAssociation, NeedsCleanup, Expired, Complete, Recording, Finished
<1>. QED
  BY <1>2, <1>3, <1>4, <1>5, <1>6, <1>7 DEF QueueOther, HandsOut

LEMMA StepOutcome ==
    ASSUME Typed, [Next]_vars
    PROVE  \/ QueueOther
           \/ \E w \in Workers : pc[w] = "complete" /\ res[w] = "ok" /\ Complete(job[w], "succeeded")
<1>0. \A w \in Workers : (pc[w] \in AtRun => job[w] \in Runs) /\ todo[w] \subseteq Runs
  BY DEF Typed, TypeOK, WorkerTypeOK, JobHeld
<1>1. ASSUME NEW w \in Workers, Recovery(w) \/ StopIdle(w) PROVE QueueOther
  BY <1>0, <1>1
  DEF Recovery, ListExpired, DestroyRecorded, DestroyConfirmed, DestroyUnconfirmed, Clear, StopIdle, QueueOther
<1>2. ASSUME NEW w \in Workers, ClaimOne(w) \/ RecordCreateFailure(w) \/ Bind(w) \/ Heartbeat(w)
      PROVE QueueOther
  BY <1>0, <1>2 DEF ClaimOne, RecordCreateFailure, Bind, Heartbeat, QueueOther, HandsOut, AtRun
<1>3. ASSUME NEW w \in Workers, RecordOutcome(w)
      PROVE QueueOther \/ (pc[w] = "complete" /\ res[w] = "ok" /\ Complete(job[w], "succeeded"))
  BY <1>0, <1>3 DEF RecordOutcome, QueueOther, AtRun
<1>4. ASSUME NEW w \in Workers,
             \/ CreateOne(w) \/ CreateFails(w) \/ CallExec(w) \/ ExecReturns(w) \/ ExecFails(w)
             \/ CancelLost(w) \/ DestroyOwn(w) \/ OwnDestroyed(w) \/ OwnDestroyFails(w)
             \/ HeartbeatFails(w) \/ QueueFails(w) \/ Shutdown(w)
      PROVE QueueOther
  BY <1>4
  DEF CreateOne, CreateFails, CallExec, ExecReturns, ExecFails, Returned, CancelLost, DestroyOwn,
      OwnDestroyed, OwnDestroyFails, HeartbeatFails, QueueFails, Shutdown, QueueOther
<1>5. CASE \/ \E t \in Tasks : Expire(t) \/ \E p \in Policies : Submit(t, p)
           \/ \E r \in Runs : TTLPasses(r) \/ TimerDestroys(r) \/ NoticeDisconnect(r) \/ Proceed(r)
           \/ Crash \/ Restart \/ RestartHost \/ UNCHANGED vars
  BY <1>5
  DEF Expire, Submit, TTLPasses, TimerDestroys, NoticeDisconnect, Proceed, Crash, Restart, RestartHost,
      vars, QueueOther, HandsOut
<1>. QED
  BY <1>1, <1>2, <1>3, <1>4, <1>5 DEF Next, Work, RunOne

LEMMA EarnedNext == EarnedInv /\ [Next]_vars => EarnedInv'
<1>. SUFFICES ASSUME EarnedInv, [Next]_vars PROVE EarnedInv'
  OBVIOUS
<1>1. QueueInv' /\ Typed'
  BY TypedNext DEF EarnedInv
<1>2. \A w \in Workers : EarnedAt(w)'
  BY <1>1, EarnedStep DEF EarnedInv
<1>3. ASSUME NEW t \in Tasks, task'[t].status = "succeeded" PROVE Earned(t)'
  <2>1. QueueTypeOK /\ task \in [Tasks -> Row] /\ \A q \in Runs : Lasting(q)
    BY StepLasting DEF EarnedInv, Typed, TypeOK, QueueTypeOK
  <2>2. CASE task[t].status = "succeeded" /\ task'[t].attempts = task[t].attempts
    BY <2>1, <2>2 DEF EarnedInv, Earned, Lasting, Onward
  <2>3. CASE QueueOther
    BY <1>3, <2>1, <2>2, <2>3, OtherKeepsSuccess
  <2>4. ASSUME NEW w \in Workers, pc[w] = "complete", res[w] = "ok", Complete(job[w], "succeeded")
        PROVE  Earned(t)'
    <3>1. job[w] \in Runs /\ proc[job[w]] = "ok" /\ sess[job[w]] = "gone"
      BY <2>4 DEF EarnedInv, EarnedAt, Typed, JobHeld, AtRun
    <3>2. CASE job[w][1] = t
      <4>1. task'[t].attempts = job[w][2] /\ job[w] = <<t, job[w][2]>>
        BY <2>1, <2>4, <3>1, <3>2, RunParts DEF Complete, Holds, Owns, Finished
      <4>. QED
        BY <2>1, <3>1, <4>1 DEF Earned, Lasting, Onward
    <3>3. CASE job[w][1] # t
      BY <1>3, <2>1, <2>2, <2>4, <3>1, <3>3 DEF Complete
    <3>. QED
      BY <3>2, <3>3
  <2>. QED
    BY <2>3, <2>4, StepOutcome DEF EarnedInv
<1>. QED
  BY <1>1, <1>2, <1>3 DEF EarnedInv, Earned

\* A recorded success is a process that ran to its end in the task's last
\* attempt, in a session destroyed before, on every platform.
THEOREM SuccessEarned == Spec => []SuccessIsEarned
<1>1. Init => EarnedInv
  <2>1. Init => QueueInv /\ Typed
    BY TypedInit
  <2>2. Init => \A w \in Workers : EarnedAt(w)
    BY DEF Init, EarnedAt
  <2>3. Init => \A t \in Tasks : Earned(t)
    BY DEF Init, QueueInit, AbsentRow, Earned
  <2>. QED
    BY <2>1, <2>2, <2>3 DEF EarnedInv
<1>2. EarnedInv => SuccessIsEarned
  BY DEF EarnedInv, Earned, SuccessIsEarned
<1>. QED
  BY <1>1, <1>2, EarnedNext, PTL DEF Spec
=============================================================================
