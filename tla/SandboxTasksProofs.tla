------------------------- MODULE SandboxTasksProofs -------------------------
(***************************************************************************)
(* Theorems about durable sandbox tasks end to end, for any number of      *)
(* tasks, attempts, workers and faults: the types of the composition, and  *)
(* that it implements the queue.                                           *)
(***************************************************************************)
EXTENDS SandboxTasks, SandboxTaskQueueProofs

\* The places where a worker has a run in hand.
AtRun == {"create", "createfailed", "bind", "exec", "call", "cancel", "destroy", "await", "complete"}

JobHeld == \A w \in Workers : pc[w] \in AtRun => job[w] \in Runs

Typed == TypeOK /\ JobHeld

-----------------------------------------------------------------------------
(***************************************************************************)
(* The composition takes only steps of the queue.                          *)
(***************************************************************************)

LEMMA NoRunIsNone == NoRun \notin Runs
BY RunsAssumption DEF NoRun, Runs, Tasks, Numbers

LEMMA RecoveryIsQueueStep ==
    ASSUME Typed, NEW w \in Workers, Recovery(w)
    PROVE  [QueueNext]_queueVars
<1>1. CASE Clear(w)
  <2>1. PICK r \in todo[w] : UNCHANGED queueVars \/ ClearAssociation(r)
    BY <1>1 DEF Clear
  <2>2. r \in Runs
    BY <2>1 DEF Typed, TypeOK, WorkerTypeOK
  <2>. QED
    BY <2>1, <2>2 DEF QueueNext, CallerStep
<1>2. CASE ListExpired(w) \/ DestroyRecorded(w) \/ DestroyConfirmed(w) \/ DestroyUnconfirmed(w)
  BY <1>2 DEF ListExpired, DestroyRecorded, DestroyConfirmed, DestroyUnconfirmed, queueVars
<1>. QED
  BY <1>1, <1>2 DEF Recovery

LEMMA RunOneIsQueueStep ==
    ASSUME Typed, NEW w \in Workers, RunOne(w)
    PROVE  [QueueNext]_queueVars
<1>1. CASE ClaimOne(w)
  BY <1>1 DEF ClaimOne, QueueNext
<1>2. CASE RecordCreateFailure(w)
  <2>1. job[w] \in Runs
    BY <1>2 DEF RecordCreateFailure, Typed, JobHeld, AtRun
  <2>. QED
    BY <1>2, <2>1 DEF RecordCreateFailure, QueueNext, CallerStep, Terminal
<1>3. CASE Bind(w)
  <2>1. job[w] \in Runs
    BY <1>3 DEF Bind, Typed, JobHeld, AtRun
  <2>. QED
    BY <1>3, <2>1 DEF Bind, QueueNext, CallerStep
<1>4. CASE RecordOutcome(w)
  <2>1. job[w] \in Runs
    BY <1>4 DEF RecordOutcome, Typed, JobHeld, AtRun
  <2>. QED
    BY <1>4, <2>1 DEF RecordOutcome, QueueNext, CallerStep, Terminal
<1>5. CASE \/ CreateOne(w) \/ CreateFails(w) \/ CallExec(w) \/ ExecReturns(w) \/ ExecFails(w)
           \/ CancelLost(w) \/ DestroyOwn(w) \/ OwnDestroyed(w) \/ OwnDestroyFails(w)
  BY <1>5 DEF CreateOne, CreateFails, CallExec, ExecReturns, ExecFails, Returned, CancelLost,
              DestroyOwn, OwnDestroyed, OwnDestroyFails, queueVars
<1>. QED
  BY <1>1, <1>2, <1>3, <1>4, <1>5 DEF RunOne

LEMMA StepIsQueueStep ==
    ASSUME Typed, [Next]_vars
    PROVE  [QueueNext]_queueVars
<1>1. ASSUME NEW w \in Workers, Work(w) PROVE [QueueNext]_queueVars
  BY <1>1, RecoveryIsQueueStep, RunOneIsQueueStep DEF Work, StopIdle, queueVars
<1>2. ASSUME NEW w \in Workers, Heartbeat(w) PROVE [QueueNext]_queueVars
  <2>1. job[w] \in Runs
    BY <1>2 DEF Heartbeat, Typed, JobHeld, AtRun
  <2>. QED
    BY <1>2, <2>1 DEF Heartbeat, QueueNext, CallerStep
<1>3. ASSUME NEW w \in Workers, HeartbeatFails(w) \/ QueueFails(w) \/ Shutdown(w)
      PROVE [QueueNext]_queueVars
  BY <1>3 DEF HeartbeatFails, QueueFails, Shutdown, queueVars
<1>4. ASSUME NEW t \in Tasks, NEW p \in Policies, Submit(t, p) PROVE [QueueNext]_queueVars
  BY <1>4 DEF Submit, QueueNext
<1>5. ASSUME NEW t \in Tasks, Expire(t) PROVE [QueueNext]_queueVars
  BY <1>5 DEF Expire, QueueNext
<1>6. ASSUME NEW r \in Runs, TTLPasses(r) \/ TimerDestroys(r) \/ NoticeDisconnect(r) \/ Proceed(r)
      PROVE [QueueNext]_queueVars
  BY <1>6 DEF TTLPasses, TimerDestroys, NoticeDisconnect, Proceed, queueVars
<1>7. CASE Crash \/ Restart \/ RestartHost
  BY <1>7 DEF Crash, Restart, RestartHost, queueVars
<1>8. CASE UNCHANGED vars
  BY <1>8 DEF vars, queueVars
<1>. QED
  BY <1>1, <1>2, <1>3, <1>4, <1>5, <1>6, <1>7, <1>8 DEF Next


-----------------------------------------------------------------------------
(***************************************************************************)
(* Types, and that a worker at a run's place has a run in hand.            *)
(***************************************************************************)

\* TypeOK without the queue, and JobHeld.
Rest ==
    /\ RuntimeTypeOK /\ WorkerTypeOK
    /\ mapped \subseteq Runs /\ overdue \subseteq Runs /\ faults \in 0 .. MaxFaults
    /\ JobHeld

LEMMA TypedParts == Typed <=> QueueTypeOK /\ Rest
BY DEF Typed, TypeOK, Rest

LEMMA TypedPartsNext == QueueTypeOK' /\ Rest' => Typed'
BY DEF Typed, TypeOK, Rest

LEMMA FaultType == faults \in 0 .. MaxFaults /\ (Fault \/ UNCHANGED faults) => faults' \in 0 .. MaxFaults
BY TasksAssumption DEF Fault

\* Every operation of the runtime keeps the runtime's types.
LEMMA RuntimeTypes ==
    ASSUME RuntimeTypeOK, NEW r \in Runs,
           \/ CreateSession(r) \/ EnterExec(r) \/ StartExec(r) \/ EndExec(r) \/ Disconnect(r)
           \/ CancelExec(r) \/ BeginDestroy(r) \/ EndDestroy(r) \/ HostRestart
           \/ UNCHANGED runtimeVars
    PROVE  RuntimeTypeOK'
<1>1. CASE CreateSession(r) \/ EnterExec(r) \/ Disconnect(r) \/ CancelExec(r)
  BY <1>1 DEF CreateSession, EnterExec, Disconnect, CancelExec, RuntimeTypeOK, SessStates, ProcStates
<1>2. CASE StartExec(r)
  BY <1>2 DEF StartExec, RuntimeTypeOK, ProcStates, Results
<1>3. CASE EndExec(r)
  BY <1>3, RuntimeAssumption DEF EndExec, RuntimeTypeOK, ProcStates, Results
<1>4. CASE BeginDestroy(r) \/ EndDestroy(r)
  BY <1>4 DEF BeginDestroy, EndDestroy, RuntimeTypeOK, SessStates
<1>5. CASE HostRestart
  BY <1>5 DEF HostRestart, RuntimeTypeOK, SessStates, ProcStates, Results
<1>6. CASE UNCHANGED runtimeVars
  BY <1>6 DEF runtimeVars, RuntimeTypeOK
<1>. QED
  BY <1>1, <1>2, <1>3, <1>4, <1>5, <1>6

LEMMA RecoveryTypes ==
    ASSUME Rest, NEW w \in Workers, Recovery(w)
    PROVE  Rest'
<1>1. CASE ListExpired(w)
  <2>1. RuntimeTypeOK'
    BY <1>1 DEF ListExpired, runtimeVars, Rest, RuntimeTypeOK
  <2>2. {r \in Runs : NeedsCleanup(r[1]) /\ task[r[1]].session = r[2]} \in SUBSET Runs
    OBVIOUS
  <2>3. \A listed \in SUBSET Runs : {r[1] : r \in listed} \in SUBSET Tasks /\ Cleaned(w, listed) \in Places
    BY DEF Runs, Cleaned, Places
  <2>. QED
    BY <1>1, <2>1, <2>2, <2>3
    DEF ListExpired, Cleaned, Rest, WorkerTypeOK, JobHeld, AtRun
<1>2. CASE DestroyRecorded(w) \/ DestroyConfirmed(w)
  <2>1. PICK r \in Runs : BeginDestroy(r) \/ EndDestroy(r)
    BY <1>2 DEF DestroyRecorded, DestroyConfirmed, Rest, WorkerTypeOK
  <2>2. RuntimeTypeOK'
    BY <2>1, RuntimeTypes DEF Rest
  <2>. QED
    BY <1>2, <2>2 DEF DestroyRecorded, DestroyConfirmed, Goto, Rest, WorkerTypeOK, JobHeld, AtRun, Places
<1>3. CASE DestroyUnconfirmed(w)
  BY <1>3, FaultType
  DEF DestroyUnconfirmed, Goto, runtimeVars, Rest, RuntimeTypeOK, WorkerTypeOK, JobHeld, AtRun, Places
<1>4. CASE Clear(w)
  BY <1>4
  DEF Clear, Goto, Cleaned, runtimeVars, Rest, RuntimeTypeOK, WorkerTypeOK, JobHeld, AtRun, Places
<1>. QED
  BY <1>1, <1>2, <1>3, <1>4 DEF Recovery

LEMMA EndRunTypes ==
    ASSUME WorkerTypeOK, JobHeld, NEW w \in Workers, EndRun(w)
    PROVE  WorkerTypeOK' /\ JobHeld'
BY DEF EndRun, WorkerTypeOK, JobHeld, AtRun, Places

LEMMA RunOneTypes ==
    ASSUME Rest, QueueTypeOK, NEW w \in Workers, RunOne(w)
    PROVE  Rest'
<1>1. CASE ClaimOne(w)
  <2>1. \A t \in Tasks : ClaimTask(t) => <<t, task[t].attempts + 1>> \in Runs
    BY RunsAssumption DEF ClaimTask, QueueTypeOK, Row, Runs, Numbers
  <2>. QED
    BY <1>1, <2>1
    DEF ClaimOne, Goto, runtimeVars, Rest, RuntimeTypeOK, WorkerTypeOK, JobHeld, AtRun, Places
<1>2. CASE CreateOne(w) \/ CreateFails(w)
  <2>1. job[w] \in Runs
    BY <1>2 DEF CreateOne, CreateFails, Rest, JobHeld, AtRun
  <2>2. RuntimeTypeOK'
    BY <1>2, <2>1, RuntimeTypes DEF CreateOne, CreateFails, Rest
  <2>. QED
    BY <1>2, <2>1, <2>2 DEF CreateOne, CreateFails, Goto, Rest, WorkerTypeOK, JobHeld, AtRun, Places
<1>3. CASE RecordCreateFailure(w) \/ RecordOutcome(w)
  <2>1. RuntimeTypeOK'
    BY <1>3 DEF RecordCreateFailure, RecordOutcome, runtimeVars, Rest, RuntimeTypeOK
  <2>. QED
    BY <1>3, <2>1, EndRunTypes DEF RecordCreateFailure, RecordOutcome, Rest
<1>4. CASE Bind(w)
  BY <1>4 DEF Bind, Goto, runtimeVars, Rest, RuntimeTypeOK, WorkerTypeOK, JobHeld, AtRun, Places
<1>5. CASE CallExec(w)
  <2>1. job[w] \in Runs
    BY <1>5 DEF CallExec, Rest, JobHeld, AtRun
  <2>2. RuntimeTypeOK'
    BY <1>5, <2>1, RuntimeTypes DEF CallExec, Rest
  <2>. QED
    BY <1>5, <2>2 DEF CallExec, Goto, Rest, WorkerTypeOK, JobHeld, AtRun, Places
<1>6. ASSUME NEW o \in Results, pc[w] \in AtRun, Returned(w, o) PROVE Rest'
  BY <1>6 DEF Returned, Goto, runtimeVars, Rest, RuntimeTypeOK, WorkerTypeOK, JobHeld, AtRun, Places
<1>7. CASE ExecReturns(w) \/ ExecFails(w)
  BY <1>6, <1>7 DEF ExecReturns, ExecFails, Results, AtRun
<1>8. CASE CancelLost(w) \/ DestroyOwn(w)
  <2>1. job[w] \in Runs
    BY <1>8 DEF CancelLost, DestroyOwn, Rest, JobHeld, AtRun
  <2>2. RuntimeTypeOK'
    BY <1>8, <2>1, RuntimeTypes DEF CancelLost, DestroyOwn, Rest
  <2>. QED
    BY <1>8, <2>2 DEF CancelLost, DestroyOwn, Goto, Rest, WorkerTypeOK, JobHeld, AtRun, Places
<1>9. CASE OwnDestroyed(w)
  <2>1. job[w] \in Runs
    BY <1>9 DEF OwnDestroyed, Rest, JobHeld, AtRun
  <2>2. RuntimeTypeOK'
    BY <1>9, <2>1, RuntimeTypes DEF OwnDestroyed, Rest
  <2>3. CASE EndRun(w)
    BY <1>9, <2>2, <2>3, EndRunTypes DEF OwnDestroyed, Rest
  <2>4. CASE Goto(w, "complete") /\ UNCHANGED <<boot, job, res, lost, todo, unrenewed, stopping>>
    BY <1>9, <2>1, <2>2, <2>4 DEF OwnDestroyed, Goto, Rest, WorkerTypeOK, JobHeld, AtRun, Places
  <2>. QED
    BY <1>9, <2>3, <2>4 DEF OwnDestroyed
<1>10. CASE OwnDestroyFails(w)
  <2>1. RuntimeTypeOK'
    BY <1>10 DEF OwnDestroyFails, runtimeVars, Rest, RuntimeTypeOK
  <2>2. CASE w \in lost
    BY <1>10, <2>1, <2>2, EndRunTypes DEF OwnDestroyFails, Rest
  <2>3. CASE w \notin lost
    BY <1>10, <2>1, <2>3 DEF OwnDestroyFails, Goto, Rest, WorkerTypeOK, JobHeld, AtRun, Places, Results
  <2>. QED
    BY <2>2, <2>3
<1>. QED
  BY <1>1, <1>2, <1>3, <1>4, <1>5, <1>7, <1>8, <1>9, <1>10 DEF RunOne

LEMMA LifeTypes ==
    ASSUME Rest, QueueTypeOK,
           \/ \E w \in Workers : \/ StopIdle(w) \/ Heartbeat(w) \/ HeartbeatFails(w)
                                 \/ QueueFails(w) \/ Shutdown(w)
           \/ \E t \in Tasks, p \in Policies : Submit(t, p)
           \/ \E t \in Tasks : Expire(t)
           \/ \E r \in Runs : TTLPasses(r) \/ TimerDestroys(r) \/ NoticeDisconnect(r) \/ Proceed(r)
           \/ Crash \/ Restart \/ RestartHost \/ UNCHANGED vars
    PROVE  Rest'
<1>1. ASSUME NEW w \in Workers, StopIdle(w) \/ Heartbeat(w) \/ HeartbeatFails(w) \/ Shutdown(w)
      PROVE Rest'
  BY <1>1, FaultType
  DEF StopIdle, Heartbeat, HeartbeatFails, Shutdown, Goto, runtimeVars,
      Rest, RuntimeTypeOK, WorkerTypeOK, JobHeld, AtRun, Places
<1>2. ASSUME NEW w \in Workers, QueueFails(w) PROVE Rest'
  <2>1. RuntimeTypeOK' /\ faults' \in 0 .. MaxFaults
    BY <1>2, FaultType DEF QueueFails, runtimeVars, Rest, RuntimeTypeOK
  <2>2. CASE EndRun(w)
    BY <1>2, <2>1, <2>2, EndRunTypes DEF QueueFails, Rest
  <2>3. CASE ~ EndRun(w)
    BY <1>2, <2>1, <2>3 DEF QueueFails, Goto, Rest, WorkerTypeOK, JobHeld, AtRun, Places
  <2>. QED
    BY <2>2, <2>3
<1>3. ASSUME NEW t \in Tasks, (\E p \in Policies : Submit(t, p)) \/ Expire(t) PROVE Rest'
  BY <1>3, FaultType
  DEF Submit, Expire, runtimeVars, workerVars, Rest, RuntimeTypeOK, WorkerTypeOK, JobHeld
<1>4. ASSUME NEW r \in Runs, TTLPasses(r) \/ TimerDestroys(r) \/ NoticeDisconnect(r) \/ Proceed(r)
      PROVE Rest'
  <2>1. RuntimeTypeOK'
    BY <1>4, RuntimeTypes DEF TTLPasses, TimerDestroys, NoticeDisconnect, Proceed, Rest
  <2>. QED
    BY <1>4, <2>1, FaultType
    DEF TTLPasses, TimerDestroys, NoticeDisconnect, Proceed, workerVars, Rest, WorkerTypeOK, JobHeld
<1>5. CASE Crash \/ Restart
  BY <1>5, FaultType
  DEF Crash, Restart, runtimeVars, Rest, RuntimeTypeOK, WorkerTypeOK, JobHeld, AtRun, Places
<1>6. CASE RestartHost
  <2>1. RuntimeTypeOK'
    BY <1>6 DEF RestartHost, HostRestart, Rest, RuntimeTypeOK, SessStates, ProcStates, Results
  <2>. QED
    BY <1>6, <2>1, FaultType DEF RestartHost, workerVars, Rest, WorkerTypeOK, JobHeld
<1>7. CASE UNCHANGED vars
  BY <1>7 DEF vars, workerVars, runtimeVars, Rest, RuntimeTypeOK, WorkerTypeOK, JobHeld
<1>. QED
  BY <1>1, <1>2, <1>3, <1>4, <1>5, <1>6, <1>7

LEMMA TypedInit == Init => QueueInv /\ Typed
<1>. SUFFICES ASSUME Init PROVE QueueInv /\ Typed
  OBVIOUS
<1>1. QueueInv
  BY InitInv DEF Init
<1>2. Rest
  BY TasksAssumption
  DEF Init, RuntimeInit, Rest, RuntimeTypeOK, WorkerTypeOK, JobHeld, AtRun, Places, SessStates, ProcStates
<1>. QED
  BY <1>1, <1>2, TypedParts DEF QueueInv

LEMMA TypedNext == QueueInv /\ Typed /\ [Next]_vars => (QueueInv /\ Typed)'
<1>. SUFFICES ASSUME QueueInv, Typed, [Next]_vars PROVE QueueInv' /\ Typed'
  OBVIOUS
<1>1. QueueInv'
  BY NextInv, StepIsQueueStep
<1>2. Rest /\ QueueTypeOK
  BY TypedParts
<1>3. Rest'
  BY <1>2, RecoveryTypes, RunOneTypes, LifeTypes DEF Next, Work
<1>. QED
  BY <1>1, <1>3, TypedPartsNext DEF QueueInv

\* Rows, sessions, processes and worker state keep their types.
THEOREM TasksTypes == Spec => []TypeOK
<1>1. Spec => [](QueueInv /\ Typed)
  BY TypedInit, TypedNext, PTL DEF Spec
<1>. QED
  BY <1>1, PTL DEF Typed

\* Workers, Broker, runtime host and faults together only ever do to the two
\* tables what the queue's specification allows: the composition implements it.
THEOREM TasksImplementQueue == Spec => QueueSpec
<1>1. Spec => [](QueueInv /\ Typed)
  BY TypedInit, TypedNext, PTL DEF Spec
<1>2. Init => QueueInit
  BY DEF Init
<1>. QED
  BY <1>1, <1>2, StepIsQueueStep, PTL DEF Spec, QueueSpec
=============================================================================
