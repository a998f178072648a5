---------------------------- MODULE SandboxTasks ----------------------------
(***************************************************************************)
(* Durable sandbox tasks end to end: the worker loops of one control-plane *)
(* process (task_worker.go, task_executor.go), the Broker they share       *)
(* (broker.go, broker_restore.go), the queue of SandboxTaskQueue and the   *)
(* runtime host of SandboxRuntime, which outlives the process.             *)
(*                                                                         *)
(* One process runs a worker started by cmd/server (or cmd/desktop) and a  *)
(* second one started by api/router.go: the model takes any set.  pc[w] is *)
(* the place of worker w in RunOne; between two places anything else may   *)
(* happen.  The process may crash or be shut down at any place, a lease    *)
(* may run out under a slow worker, a session may outlive its TTL, a call  *)
(* to the runtime may fail.  The faults that can recur for ever are        *)
(* bounded by MaxFaults, so that liveness can be stated.                   *)
(***************************************************************************)
EXTENDS SandboxTaskQueue, SandboxRuntime, FiniteSets

CONSTANTS
    Workers,        \* the worker loops of the process
    MaxFaults       \* bound: crashes, shutdowns, late or failed renewals,
                    \* failed transactions, elapsed TTLs, failed cleanups, host restarts

ASSUME TasksAssumption == MaxFaults \in Nat /\ IsFiniteSet(Workers)

NoRun == <<0, 0>>

VARIABLES
    pc,             \* where each worker is
    boot,           \* the workers still in Start
    job,            \* the run a worker has claimed
    res,            \* what Exec returned for it
    lost,           \* the workers that must not complete their run
    todo,           \* expired runs a recovery pass still has to destroy
    unrenewed,      \* tasks whose lease is as old as the pass's listing
    stopping,       \* the workers whose context is cancelled
    mapped,         \* the Broker's sessions
    overdue,        \* sessions past their TTL
    faults          \* faults so far

workerVars == <<pc, boot, job, res, lost, todo, unrenewed, stopping>>
vars == <<queueVars, runtimeVars, workerVars, mapped, overdue, faults>>

Places == {"stopped", "idle", "cleanup", "confirm", "clear", "claim", "create",
           "createfailed", "bind", "exec", "call", "cancel", "destroy", "await", "complete"}

WorkerTypeOK ==
    /\ pc \in [Workers -> Places] /\ boot \subseteq Workers
    /\ job \in [Workers -> Runs \union {NoRun}]
    /\ res \in [Workers -> Results \union {"none"}]
    /\ lost \subseteq Workers /\ stopping \subseteq Workers
    /\ todo \in [Workers -> SUBSET Runs] /\ unrenewed \in [Workers -> SUBSET Tasks]

\* Rows, sessions and worker state have the values the code can give them.
TypeOK ==
    /\ QueueTypeOK /\ RuntimeTypeOK /\ WorkerTypeOK
    /\ mapped \subseteq Runs /\ overdue \subseteq Runs /\ faults \in 0 .. MaxFaults

Init ==
    /\ QueueInit /\ RuntimeInit
    /\ pc = [w \in Workers |-> "idle"] /\ boot = Workers
    /\ job = [w \in Workers |-> NoRun] /\ res = [w \in Workers |-> "none"]
    /\ lost = {} /\ stopping = {}
    /\ todo = [w \in Workers |-> {}] /\ unrenewed = [w \in Workers |-> {}]
    /\ mapped = {} /\ overdue = {} /\ faults = 0

Fault == faults < MaxFaults /\ faults' = faults + 1

Goto(w, place) == pc' = [pc EXCEPT ![w] = place]

\* A worker whose loop has ended takes the process down with it.
GoingDown == \E w \in Workers : pc[w] = "stopped"

\* RunOne returns; a claimed run is let go.
EndRun(w) ==
    /\ pc' = [pc EXCEPT ![w] = IF w \in stopping THEN "stopped" ELSE "idle"]
    /\ job' = [job EXCEPT ![w] = NoRun]
    /\ res' = [res EXCEPT ![w] = "none"]
    /\ lost' = lost \ {w}
    /\ UNCHANGED <<boot, todo, unrenewed, stopping>>

-----------------------------------------------------------------------------
(***************************************************************************)
(* Recovery: CleanupExpiredRuntimeAssociations, called by Start and by     *)
(* every RunOne before it claims.                                          *)
(***************************************************************************)

\* Where the worker goes when there is nothing (more) to clean up.
Cleaned(w, rest) ==
    IF rest # {} THEN "cleanup" ELSE IF w \in boot THEN "idle" ELSE "claim"

\* Workers are started one after the other.
MayList(w) == pc[w] = "idle" /\ w \notin stopping
              /\ (w \in boot => \A v \in boot \ {w} : pc[v] = "idle")

\* Variant: associations are recovered when a worker starts, and only then.
ListExpiredAtBoot(w) ==
    LET listed == {r \in Runs : w \in boot /\ NeedsCleanup(r[1]) /\ task[r[1]].session = r[2]}
    IN  /\ MayList(w)
        /\ todo' = [todo EXCEPT ![w] = listed]
        /\ unrenewed' = [unrenewed EXCEPT ![w] = {r[1] : r \in listed}]
        /\ pc' = [pc EXCEPT ![w] = Cleaned(w, listed)]
        /\ boot' = IF listed = {} THEN boot \ {w} ELSE boot
        /\ UNCHANGED <<queueVars, runtimeVars, job, res, lost, stopping, mapped, overdue, faults>>

\* Expired associations are listed, oldest task first, as of now.
ListExpired(w) ==
    LET listed == {r \in Runs : NeedsCleanup(r[1]) /\ task[r[1]].session = r[2]}
    IN  /\ MayList(w)
        /\ todo' = [todo EXCEPT ![w] = listed]
        /\ unrenewed' = [unrenewed EXCEPT ![w] = {r[1] : r \in listed}]
        /\ pc' = [pc EXCEPT ![w] = Cleaned(w, listed)]
        /\ boot' = IF listed = {} THEN boot \ {w} ELSE boot
        /\ UNCHANGED <<queueVars, runtimeVars, job, res, lost, stopping, mapped, overdue, faults>>

First(w, r) == r \in todo[w] /\ \A q \in todo[w] : r[1] <= q[1]

\* DestroyRecordedRuntime: whoever else may be using the session.
DestroyRecorded(w) ==
    /\ pc[w] = "cleanup" /\ w \notin stopping
    /\ \E r \in todo[w] : First(w, r) /\ BeginDestroy(r)
    /\ Goto(w, "confirm")
    /\ UNCHANGED <<queueVars, boot, job, res, lost, todo, unrenewed, stopping, mapped, overdue, faults>>

DestroyConfirmed(w) ==
    /\ pc[w] = "confirm"
    /\ \E r \in todo[w] : First(w, r) /\ EndDestroy(r) /\ mapped' = mapped \ {r}
    /\ Goto(w, "clear")
    /\ UNCHANGED <<queueVars, boot, job, res, lost, todo, unrenewed, stopping, overdue, faults>>

\* An unconfirmed destruction ends the worker.
DestroyUnconfirmed(w) ==
    /\ pc[w] \in {"cleanup", "confirm"}
    /\ (w \in stopping /\ UNCHANGED faults) \/ Fault
    /\ Goto(w, "stopped")
    /\ todo' = [todo EXCEPT ![w] = {}] /\ unrenewed' = [unrenewed EXCEPT ![w] = {}]
    /\ UNCHANGED <<queueVars, runtimeVars, boot, job, res, lost, stopping, mapped, overdue>>

\* Variant: the update does not look at the lease again.
ClearWhateverLease(w) ==
    \E r \in todo[w] :
        /\ pc[w] = "clear" /\ First(w, r) /\ w \notin stopping
        /\ task' = [task EXCEPT ![r[1]] = Recording(r[1], task[r[1]].lease, 0, 0)]
        /\ Goto(w, Cleaned(w, todo[w] \ {r}))
        /\ todo' = [todo EXCEPT ![w] = @ \ {r}]
        /\ UNCHANGED <<attempt, runtimeVars, boot, job, res, lost, unrenewed, stopping,
                       mapped, overdue, faults>>

\* The association is cleared if the lease is still the expired one that was
\* listed; otherwise the pass fails and the worker ends.
Clear(w) ==
    \E r \in todo[w] :
        LET unchanged == w \notin stopping /\ r[1] \in unrenewed[w]
                         /\ NeedsCleanup(r[1]) /\ task[r[1]].session = r[2]
            rest == IF unchanged THEN todo[w] \ {r} ELSE {}
        IN  /\ pc[w] = "clear" /\ First(w, r)
            /\ IF unchanged THEN ClearAssociation(r) ELSE UNCHANGED queueVars
            /\ Goto(w, IF unchanged THEN Cleaned(w, rest) ELSE "stopped")
            /\ todo' = [todo EXCEPT ![w] = rest]
            /\ unrenewed' = [unrenewed EXCEPT ![w] = IF rest = {} THEN {} ELSE @]
            /\ boot' = IF unchanged /\ rest = {} THEN boot \ {w} ELSE boot
            /\ UNCHANGED <<runtimeVars, job, res, lost, stopping, mapped, overdue, faults>>

-----------------------------------------------------------------------------
(***************************************************************************)
(* RunOne.                                                                 *)
(***************************************************************************)

ClaimOne(w) ==
    /\ pc[w] = "claim" /\ w \notin stopping
    /\ \/ \E t \in Tasks :
            /\ ClaimTask(t)
            /\ job' = [job EXCEPT ![w] = <<t, task[t].attempts + 1>>]
            /\ Goto(w, "create")
       \/ ClaimNothing /\ Goto(w, "idle") /\ UNCHANGED job
       \/ /\ \E t \in Tasks : Claimable(t) /\ task[t].attempts = MaxAttempts   \* bound
          /\ Goto(w, "idle") /\ UNCHANGED <<queueVars, job>>
    /\ UNCHANGED <<runtimeVars, boot, res, lost, todo, unrenewed, stopping, mapped, overdue, faults>>

\* Broker.Create: the runtime session exists before the Broker knows it.
CreateOne(w) ==
    /\ pc[w] = "create"
    /\ CreateSession(job[w])
    /\ mapped' = mapped \union {job[w]}
    /\ Goto(w, "bind")
    /\ UNCHANGED <<queueVars, boot, job, res, lost, todo, unrenewed, stopping, overdue, faults>>

\* Broker.Create fails: refused, or its answer is lost and the session stays.
CreateFails(w) ==
    /\ pc[w] = "create"
    /\ CreateSession(job[w]) \/ UNCHANGED runtimeVars
    /\ Goto(w, "createfailed")
    /\ UNCHANGED <<queueVars, boot, job, res, lost, todo, unrenewed, stopping, mapped, overdue, faults>>

RecordCreateFailure(w) ==
    /\ pc[w] = "createfailed"
    /\ IF Holds(job[w]) THEN Complete(job[w], "failed") ELSE UNCHANGED queueVars
    /\ EndRun(w)
    /\ UNCHANGED <<runtimeVars, mapped, overdue, faults>>

\* Variant: the run goes on although its lease was lost before the bind.
BindAnyway(w) ==
    /\ pc[w] = "bind"
    /\ IF w \notin stopping /\ Holds(job[w])
       THEN BindRuntimeAssociation(job[w]) ELSE UNCHANGED queueVars
    /\ Goto(w, "exec")
    /\ UNCHANGED <<runtimeVars, boot, job, res, lost, todo, unrenewed, stopping, mapped, overdue, faults>>

\* Both identities are recorded before anything executes, or nothing executes.
Bind(w) ==
    /\ pc[w] = "bind"
    /\ IF w \notin stopping /\ Holds(job[w])
       THEN BindRuntimeAssociation(job[w]) /\ Goto(w, "exec") /\ UNCHANGED lost
       ELSE UNCHANGED queueVars /\ Goto(w, "destroy") /\ lost' = lost \union {w}
    /\ UNCHANGED <<runtimeVars, boot, job, res, todo, unrenewed, stopping, mapped, overdue, faults>>

\* One tick of the heartbeat, which runs beside Exec.  A renewal outdates every
\* listing that found the task expired.
Heartbeat(w) ==
    /\ pc[w] \in {"exec", "call"} /\ w \notin lost
    /\ IF Owns(job[w])
       THEN /\ Renew(job[w])
            /\ unrenewed' = [v \in Workers |-> unrenewed[v] \ {job[w][1]}]
            /\ UNCHANGED lost
       ELSE UNCHANGED <<queueVars, unrenewed>> /\ lost' = lost \union {w}
    /\ UNCHANGED <<runtimeVars, pc, boot, job, res, todo, stopping, mapped, overdue, faults>>

\* A renewal that fails for a reason of its own also gives the run up.
HeartbeatFails(w) ==
    /\ pc[w] \in {"exec", "call"} /\ w \notin lost
    /\ Fault
    /\ lost' = lost \union {w}
    /\ UNCHANGED <<queueVars, runtimeVars, pc, boot, job, res, todo, unrenewed, stopping, mapped, overdue>>

\* Broker.Exec is authorized and reaches the runtime, which knows the session.
CallExec(w) ==
    /\ pc[w] = "exec" /\ w \notin lost \union stopping
    /\ job[w] \in mapped \ overdue
    /\ EnterExec(job[w])
    /\ Goto(w, "call")
    /\ UNCHANGED <<queueVars, boot, job, res, lost, todo, unrenewed, stopping, mapped, overdue, faults>>

\* Exec has returned and the heartbeat has ended.
Returned(w, result) ==
    /\ res' = [res EXCEPT ![w] = result]
    /\ Goto(w, IF w \in lost THEN "cancel" ELSE "destroy")
    /\ UNCHANGED <<queueVars, runtimeVars, boot, job, lost, todo, unrenewed, stopping, mapped, overdue, faults>>

ExecReturns(w) ==
    /\ pc[w] = "call" /\ proc[job[w]] \in Results
    /\ Returned(w, proc[job[w]])

\* Exec is refused, its context is cancelled, or the connection breaks; in the
\* last two cases the process tree is still there.
ExecFails(w) ==
    /\ pc[w] \in {"exec", "call"}
    /\ Returned(w, "err")

CancelLost(w) ==
    /\ pc[w] = "cancel"
    /\ IF job[w] \in mapped \ overdue THEN CancelExec(job[w]) ELSE UNCHANGED runtimeVars
    /\ Goto(w, "destroy")
    /\ UNCHANGED <<queueVars, boot, job, res, lost, todo, unrenewed, stopping, mapped, overdue, faults>>

DestroyOwn(w) ==
    /\ pc[w] = "destroy" /\ job[w] \in mapped \ overdue
    /\ BeginDestroy(job[w])
    /\ Goto(w, "await")
    /\ UNCHANGED <<queueVars, boot, job, res, lost, todo, unrenewed, stopping, mapped, overdue, faults>>

OwnDestroyed(w) ==
    /\ pc[w] = "await"
    /\ EndDestroy(job[w])
    /\ mapped' = mapped \ {job[w]}
    /\ IF w \in lost
       THEN EndRun(w)
       ELSE Goto(w, "complete") /\ UNCHANGED <<boot, job, res, lost, todo, unrenewed, stopping>>
    /\ UNCHANGED <<queueVars, overdue, faults>>

\* Variant: the error of Destroy is dropped.
OwnDestroyErrorDropped(w) ==
    /\ pc[w] \in {"destroy", "await"}
    /\ IF w \in lost
       THEN EndRun(w)
       ELSE Goto(w, "complete") /\ UNCHANGED <<boot, job, res, lost, todo, unrenewed, stopping>>
    /\ UNCHANGED <<queueVars, runtimeVars, mapped, overdue, faults>>

\* Destroy is not authorized (session unknown to the Broker or past its TTL),
\* times out, or its call fails: a successful run becomes a failed one.
OwnDestroyFails(w) ==
    /\ pc[w] \in {"destroy", "await"}
    /\ IF w \in lost
       THEN EndRun(w)
       ELSE /\ Goto(w, "complete")
            /\ res' = [res EXCEPT ![w] = "err"]
            /\ UNCHANGED <<boot, job, lost, todo, unrenewed, stopping>>
    /\ UNCHANGED <<queueVars, runtimeVars, mapped, overdue, faults>>

\* The outcome is recorded, unless the worker is shutting down, the run was
\* superseded or the result is larger than a row may hold.
RecordOutcome(w) ==
    /\ pc[w] = "complete"
    /\ IF w \notin stopping /\ res[w] # "big" /\ Holds(job[w])
       THEN Complete(job[w], IF res[w] = "ok" THEN "succeeded" ELSE "failed")
       ELSE UNCHANGED queueVars
    /\ EndRun(w)
    /\ UNCHANGED <<runtimeVars, mapped, overdue, faults>>

\* A transaction of the queue fails (database busy or gone): listing or claiming
\* ends the worker, a failed bind gives the run up, a failed completion is only
\* reported.
QueueFails(w) ==
    /\ Fault
    /\ \/ /\ pc[w] \in {"idle", "claim"}
          /\ Goto(w, "stopped")
          /\ UNCHANGED <<boot, job, res, lost, todo, unrenewed, stopping>>
       \/ /\ pc[w] = "bind"
          /\ Goto(w, "destroy") /\ lost' = lost \union {w}
          /\ UNCHANGED <<boot, job, res, todo, unrenewed, stopping>>
       \/ pc[w] \in {"createfailed", "complete"} /\ EndRun(w)
    /\ UNCHANGED <<queueVars, runtimeVars, mapped, overdue>>

-----------------------------------------------------------------------------
(***************************************************************************)
(* The lives of worker, process, lease, session and runtime host.          *)
(***************************************************************************)

\* Every loop looks at its context between two tasks.
StopIdle(w) ==
    /\ pc[w] \in {"idle", "claim"} /\ w \in stopping
    /\ Goto(w, "stopped")
    /\ UNCHANGED <<queueVars, runtimeVars, boot, job, res, lost, todo, unrenewed, stopping, mapped, overdue, faults>>

Shutdown(w) ==
    /\ pc[w] # "stopped" /\ w \notin stopping
    /\ (GoingDown /\ UNCHANGED faults) \/ Fault
    /\ stopping' = stopping \union {w}
    /\ UNCHANGED <<queueVars, runtimeVars, pc, boot, job, res, lost, todo, unrenewed, mapped, overdue>>

\* The process is gone, and with it the Broker's map.
Crash ==
    /\ \E w \in Workers : pc[w] # "stopped"
    /\ (GoingDown /\ UNCHANGED faults) \/ Fault
    /\ pc' = [w \in Workers |-> "stopped"] /\ boot' = {}
    /\ job' = [w \in Workers |-> NoRun] /\ res' = [w \in Workers |-> "none"]
    /\ lost' = {} /\ stopping' = {}
    /\ todo' = [w \in Workers |-> {}] /\ unrenewed' = [w \in Workers |-> {}]
    /\ mapped' = {}
    /\ UNCHANGED <<queueVars, runtimeVars, overdue>>

Restart ==
    /\ \A w \in Workers : pc[w] = "stopped"
    /\ pc' = [w \in Workers |-> "idle"] /\ boot' = Workers
    /\ stopping' = {} /\ mapped' = {}
    /\ UNCHANGED <<queueVars, runtimeVars, job, res, lost, todo, unrenewed, overdue, faults>>

Submit(t, policy) ==
    /\ Enqueue(t, policy)
    /\ UNCHANGED <<runtimeVars, workerVars, mapped, overdue, faults>>

\* A worker is at the current run of t and keeps its lease alive.
Attended(t) == \E w \in Workers \ lost : job[w] = <<t, task[t].attempts>>

Expire(t) ==
    /\ LeaseExpires(t)
    /\ IF Attended(t) THEN Fault ELSE UNCHANGED faults
    /\ UNCHANGED <<runtimeVars, workerVars, mapped, overdue>>

\* The session's TTL passes in the Broker, just before the runtime's timer.
TTLPasses(r) ==
    /\ sess[r] \in {"live", "destroying"} /\ r \notin overdue
    /\ Fault
    /\ overdue' = overdue \union {r}
    /\ UNCHANGED <<queueVars, runtimeVars, workerVars, mapped>>

TimerDestroys(r) ==
    /\ r \in overdue /\ sess[r] \in {"live", "destroying"}
    /\ BeginDestroy(r) \/ EndDestroy(r)
    /\ UNCHANGED <<queueVars, workerVars, mapped, overdue, faults>>

\* The runtime notices that the caller of Exec is gone.
NoticeDisconnect(r) ==
    /\ ~ \E w \in Workers : pc[w] = "call" /\ job[w] = r
    /\ Disconnect(r)
    /\ UNCHANGED <<queueVars, workerVars, mapped, overdue, faults>>

Proceed(r) ==
    /\ StartExec(r) \/ EndExec(r)
    /\ UNCHANGED <<queueVars, workerVars, mapped, overdue, faults>>

RestartHost ==
    /\ Fault
    /\ HostRestart
    /\ UNCHANGED <<queueVars, workerVars, mapped, overdue>>

-----------------------------------------------------------------------------
Recovery(w) ==
    \/ ListExpired(w) \/ DestroyRecorded(w) \/ DestroyConfirmed(w)
    \/ DestroyUnconfirmed(w) \/ Clear(w)

RunOne(w) ==
    \/ ClaimOne(w) \/ CreateOne(w) \/ CreateFails(w) \/ RecordCreateFailure(w)
    \/ Bind(w) \/ CallExec(w) \/ ExecReturns(w) \/ ExecFails(w)
    \/ CancelLost(w) \/ DestroyOwn(w) \/ OwnDestroyed(w) \/ OwnDestroyFails(w)
    \/ RecordOutcome(w)

Work(w) == Recovery(w) \/ RunOne(w) \/ StopIdle(w)

Next ==
    \/ \E w \in Workers : Work(w) \/ Heartbeat(w) \/ HeartbeatFails(w) \/ QueueFails(w) \/ Shutdown(w)
    \/ \E t \in Tasks, p \in Policies : Submit(t, p)
    \/ \E t \in Tasks : Expire(t)
    \/ \E r \in Runs : TTLPasses(r) \/ TimerDestroys(r) \/ NoticeDisconnect(r) \/ Proceed(r)
    \/ Crash \/ Restart \/ RestartHost

Spec == Init /\ [][Next]_vars

(***************************************************************************)
(* Fairness.  A worker loop, a runtime and a process that is going down    *)
(* never just stop (goroutines are scheduled, every execution has a wall   *)
(* timeout, a supervisor restarts the process), and time passes the lease  *)
(* of a run nobody attends to.  Faults are never forced.                   *)
(***************************************************************************)
Fairness ==
    /\ \A w \in Workers : WF_vars(Work(w))
    /\ WF_vars(GoingDown /\ Crash) /\ WF_vars(Restart)
    /\ \A t \in Tasks : WF_vars(~ Attended(t) /\ Expire(t))
    /\ \A r \in Runs : WF_vars(Proceed(r)) /\ WF_vars(NoticeDisconnect(r))

FairSpec == Spec /\ Fairness

-----------------------------------------------------------------------------
(***************************************************************************)
(* What durable sandbox tasks promise.                                     *)
(***************************************************************************)

\* A task is not handed to a new attempt, not even put back into the queue,
\* before every process of its earlier attempts has ended and every session
\* that was to run one is destroyed ("cleanup-before-replay").  An Exec that
\* found its session and did not register yet may remain: it will be refused.
PredecessorGone ==
    \A t \in Tasks, n \in Numbers :
        /\ proc[<<t, n>>] # "none"
        /\ n < task[t].attempts \/ task[t].status = "queued"
        => sess[<<t, n>>] = "gone" /\ proc[<<t, n>>] # "running"

\* Two attempts of one task never execute at the same time unless the older
\* one has at least been told to stop: recovery must never replay side effects
\* while a predecessor runtime may still be alive.
NoLiveOverlap ==
    \A t \in Tasks : \A n, m \in Numbers :
        n < m /\ proc[<<t, n>>] = "running" /\ proc[<<t, m>>] = "running"
          => <<t, n>> \in cancelled

\* While a task is unfinished, a process that acts for it is found in its row:
\* whatever crashes, the next recovery pass knows which session to destroy.
ExecutionRecorded ==
    \A r \in Runs :
        proc[r] = "running" /\ task[r[1]].status \notin Terminal =>
          task[r[1]].status = "running" /\ task[r[1]].session = r[2] /\ task[r[1]].runtime = r[2]

\* A recorded success is a process that ran to its end in the task's last
\* attempt, in a session that was destroyed before the success was recorded.
SuccessIsEarned ==
    \A t \in Tasks :
        task[t].status = "succeeded" =>
          proc[<<t, task[t].attempts>>] = "ok" /\ sess[<<t, task[t].attempts>>] = "gone"

\* The process has a single durable worker, so an association a worker has
\* listed and destroyed is still as it was listed when the worker clears it:
\* a recovery pass whose every Destroy succeeds never ends the worker.
RecoveryUndisturbed ==
    \A w \in Workers : \A r \in todo[w] :
        pc[w] = "clear" /\ First(w, r) =>
          r[1] \in unrenewed[w] /\ NeedsCleanup(r[1]) /\ task[r[1]].session = r[2]

\* Every task that is queued is eventually finished, through crashes, restarts,
\* lost leases and failed cleanups.
EventuallySettled ==
    \A t \in Tasks : task[t].status = "queued" ~> task[t].status \in Terminal
=============================================================================
