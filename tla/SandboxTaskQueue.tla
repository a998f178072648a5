-------------------------- MODULE SandboxTaskQueue --------------------------
(***************************************************************************)
(* The durable sandbox task queue: the two SQLite tables sandbox_tasks and *)
(* sandbox_task_attempts and the transactions that change them             *)
(* (backend/internal/sandbox/task_queue.go, task_recovery.go).             *)
(*                                                                         *)
(* Every operation is one SQL transaction, hence one action.  The queue    *)
(* trusts no caller: a worker that lost its lease may still call Renew,    *)
(* BindRuntimeAssociation or Complete with the token it was given, at any  *)
(* time and any number of times.  Specification QueueSpec quantifies over  *)
(* all such callers.  SandboxTasks composes the same operations with the   *)
(* real worker loop, the Broker and the runtime.                           *)
(*                                                                         *)
(* The status 'leased' exists only inside the transaction of Claim.  Time  *)
(* is abstract: a lease is "live" until LeaseExpires makes it "expired".   *)
(***************************************************************************)
EXTENDS SandboxRuns

VARIABLES
    task,           \* sandbox_tasks: a record for every task number
    attempt         \* sandbox_task_attempts: the status of every run

queueVars == <<task, attempt>>

Policies == {"never", "idempotent"}
TaskStatuses == {"absent", "queued", "running", "succeeded", "failed"}
AttemptStatuses == {"none", "running", "succeeded", "failed", "interrupted"}
Terminal == {"succeeded", "failed"}

\* One row of sandbox_tasks.  session and runtime hold the attempt number
\* whose identity is recorded, 0 for the empty string.
Row == [status : TaskStatuses, policy : Policies, attempts : 0 .. MaxAttempts,
        lease : {"none", "live", "expired"},
        session : 0 .. MaxAttempts, runtime : 0 .. MaxAttempts]

AbsentRow == [status |-> "absent", policy |-> "never", attempts |-> 0,
              lease |-> "none", session |-> 0, runtime |-> 0]

QueueInit ==
    /\ task = [t \in Tasks |-> AbsentRow]
    /\ attempt = [r \in Runs |-> "none"]

-----------------------------------------------------------------------------
(***************************************************************************)
(* The WHERE clauses.                                                      *)
(***************************************************************************)

\* id = ? AND lease_owner = ? AND lease_token = ? AND status = 'running'
Owns(r) == task[r[1]].status = "running" /\ task[r[1]].attempts = r[2]

\* Owns, and the attempt row of the run is still 'running': what both updates
\* of BindRuntimeAssociation and Complete need, else the transaction rolls back.
Holds(r) == Owns(r) /\ attempt[r] = "running"

Expired(t) == task[t].status = "running" /\ task[t].lease = "expired"

\* Expired and no trace of a runtime: what Claim may requeue or fail.
Reclaimable(t) == Expired(t) /\ task[t].session = 0 /\ task[t].runtime = 0

\* Expired with both identities recorded: what recovery must destroy first.
NeedsCleanup(t) == Expired(t) /\ task[t].session # 0 /\ task[t].runtime # 0

-----------------------------------------------------------------------------
(***************************************************************************)
(* The operations.                                                         *)
(***************************************************************************)

\* A task is inserted as queued, after every task inserted before it.
Enqueue(t, policy) ==
    /\ task[t].status = "absent"
    /\ \A u \in Tasks : u < t => task[u].status # "absent"
    /\ task' = [task EXCEPT ![t] =
                   [status |-> "queued", policy |-> policy, attempts |-> task[t].attempts,
                    lease |-> "none", session |-> 0, runtime |-> 0]]
    /\ UNCHANGED attempt

\* Variant: requeues whatever the retry policy.
ReclaimedTaskAnyPolicy(t) ==
    IF Reclaimable(t)
    THEN [status |-> "queued", policy |-> task[t].policy, attempts |-> task[t].attempts,
          lease |-> "none", session |-> 0, runtime |-> 0]
    ELSE task[t]

\* The first two statements of Claim: expired tasks without a runtime lose
\* their running attempt and are requeued, or failed when not idempotent.
ReclaimedTask(t) ==
    IF Reclaimable(t)
    THEN [status |-> IF task[t].policy = "idempotent" THEN "queued" ELSE "failed",
          policy |-> task[t].policy, attempts |-> task[t].attempts,
          lease |-> "none", session |-> 0, runtime |-> 0]
    ELSE task[t]

ReclaimedAttempt(r) ==
    IF Reclaimable(r[1]) /\ attempt[r] = "running" THEN "interrupted" ELSE attempt[r]

Claimable(t) ==
    /\ ReclaimedTask(t).status = "queued"
    /\ \A u \in Tasks : u < t => ReclaimedTask(u).status # "queued"

\* Claim finds a queued task: the oldest one is leased under a fresh run.
\* The guard on MaxAttempts is the model's bound, not the code's.
ClaimTask(t) ==
    LET n == task[t].attempts + 1
    IN  /\ Claimable(t)
        /\ n <= MaxAttempts
        /\ task' = [u \in Tasks |->
                      IF u = t
                      THEN [status |-> "running", policy |-> task[t].policy,
                            attempts |-> n, lease |-> "live",
                            session |-> 0, runtime |-> 0]
                      ELSE ReclaimedTask(u)]
        /\ attempt' = [r \in Runs |->
                         IF r = <<t, n>> THEN "running" ELSE ReclaimedAttempt(r)]

\* Claim finds nothing queued; what it reclaimed is committed all the same.
ClaimNothing ==
    /\ \A t \in Tasks : ReclaimedTask(t).status # "queued"
    /\ task' = [t \in Tasks |-> ReclaimedTask(t)]
    /\ attempt' = [r \in Runs |-> ReclaimedAttempt(r)]

\* The row of task t, still under its run, with lease l, session s, runtime q.
Recording(t, l, s, q) ==
    [status |-> task[t].status, policy |-> task[t].policy, attempts |-> task[t].attempts,
     lease |-> l, session |-> s, runtime |-> q]

\* The lease is extended; its expiry is not consulted.
Renew(r) ==
    /\ Owns(r)
    /\ task' = [task EXCEPT ![r[1]] =
                   Recording(r[1], "live", task[r[1]].session, task[r[1]].runtime)]
    /\ UNCHANGED attempt

\* The compatibility call: only the runtime identity is recorded.
BindRuntime(r) ==
    /\ Holds(r)
    /\ task' = [task EXCEPT ![r[1]] =
                   Recording(r[1], task[r[1]].lease, task[r[1]].session, r[2])]
    /\ UNCHANGED attempt

BindRuntimeAssociation(r) ==
    /\ Holds(r)
    /\ task' = [task EXCEPT ![r[1]] =
                   Recording(r[1], task[r[1]].lease, r[2], r[2])]
    /\ UNCHANGED attempt

\* Variant: the identities stay in a finished row.
FinishedKeepingIdentities(t, outcome) ==
    [status |-> outcome, policy |-> task[t].policy, attempts |-> task[t].attempts,
     lease |-> "none", session |-> task[t].session, runtime |-> task[t].runtime]

\* The row of task t once it is over: lease and identities cleared.
Finished(t, outcome) ==
    [status |-> outcome, policy |-> task[t].policy, attempts |-> task[t].attempts,
     lease |-> "none", session |-> 0, runtime |-> 0]

\* Variant: the task row is updated, the attempt row is not.
CompleteTaskOnly(r, outcome) ==
    /\ Holds(r)
    /\ task' = [task EXCEPT ![r[1]] = Finished(r[1], outcome)]
    /\ UNCHANGED attempt

\* Variant: a failed run leaves the attempt's wording in the task row.
CompleteInterrupted(r, outcome) ==
    /\ Holds(r)
    /\ task' = [task EXCEPT ![r[1]] = Finished(r[1], "interrupted")]
    /\ attempt' = [attempt EXCEPT ![r] = outcome]

Complete(r, outcome) ==
    /\ Holds(r)
    /\ task' = [task EXCEPT ![r[1]] = Finished(r[1], outcome)]
    /\ attempt' = [attempt EXCEPT ![r] = outcome]

\* The update that ends CleanupExpiredRuntimeAssociations for one listed task,
\* after its recorded runtime was destroyed.
ClearAssociation(r) ==
    /\ NeedsCleanup(r[1])
    /\ task[r[1]].session = r[2] /\ task[r[1]].runtime = r[2]
    /\ task' = [task EXCEPT ![r[1]] =
                   Recording(r[1], task[r[1]].lease, 0, 0)]
    /\ UNCHANGED attempt

\* Time passes the lease of a running task.
LeaseExpires(t) ==
    /\ task[t].status = "running" /\ task[t].lease = "live"
    /\ task' = [task EXCEPT ![t] =
                   Recording(t, "expired", task[t].session, task[t].runtime)]
    /\ UNCHANGED attempt

-----------------------------------------------------------------------------
\* Any caller that was ever given the token of run r.
CallerStep(r) ==
    \/ Renew(r)
    \/ BindRuntime(r)
    \/ BindRuntimeAssociation(r)
    \/ \E outcome \in Terminal : Complete(r, outcome)
    \/ ClearAssociation(r)

QueueNext ==
    \/ \E t \in Tasks, p \in Policies : Enqueue(t, p)
    \/ \E t \in Tasks : ClaimTask(t) \/ LeaseExpires(t)
    \/ ClaimNothing
    \/ \E r \in Runs : CallerStep(r)

QueueSpec == QueueInit /\ [][QueueNext]_queueVars

-----------------------------------------------------------------------------
(***************************************************************************)
(* What the queue promises whatever its callers do.                        *)
(***************************************************************************)

\* Rows and attempt rows have the values the schema allows.
QueueTypeOK == task \in [Tasks -> Row] /\ attempt \in [Runs -> AttemptStatuses]

\* The two tables agree: attempts 1..attempt_count exist, only the last one
\* can be running, and it is running exactly while the task is; every earlier
\* one was interrupted.  Each transaction writes both tables, so a half-done
\* or stale Complete, or a requeue that forgets the attempt, breaks it.
LedgerConsistent ==
    \A t \in Tasks, n \in Numbers :
        /\ attempt[<<t, n>>] = "none" <=> n > task[t].attempts
        /\ attempt[<<t, n>>] = "running" <=>
              n = task[t].attempts /\ task[t].status = "running"
        /\ attempt[<<t, n>>] \in Terminal =>
              n = task[t].attempts /\ task[t].status = attempt[<<t, n>>]
        /\ attempt[<<t, n>>] = "interrupted" /\ n = task[t].attempts =>
              task[t].status \in {"queued", "failed"}

\* Interrupted work that is not declared idempotent is never handed out again
\* (retry_policy defaults to never; docs: never silently replayed).
NeverReplayed ==
    \A t \in Tasks : task[t].policy = "never" =>
        /\ task[t].attempts <= 1
        /\ task[t].attempts = 1 => task[t].status # "queued"

\* A recorded session or runtime belongs to the attempt that holds the lease:
\* recovery never destroys the runtime of another attempt, and a requeued or
\* finished task carries no identity that could mislead a later recovery.
AssociationCurrent ==
    \A t \in Tasks :
        /\ task[t].session \in {0, task[t].attempts}
        /\ task[t].runtime \in {0, task[t].attempts}
        /\ task[t].session # 0 => task[t].runtime # 0
        /\ task[t].runtime # 0 => task[t].status = "running"
        /\ task[t].lease # "none" <=> task[t].status = "running"

\* Finished tasks and finished attempts are history: no later call, whoever
\* makes it and however late, changes them.
HistoryKept ==
    /\ \A t \in Tasks : task[t].status \in Terminal => task'[t] = task[t]
    /\ \A r \in Runs : attempt[r] \notin {"none", "running"} => attempt'[r] = attempt[r]

HistoryIsFinal == [][HistoryKept]_queueVars

\* A task is handed to a new run only from the queue or out of an expired lease
\* with nothing recorded: as long as a runtime is recorded, whatever its state,
\* no other attempt starts, and attempt numbers never skip.
ReleaseOrdered ==
    \A t \in Tasks :
        task'[t].attempts # task[t].attempts =>
          /\ task'[t].attempts = task[t].attempts + 1
          /\ task[t].session = 0 /\ task[t].runtime = 0
          /\ (task[t].status = "queued" \/ Expired(t))

RetryNeedsCleanRow == [][ReleaseOrdered]_queueVars
=============================================================================
