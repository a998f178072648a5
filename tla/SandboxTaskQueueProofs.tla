----------------------- MODULE SandboxTaskQueueProofs -----------------------
(***************************************************************************)
(* The promises of SandboxTaskQueue, proved for any number of tasks and    *)
(* attempts.  One inductive invariant carries them all: the row types, the *)
(* agreement of the two tables, the currency of the recorded identities    *)
(* and the single claim of a task that must not be replayed need one       *)
(* another.                                                                *)
(***************************************************************************)
EXTENDS SandboxTaskQueue, TLAPS

QueueInv == QueueTypeOK /\ LedgerConsistent /\ AssociationCurrent /\ NeverReplayed

\* The part of QueueInv that speaks of one task.
TaskInv(t) ==
    /\ \A n \in Numbers :
        /\ attempt[<<t, n>>] = "none" <=> n > task[t].attempts
        /\ attempt[<<t, n>>] = "running" <=>
              n = task[t].attempts /\ task[t].status = "running"
        /\ attempt[<<t, n>>] \in Terminal =>
              n = task[t].attempts /\ task[t].status = attempt[<<t, n>>]
        /\ attempt[<<t, n>>] = "interrupted" /\ n = task[t].attempts =>
              task[t].status \in {"queued", "failed"}
    /\ task[t].session \in {0, task[t].attempts}
    /\ task[t].runtime \in {0, task[t].attempts}
    /\ task[t].session # 0 => task[t].runtime # 0
    /\ task[t].runtime # 0 => task[t].status = "running"
    /\ task[t].lease # "none" <=> task[t].status = "running"
    /\ task[t].policy = "never" =>
        /\ task[t].attempts <= 1
        /\ task[t].attempts = 1 => task[t].status # "queued"

LEMMA InvPerTask == QueueInv <=> QueueTypeOK /\ \A t \in Tasks : TaskInv(t)
BY DEF QueueInv, LedgerConsistent, AssociationCurrent, NeverReplayed, TaskInv

LEMMA InvPerTaskNext == QueueTypeOK' /\ (\A t \in Tasks : TaskInv(t)') => QueueInv'
BY DEF QueueInv, LedgerConsistent, AssociationCurrent, NeverReplayed, TaskInv

\* A task whose row and attempts a step leaves alone keeps its part.
LEMMA TaskUntouched ==
    ASSUME NEW t \in Tasks, TaskInv(t), task'[t] = task[t],
           \A n \in Numbers : attempt'[<<t, n>>] = attempt[<<t, n>>]
    PROVE  TaskInv(t)'
BY DEF TaskInv

\* An absent task has never been claimed.
LEMMA AbsentIsFresh ==
    ASSUME QueueTypeOK, NEW t \in Tasks, TaskInv(t), task[t].status = "absent"
    PROVE  task[t].attempts = 0
<1>1. task[t].attempts \in 0 .. MaxAttempts
  BY DEF QueueTypeOK, Row
<1>2. SUFFICES ASSUME task[t].attempts \in Numbers PROVE FALSE
  BY <1>1, RunsAssumption DEF Numbers
<1>3. attempt[<<t, task[t].attempts>>] \in AttemptStatuses
  BY <1>2 DEF QueueTypeOK, Runs
<1>. QED
  BY <1>2, <1>3, <1>1 DEF TaskInv, AttemptStatuses, Terminal

LEMMA InitInv == QueueInit => QueueInv
BY RunsAssumption
DEF QueueInit, QueueInv, QueueTypeOK, LedgerConsistent, AssociationCurrent, NeverReplayed,
    AbsentRow, Row, Tasks, Numbers, Runs, Policies, TaskStatuses, AttemptStatuses, Terminal

LEMMA EnqueueInv ==
    ASSUME QueueInv, NEW t \in Tasks, NEW p \in Policies, Enqueue(t, p)
    PROVE  QueueInv'
<1>1. task[t] \in Row /\ QueueTypeOK /\ \A u \in Tasks : TaskInv(u)
  BY InvPerTask DEF QueueTypeOK
<1>2. QueueTypeOK'
  BY <1>1, RunsAssumption DEF Enqueue, QueueTypeOK, Row, TaskStatuses
<1>3. TaskInv(t)'
  <2>1. task[t].attempts = 0
    BY <1>1, AbsentIsFresh DEF Enqueue
  <2>2. /\ task'[t].status = "queued" /\ task'[t].policy = p /\ task'[t].attempts = 0
        /\ task'[t].lease = "none" /\ task'[t].session = 0 /\ task'[t].runtime = 0
    BY <1>1, <2>1 DEF Enqueue, QueueTypeOK
  <2>3. \A n \in Numbers : attempt'[<<t, n>>] = "none"
    BY <1>1, <2>1, RunsAssumption DEF Enqueue, TaskInv, Numbers
  <2>. QED
    BY <2>2, <2>3, RunsAssumption DEF TaskInv, Numbers, Terminal
<1>4. ASSUME NEW u \in Tasks, u # t PROVE TaskInv(u)'
  BY <1>1, <1>4, TaskUntouched DEF Enqueue, QueueTypeOK
<1>. QED
  BY <1>2, <1>3, <1>4, InvPerTaskNext

\* What the guards of a caller's operation say of its task.
LEMMA RunParts ==
    ASSUME NEW r \in Runs
    PROVE  r[1] \in Tasks /\ r[2] \in Numbers /\ r = <<r[1], r[2]>>
BY DEF Runs

\* The operations that only move the lease or the recorded identities of the
\* current run of one task.
LEMMA RowTouched ==
    ASSUME QueueInv, NEW t \in Tasks, UNCHANGED attempt,
           task[t].status = "running",
           NEW l \in {"live", "expired"},
           NEW s \in {0, task[t].attempts}, NEW q \in {0, task[t].attempts},
           s # 0 => q # 0,
           task' = [task EXCEPT ![t] =
                      [status |-> "running", policy |-> task[t].policy,
                       attempts |-> task[t].attempts, lease |-> l, session |-> s, runtime |-> q]]
    PROVE  QueueInv'
<1>1. task[t] \in Row /\ QueueTypeOK /\ \A u \in Tasks : TaskInv(u)
  BY InvPerTask DEF QueueTypeOK
<1>2. QueueTypeOK'
  BY <1>1, RunsAssumption DEF QueueTypeOK, Row, TaskStatuses
<1>3. TaskInv(t)'
  <2>1. /\ task'[t].status = "running"
        /\ task'[t].attempts = task[t].attempts
        /\ task'[t].policy = task[t].policy /\ task'[t].lease = l
        /\ task'[t].session = s /\ task'[t].runtime = q
    BY <1>1 DEF QueueTypeOK
  <2>. QED
    BY <1>1, <2>1 DEF TaskInv
<1>4. ASSUME NEW u \in Tasks, u # t PROVE TaskInv(u)'
  BY <1>1, <1>4, TaskUntouched DEF QueueTypeOK
<1>. QED
  BY <1>2, <1>3, <1>4, InvPerTaskNext

LEMMA TouchingInv ==
    ASSUME QueueInv, NEW r \in Runs,
           Renew(r) \/ BindRuntime(r) \/ BindRuntimeAssociation(r) \/ ClearAssociation(r)
    PROVE  QueueInv'
<1>. DEFINE t == r[1]
<1>1. t \in Tasks /\ task[t] \in Row /\ task \in [Tasks -> Row] /\ TaskInv(t)
  BY RunParts, InvPerTask DEF QueueTypeOK
<1>2. task[t].status = "running"
  BY DEF Renew, BindRuntime, BindRuntimeAssociation, ClearAssociation, Holds, Owns, NeedsCleanup, Expired
<1>3. task[t].lease \in {"live", "expired"} /\ task[t].session \in {0, task[t].attempts}
         /\ task[t].runtime \in {0, task[t].attempts} /\ (task[t].session # 0 => task[t].runtime # 0)
  BY <1>1, <1>2 DEF TaskInv, Row
<1>4. CASE Renew(r)
  BY <1>1, <1>2, <1>3, <1>4, RowTouched DEF Renew, Recording
<1>5. CASE BindRuntime(r)
  <2>1. r[2] \in {0, task[t].attempts} /\ r[2] # 0
    BY <1>5, RunParts DEF BindRuntime, Holds, Owns, Numbers
  <2>. QED
    BY <2>1, <1>1, <1>2, <1>3, <1>5, RowTouched DEF BindRuntime, Recording
<1>6. CASE BindRuntimeAssociation(r)
  <2>1. r[2] \in {0, task[t].attempts} /\ r[2] # 0
    BY <1>6, RunParts DEF BindRuntimeAssociation, Holds, Owns, Numbers
  <2>. QED
    BY <2>1, <1>1, <1>2, <1>3, <1>6, RowTouched DEF BindRuntimeAssociation, Recording
<1>7. CASE ClearAssociation(r)
  BY <1>1, <1>2, <1>3, <1>7, RowTouched DEF ClearAssociation, Recording
<1>. QED
  BY <1>4, <1>5, <1>6, <1>7

LEMMA ExpiryInv ==
    ASSUME QueueInv, NEW t \in Tasks, LeaseExpires(t)
    PROVE  QueueInv'
<1>1. task[t] \in Row /\ task \in [Tasks -> Row] /\ TaskInv(t)
  BY InvPerTask DEF QueueTypeOK
<1>2. task[t].status = "running" /\ task[t].session \in {0, task[t].attempts}
         /\ task[t].runtime \in {0, task[t].attempts} /\ (task[t].session # 0 => task[t].runtime # 0)
  BY <1>1 DEF TaskInv, LeaseExpires
<1>. QED
  BY <1>1, <1>2, RowTouched DEF LeaseExpires, Recording

LEMMA CompleteInv ==
    ASSUME QueueInv, NEW r \in Runs, NEW outcome \in Terminal, Complete(r, outcome)
    PROVE  QueueInv'
<1>. DEFINE t == r[1]
            n == r[2]
<1>1. t \in Tasks /\ n \in Numbers /\ r = <<t, n>> /\ task[t] \in Row
         /\ QueueTypeOK /\ \A u \in Tasks : TaskInv(u)
  BY RunParts, InvPerTask DEF QueueTypeOK
<1>2. task[t].status = "running" /\ task[t].attempts = n /\ attempt[r] = "running"
  BY DEF Complete, Holds, Owns
<1>3. task'[t] = Finished(t, outcome) /\ \A u \in Tasks : u # t => task'[u] = task[u]
  BY <1>1 DEF Complete, QueueTypeOK
<1>4. attempt'[<<t, n>>] = outcome
         /\ \A u \in Tasks, m \in Numbers : u # t \/ m # n => attempt'[<<u, m>>] = attempt[<<u, m>>]
  BY <1>1 DEF Complete, QueueTypeOK, Runs
<1>5. QueueTypeOK'
  BY <1>1, RunsAssumption
  DEF Complete, Finished, QueueTypeOK, Row, Terminal, TaskStatuses, AttemptStatuses
<1>6. TaskInv(t)'
  <2>1. /\ task'[t].status = outcome /\ task'[t].attempts = n /\ task'[t].policy = task[t].policy
        /\ task'[t].lease = "none" /\ task'[t].session = 0 /\ task'[t].runtime = 0
    BY <1>2, <1>3 DEF Finished
  <2>2. outcome \notin {"running", "queued", "none", "interrupted"} /\ outcome \in Terminal
    BY DEF Terminal
  <2>3. ASSUME NEW m \in Numbers, m # n
        PROVE  attempt'[<<t, m>>] = attempt[<<t, m>>] /\ attempt[<<t, m>>] \notin {"running"} \union Terminal
    BY <1>1, <1>2, <1>4, <2>3 DEF TaskInv, Terminal
  <2>. QED
    BY <1>1, <1>2, <1>4, <2>1, <2>2, <2>3 DEF TaskInv, Numbers
<1>7. ASSUME NEW u \in Tasks, u # t PROVE TaskInv(u)'
  BY <1>1, <1>3, <1>4, <1>7, TaskUntouched
<1>. QED
  BY <1>5, <1>6, <1>7, InvPerTaskNext

\* What Claim's two recovery statements leave of a task.
LEMMA ReclaimedInv ==
    ASSUME QueueTypeOK, NEW u \in Tasks, TaskInv(u),
           task'[u] = ReclaimedTask(u),
           \A n \in Numbers : attempt'[<<u, n>>] = ReclaimedAttempt(<<u, n>>)
    PROVE  task'[u] \in Row /\ TaskInv(u)'
<1>1. task[u] \in Row /\ \A n \in Numbers : attempt[<<u, n>>] \in AttemptStatuses
  BY DEF QueueTypeOK, Runs
<1>2. CASE ~ Reclaimable(u)
  <2>1. task'[u] = task[u] /\ \A n \in Numbers : attempt'[<<u, n>>] = attempt[<<u, n>>]
    BY <1>2 DEF ReclaimedTask, ReclaimedAttempt
  <2>. QED
    BY <1>1, <2>1, TaskUntouched
<1>3. CASE Reclaimable(u)
  <2>1. /\ task'[u].status \in {"queued", "failed"}
        /\ task'[u].status = "queued" <=> task[u].policy = "idempotent"
        /\ task'[u].attempts = task[u].attempts /\ task'[u].policy = task[u].policy
        /\ task'[u].lease = "none" /\ task'[u].session = 0 /\ task'[u].runtime = 0
    BY <1>3 DEF ReclaimedTask
  <2>2. task'[u] \in Row
    BY <1>1, <1>3, RunsAssumption DEF ReclaimedTask, Row, TaskStatuses
  <2>3. ASSUME NEW n \in Numbers
        PROVE  attempt'[<<u, n>>] = IF attempt[<<u, n>>] = "running" THEN "interrupted" ELSE attempt[<<u, n>>]
    BY <1>3 DEF ReclaimedAttempt
  <2>4. task[u].status = "running"
    BY <1>3 DEF Reclaimable, Expired
  <2>5. task[u].policy \in {"never", "idempotent"}
    BY <1>1 DEF Row, Policies
  <2>6. \A n \in Numbers : attempt[<<u, n>>] \notin Terminal
    BY <2>4 DEF TaskInv, Terminal
  <2>7. ASSUME NEW n \in Numbers
        PROVE  /\ attempt'[<<u, n>>] = "none" <=> n > task'[u].attempts
               /\ attempt'[<<u, n>>] # "running" /\ attempt'[<<u, n>>] \notin Terminal
    BY <2>1, <2>3, <2>6 DEF TaskInv, Terminal
  <2>. QED
    BY <2>1, <2>2, <2>5, <2>7 DEF TaskInv
<1>. QED
  BY <1>2, <1>3

LEMMA ClaimNothingInv ==
    ASSUME QueueInv, ClaimNothing
    PROVE  QueueInv'
<1>1. QueueTypeOK /\ \A u \in Tasks : TaskInv(u)
  BY InvPerTask
<1>2. /\ \A u \in Tasks : task'[u] = ReclaimedTask(u)
      /\ \A u \in Tasks, n \in Numbers : attempt'[<<u, n>>] = ReclaimedAttempt(<<u, n>>)
  BY DEF ClaimNothing, Runs
<1>3. \A u \in Tasks : task'[u] \in Row /\ TaskInv(u)'
  BY <1>1, <1>2, ReclaimedInv
<1>4. \A r \in Runs : ReclaimedAttempt(r) \in AttemptStatuses
  BY <1>1 DEF ReclaimedAttempt, QueueTypeOK, AttemptStatuses
<1>5. QueueTypeOK'
  BY <1>3, <1>4 DEF ClaimNothing, QueueTypeOK
<1>. QED
  BY <1>3, <1>5, InvPerTaskNext

LEMMA ClaimTaskInv ==
    ASSUME QueueInv, NEW t \in Tasks, ClaimTask(t)
    PROVE  QueueInv'
<1>. DEFINE n == task[t].attempts + 1
<1>1. QueueTypeOK /\ \A u \in Tasks : TaskInv(u)
  BY InvPerTask
<1>2. task[t] \in Row /\ n \in Numbers
  BY <1>1, RunsAssumption DEF QueueTypeOK, Row, ClaimTask, Numbers
<1>3. /\ task'[t] = [status |-> "running", policy |-> task[t].policy, attempts |-> n,
                     lease |-> "live", session |-> 0, runtime |-> 0]
      /\ \A u \in Tasks : u # t => task'[u] = ReclaimedTask(u)
      /\ attempt'[<<t, n>>] = "running"
      /\ \A u \in Tasks, m \in Numbers : u # t \/ m # n =>
            attempt'[<<u, m>>] = ReclaimedAttempt(<<u, m>>)
  BY <1>2 DEF ClaimTask, Runs
<1>4. \A u \in Tasks : u # t => task'[u] \in Row /\ TaskInv(u)'
  BY <1>1, <1>3, ReclaimedInv
<1>5. task'[t] \in Row
  BY <1>2, <1>3, RunsAssumption DEF Row, TaskStatuses, Numbers
<1>6. \A r \in Runs : ReclaimedAttempt(r) \in AttemptStatuses
  BY <1>1 DEF ReclaimedAttempt, QueueTypeOK, AttemptStatuses
<1>7. QueueTypeOK'
  BY <1>4, <1>5, <1>6 DEF ClaimTask, QueueTypeOK, AttemptStatuses
<1>8. TaskInv(t)'
  \* After reclaiming, t is queued: every attempt it had is an interrupted one.
  <2>1. task[t].status = "queued" \/ (Reclaimable(t) /\ task[t].policy = "idempotent")
    BY DEF ClaimTask, Claimable, ReclaimedTask
  <2>2. task[t].policy = "never" => task[t].attempts = 0
    <3>1. task[t].policy = "never" => task[t].status = "queued" /\ task[t].attempts <= 1 /\ task[t].attempts # 1
      BY <1>1, <2>1 DEF TaskInv
    <3>. QED
      BY <1>2, <3>1, RunsAssumption DEF Row
  <2>3. ASSUME NEW m \in Numbers, m # n
        PROVE  /\ ReclaimedAttempt(<<t, m>>) = "none" <=> m > n
               /\ ReclaimedAttempt(<<t, m>>) # "running"
               /\ ReclaimedAttempt(<<t, m>>) \notin Terminal
    <3>1. attempt[<<t, m>>] = "none" <=> m > n
      BY <1>1, <1>2, <2>3, RunsAssumption DEF TaskInv, Numbers, Row
    <3>2. attempt[<<t, m>>] \notin Terminal
      BY <1>1, <2>1 DEF TaskInv, Terminal, Reclaimable, Expired
    <3>3. ~ Reclaimable(t) => attempt[<<t, m>>] # "running"
      BY <1>1, <2>1 DEF TaskInv
    <3>. QED
      BY <3>1, <3>2, <3>3 DEF ReclaimedAttempt, Terminal
  <2>4. ASSUME NEW m \in Numbers, m # n
        PROVE  /\ attempt'[<<t, m>>] = "none" <=> m > n
               /\ attempt'[<<t, m>>] # "running" /\ attempt'[<<t, m>>] \notin Terminal
    BY <1>3, <2>3, <2>4
  <2>. QED
    BY <1>2, <1>3, <2>2, <2>4, RunsAssumption DEF TaskInv, Row, Numbers, Terminal
<1>. QED
  BY <1>4, <1>7, <1>8, InvPerTaskNext

LEMMA NextInv == QueueInv /\ [QueueNext]_queueVars => QueueInv'
<1>. SUFFICES ASSUME QueueInv, [QueueNext]_queueVars PROVE QueueInv'
  OBVIOUS
<1>1. ASSUME NEW t \in Tasks, NEW p \in Policies, Enqueue(t, p) PROVE QueueInv'
  BY <1>1, EnqueueInv
<1>2. ASSUME NEW t \in Tasks, ClaimTask(t) PROVE QueueInv'
  BY <1>2, ClaimTaskInv
<1>3. ASSUME NEW t \in Tasks, LeaseExpires(t) PROVE QueueInv'
  BY <1>3, ExpiryInv
<1>4. CASE ClaimNothing
  BY <1>4, ClaimNothingInv
<1>5. ASSUME NEW r \in Runs, CallerStep(r) PROVE QueueInv'
  BY <1>5, TouchingInv, CompleteInv DEF CallerStep
<1>6. CASE UNCHANGED queueVars
  BY <1>6 DEF queueVars, QueueInv, QueueTypeOK, LedgerConsistent, AssociationCurrent, NeverReplayed, Expired
<1>. QED
  BY <1>1, <1>2, <1>3, <1>4, <1>5, <1>6 DEF QueueNext

\* The tables keep their types.
THEOREM QueueTypes == QueueSpec => []QueueTypeOK
<1>1. QueueSpec => []QueueInv
  BY InitInv, NextInv, PTL DEF QueueSpec
<1>. QED
  BY <1>1, PTL DEF QueueInv

\* The attempt rows always tell the same story as the task rows.
THEOREM LedgerHolds == QueueSpec => []LedgerConsistent
<1>1. QueueSpec => []QueueInv
  BY InitInv, NextInv, PTL DEF QueueSpec
<1>. QED
  BY <1>1, PTL DEF QueueInv

\* Work that was not declared idempotent is claimed at most once.
THEOREM ReplayDenied == QueueSpec => []NeverReplayed
<1>1. QueueSpec => []QueueInv
  BY InitInv, NextInv, PTL DEF QueueSpec
<1>. QED
  BY <1>1, PTL DEF QueueInv

\* The recorded identities are those of the attempt that holds the lease.
THEOREM AssociationHolds == QueueSpec => []AssociationCurrent
<1>1. QueueSpec => []QueueInv
  BY InitInv, NextInv, PTL DEF QueueSpec
<1>. QED
  BY <1>1, PTL DEF QueueInv

\* Finished tasks and attempts never change, whatever stale callers do.
THEOREM HistoryHolds == QueueSpec => HistoryIsFinal
<1>1. QueueSpec => []QueueInv
  BY InitInv, NextInv, PTL DEF QueueSpec
<1>2. QueueInv /\ [QueueNext]_queueVars => [HistoryKept]_queueVars
  <2>. SUFFICES ASSUME QueueInv, QueueNext PROVE HistoryKept
    BY DEF queueVars
  <2>1. QueueTypeOK /\ \A u \in Tasks : TaskInv(u)
    BY InvPerTask
  <2>2. ASSUME NEW t \in Tasks, NEW p \in Policies, Enqueue(t, p) PROVE HistoryKept
    BY <2>1, <2>2 DEF Enqueue, HistoryKept, QueueTypeOK, Terminal
  <2>3. ASSUME NEW t \in Tasks, ClaimTask(t) PROVE HistoryKept
    <3>1. \A u \in Tasks : task[u].status \in Terminal => ReclaimedTask(u) = task[u] /\ u # t
      BY <2>3 DEF ClaimTask, Claimable, ReclaimedTask, Reclaimable, Expired, Terminal
    <3>2. \A r \in Runs : attempt[r] # "running" => ReclaimedAttempt(r) = attempt[r]
      BY DEF ReclaimedAttempt
    <3>3. \A r \in Runs : r = <<t, task[t].attempts + 1>> => attempt[r] = "none"
      <4>1. task[t].attempts \in Nat
        BY <2>1 DEF QueueTypeOK, Row
      <4>. QED
        BY <2>1, <4>1 DEF TaskInv, Runs
    <3>. QED
      BY <2>3, <3>1, <3>2, <3>3 DEF ClaimTask, HistoryKept
  <2>4. ASSUME NEW t \in Tasks, LeaseExpires(t) PROVE HistoryKept
    BY <2>1, <2>4 DEF LeaseExpires, HistoryKept, QueueTypeOK, Terminal
  <2>5. CASE ClaimNothing
    <3>1. \A u \in Tasks : task[u].status \in Terminal => ReclaimedTask(u) = task[u]
      BY DEF ReclaimedTask, Reclaimable, Expired, Terminal
    <3>. QED
      BY <2>5, <3>1 DEF ClaimNothing, HistoryKept, ReclaimedAttempt
  <2>6. ASSUME NEW r \in Runs, CallerStep(r) PROVE HistoryKept
    <3>1. CASE \E outcome \in Terminal : Complete(r, outcome)
      BY <2>1, <2>6, <3>1, RunParts DEF Complete, Holds, Owns, HistoryKept, QueueTypeOK, Terminal
    <3>2. CASE Renew(r) \/ BindRuntime(r) \/ BindRuntimeAssociation(r) \/ ClearAssociation(r)
      BY <2>1, <2>6, <3>2, RunParts
      DEF Renew, BindRuntime, BindRuntimeAssociation, ClearAssociation, Holds, Owns,
          NeedsCleanup, Expired, HistoryKept, QueueTypeOK, Terminal
    <3>. QED
      BY <2>6, <3>1, <3>2 DEF CallerStep
  <2>. QED
    BY <2>2, <2>3, <2>4, <2>5, <2>6 DEF QueueNext
<1>. QED
  BY <1>1, <1>2, PTL DEF QueueSpec, HistoryIsFinal

\* No attempt starts while a runtime of the task is recorded.
THEOREM RetryHolds == QueueSpec => RetryNeedsCleanRow
<1>1. QueueSpec => []QueueInv
  BY InitInv, NextInv, PTL DEF QueueSpec
<1>2. QueueInv /\ [QueueNext]_queueVars => [ReleaseOrdered]_queueVars
  <2>. SUFFICES ASSUME QueueInv, QueueNext PROVE ReleaseOrdered
    BY DEF queueVars
  <2>1. task \in [Tasks -> Row] /\ \A u \in Tasks : TaskInv(u)
    BY InvPerTask DEF QueueTypeOK
  <2>2. ASSUME NEW t \in Tasks, NEW p \in Policies, Enqueue(t, p) PROVE ReleaseOrdered
    BY <2>1, <2>2 DEF Enqueue, ReleaseOrdered
  <2>3. ASSUME NEW t \in Tasks, ClaimTask(t) PROVE ReleaseOrdered
    <3>1. task[t].status = "queued" \/ Reclaimable(t)
      BY <2>3 DEF ClaimTask, Claimable, ReclaimedTask
    <3>2. task[t].session = 0 /\ task[t].runtime = 0
      BY <2>1, <3>1 DEF TaskInv, Reclaimable
    <3>3. \A u \in Tasks : ReclaimedTask(u).attempts = task[u].attempts
      BY DEF ReclaimedTask
    <3>. QED
      BY <2>3, <3>1, <3>2, <3>3 DEF ClaimTask, ReleaseOrdered, Reclaimable
  <2>4. ASSUME NEW t \in Tasks, LeaseExpires(t) PROVE ReleaseOrdered
    BY <2>1, <2>4 DEF LeaseExpires, Recording, ReleaseOrdered
  <2>5. CASE ClaimNothing
    BY <2>5 DEF ClaimNothing, ReclaimedTask, ReleaseOrdered
  <2>6. ASSUME NEW r \in Runs, CallerStep(r) PROVE ReleaseOrdered
    <3>1. CASE \E outcome \in Terminal : Complete(r, outcome)
      BY <2>1, <3>1, RunParts DEF Complete, Finished, ReleaseOrdered
    <3>2. CASE Renew(r) \/ BindRuntime(r) \/ BindRuntimeAssociation(r) \/ ClearAssociation(r)
      BY <2>1, <3>2, RunParts
      DEF Renew, BindRuntime, BindRuntimeAssociation, ClearAssociation, Recording, ReleaseOrdered
    <3>. QED
      BY <2>6, <3>1, <3>2 DEF CallerStep
  <2>. QED
    BY <2>2, <2>3, <2>4, <2>5, <2>6 DEF QueueNext
<1>. QED
  BY <1>1, <1>2, PTL DEF QueueSpec, RetryNeedsCleanRow
=============================================================================
