------------------------------ MODULE AgentRun ------------------------------
(***************************************************************************)
(* One agent run (backend/internal/agent/runner.go): its row in            *)
(* agent_runs, the rows of its steps in agent_steps, the goroutines that   *)
(* execute it (StartRun, ResumeRun), the requests that approve, cancel and *)
(* pause it, and a process that may end at any moment and start again.     *)
(*                                                                         *)
(* Every statement on the database is a step of its own: an executor keeps *)
(* the writes it is about to make in todo and performs them one by one.    *)
(* Outputs, history, events and budgets are abstracted: a step of the plan *)
(* is a kind, and calls of models and tools succeed or fail.               *)
(***************************************************************************)
EXTENDS Naturals, FiniteSets, SequencesExt

CONSTANTS
    Slots,          \* goroutines that can execute the run
    Users,          \* requests that can be handled at once
    Plans,          \* plans the planner may make: the kinds of their steps
    Repairs,        \* plans it may make after a failure
    MaxParallel,    \* RunnerConfig.MaxParallel
    MaxRetries,     \* RunnerConfig.MaxRetries
    MaxSessions,    \* bound: calls of StartRun and ResumeRun
    MaxRequests,    \* bound: approvals, cancellations and pauses
    MaxRestarts     \* bound: restarts of the process

Kinds == {"work", "read", "asks", "approval"}
\* work      a think or message step, or a tool that is allowed
\* read      a read-only parallel tool of the plan's one parallel group
\* asks      a tool whose policy is 'ask'
\* approval  an approval step

ASSUME AgentAssumption ==
    /\ Plans \subseteq Seq(Kinds) /\ Repairs \subseteq Seq(Kinds)
    /\ MaxParallel \in Nat /\ MaxRetries \in Nat
    /\ MaxSessions \in Nat /\ MaxRequests \in Nat /\ MaxRestarts \in Nat

VARIABLES
    status,         \* agent_runs.status
    hasPlan,        \* whether plan_json holds a plan
    rows,           \* agent_steps
    lastId,         \* the last step id given out
    exec,           \* the executor in each slot: see NoExecutor
    ctx,            \* its context: "live", "cancelled" or "expired"
    inbox,          \* runContext.approval, a channel of capacity 1
    registered,     \* Runner.runs, for the one run
    user,           \* the requests: see NoRequest
    sessions, requests, restarts,
    stored,         \* history: steps whose success was written
    overlapped      \* history: StartRun or ResumeRun was called beside another

dbVars == <<status, hasPlan, rows, lastId>>
memVars == <<exec, ctx, inbox, registered, user>>
bounds == <<sessions, requests, restarts>>
history == <<stored, overlapped>>
agentVars == <<dbVars, memVars, bounds, history>>

None == "none"
NoAnswer == "none"
NoRequest == [at |-> "idle", yes |-> FALSE]
NoExecutor == [at |-> "idle", todo |-> <<>>, steps |-> <<>>, index |-> 1,
               attempt |-> 0, replanned |-> FALSE, busy |-> {}, spoiled |-> FALSE]

Terminal == {"completed", "failed", "cancelled"}
Settled == {"completed", "skipped"}

Init ==
    /\ status = "absent" /\ hasPlan = FALSE /\ rows = {} /\ lastId = 0
    /\ exec = [e \in Slots |-> NoExecutor]
    /\ ctx = [e \in Slots |-> "live"]
    /\ inbox = [e \in Slots |-> NoAnswer]
    /\ registered = None
    /\ user = [u \in Users |-> NoRequest]
    /\ sessions = 0 /\ requests = 0 /\ restarts = 0
    /\ stored = {} /\ overlapped = FALSE

-----------------------------------------------------------------------------
(***************************************************************************)
(* Rows and writes.                                                        *)
(***************************************************************************)
Run(to) == [step |-> 0, to |-> to]
Row(id, to) == [step |-> id, to |-> to]

SetRow(id, to) == {IF r.id = id THEN [r EXCEPT !.status = to] ELSE r : r \in rows}

\* ResetInterrupted
ResetRows == {IF r.status \in {"running", "failed"} THEN [r EXCEPT !.status = "pending"] ELSE r :
                r \in rows}

\* CreateBatch and the insertions of ReplaceFromIndex, from position pos on.
Fresh(kinds, pos) ==
    {[id |-> lastId + i, pos |-> pos + i - 1, kind |-> kinds[i], status |-> "pending"] :
        i \in 1 .. Len(kinds)}

\* ListByRun orders by step_index only.  The i-th row has i - 1 rows before it.
Before(r, s) == r.pos < s.pos \/ (r.pos = s.pos /\ r.id < s.id)

Listing ==
    [i \in 1 .. Cardinality(rows) |->
        CHOOSE r \in rows : Cardinality({s \in rows : Before(s, r)}) = i - 1]

Goes(e, at, todo) == exec' = [exec EXCEPT ![e].at = at, ![e].todo = todo]

\* The executor's next statement.
Write(e) ==
    /\ exec[e].todo # <<>>
    /\ LET w == Head(exec[e].todo) IN
         \/ /\ w.step = 0
            /\ status' = w.to
            /\ UNCHANGED <<rows, stored>>
         \/ /\ w.step # 0
            /\ rows' = SetRow(w.step, w.to)
            /\ stored' = IF exec[e].at = "loop" THEN stored \cup {w.step} ELSE stored
            /\ UNCHANGED status
    /\ exec' = [exec EXCEPT ![e].todo = Tail(@)]
    /\ UNCHANGED <<hasPlan, lastId, ctx, inbox, registered, user, bounds, overlapped>>

At(e, place) == exec[e].at = place /\ exec[e].todo = <<>>

-----------------------------------------------------------------------------
(***************************************************************************)
(* StartRun.                                                               *)
(***************************************************************************)
Called(e) ==
    /\ sessions' = sessions + 1
    /\ overlapped' = (overlapped \/ \E f \in Slots \ {e} : exec[f].at # "idle")
    /\ UNCHANGED <<requests, restarts, stored>>

Start(e) ==
    /\ At(e, "idle") /\ status = "absent" /\ sessions < MaxSessions
    /\ status' = "planning"
    /\ Goes(e, "created", <<>>)
    /\ Called(e)
    /\ UNCHANGED <<hasPlan, rows, lastId, ctx, inbox, registered, user>>

\* registerRun, by StartRun and by ResumeRun: whatever was registered before.
Register(e) ==
    /\ \/ At(e, "created") /\ Goes(e, "planning", <<>>)
       \/ At(e, "registering") /\ Goes(e, "starting", <<>>)
    /\ registered' = e
    /\ ctx' = [ctx EXCEPT ![e] = "live"]
    /\ inbox' = [inbox EXCEPT ![e] = NoAnswer]
    /\ UNCHANGED <<dbVars, user, bounds, history>>

\* GeneratePlan and UpdatePlan; ResumeRun without a plan gives up silently.
MakePlan(e) ==
    /\ \/ /\ At(e, "planning")
          /\ \/ Goes(e, "batching", <<>>) /\ hasPlan' = TRUE
             \/ Goes(e, "leaving", <<Run("failed")>>) /\ UNCHANGED hasPlan
       \/ /\ At(e, "regenerating")
          /\ \/ Goes(e, "rebatching", <<>>) /\ hasPlan' = TRUE
             \/ Goes(e, "idle", <<>>) /\ UNCHANGED hasPlan
    /\ UNCHANGED <<status, rows, lastId, ctx, inbox, registered, user, bounds, history>>

CreateBatch(e) ==
    /\ \/ At(e, "batching") /\ Goes(e, "starting", <<>>)
       \/ At(e, "rebatching") /\ Goes(e, "resetting", <<>>)
    /\ \E plan \in Plans :
         /\ rows' = rows \cup Fresh(plan, 1)
         /\ lastId' = lastId + Len(plan)
    /\ UNCHANGED <<status, hasPlan, ctx, inbox, registered, user, bounds, history>>

-----------------------------------------------------------------------------
(***************************************************************************)
(* ResumeRun.                                                              *)
(***************************************************************************)
Resume(e) ==
    /\ At(e, "idle") /\ status # "absent" /\ sessions < MaxSessions
    /\ registered = None
    /\ Goes(e, "resuming", <<>>)
    /\ Called(e)
    /\ UNCHANGED <<dbVars, ctx, inbox, registered, user>>

ReadRun(e) ==
    /\ At(e, "resuming")
    /\ \/ status \in Terminal /\ Goes(e, "idle", <<>>)
       \/ status \notin Terminal /\ hasPlan /\ Goes(e, "resetting", <<>>)
       \/ status \notin Terminal /\ ~hasPlan /\ Goes(e, "regenerating", <<>>)
    /\ UNCHANGED <<dbVars, ctx, inbox, registered, user, bounds, history>>

\* Variant: completed steps are reset as well.
ResetEverything(e) ==
    /\ At(e, "resetting")
    /\ rows' = {[r EXCEPT !.status = "pending"] : r \in rows}
    /\ Goes(e, "registering", <<>>)
    /\ UNCHANGED <<status, hasPlan, lastId, ctx, inbox, registered, user, bounds, history>>

Reset(e) ==
    /\ At(e, "resetting")
    /\ rows' = ResetRows
    /\ Goes(e, "registering", <<>>)
    /\ UNCHANGED <<status, hasPlan, lastId, ctx, inbox, registered, user, bounds, history>>

-----------------------------------------------------------------------------
(***************************************************************************)
(* executePersisted.                                                       *)
(***************************************************************************)
Current(e) == exec[e].steps[exec[e].index]
More(e) == exec[e].index <= Len(exec[e].steps)

\* A step of the loop that only moves the executor.
Local == UNCHANGED <<dbVars, ctx, inbox, registered, user, bounds, history>>

Begin(e) ==
    /\ At(e, "starting")
    /\ Goes(e, "loading", <<Run("running")>>)
    /\ Local

\* ListByRun, at the beginning and after a replan.
Load(e) ==
    /\ At(e, "loading")
    /\ exec' = [exec EXCEPT ![e].at = "loop", ![e].steps = Listing]
    /\ Local

LoopInterrupted(e) ==
    /\ At(e, "loop") /\ More(e) /\ ctx[e] # "live"
    /\ Goes(e, "interrupted", <<>>)
    /\ Local

\* The loop is over: summary, result and status, whatever the context says.
Finish(e) ==
    /\ At(e, "loop") /\ ~More(e)
    /\ Goes(e, "leaving", <<Run("completed")>>)
    /\ Local

Ready(e) == At(e, "loop") /\ More(e) /\ ctx[e] = "live"

Skip(e) ==
    /\ Ready(e) /\ Current(e).status \in Settled
    /\ exec' = [exec EXCEPT ![e].index = @ + 1]
    /\ Local

\* parallelGroupEnd: the steps of the group that starts here.
Group(e) ==
    {i \in exec[e].index .. Len(exec[e].steps) :
        /\ i < exec[e].index + MaxParallel
        /\ \A j \in exec[e].index .. i :
             exec[e].steps[j].kind = "read" /\ exec[e].steps[j].status = "pending"}

Grouped(e) == Cardinality(Group(e)) >= 2

BeginStep(e) ==
    /\ Ready(e) /\ Current(e).status \notin Settled
    /\ Current(e).kind # "approval" /\ ~Grouped(e)
    /\ exec' = [exec EXCEPT ![e].at = "executing", ![e].attempt = 0,
                            ![e].todo = <<Row(Current(e).id, "running")>>]
    /\ Local

\* executeApprovalStep and requestToolApproval ask in the same way.
Ask(e) ==
    /\ \/ /\ Ready(e) /\ Current(e).kind = "approval" /\ Current(e).status \notin Settled
          /\ Goes(e, "waiting", <<Row(Current(e).id, "awaiting_approval"), Run("awaiting_approval")>>)
       \/ /\ At(e, "executing") /\ Current(e).kind = "asks"
          /\ Goes(e, "asking", <<Row(Current(e).id, "awaiting_approval"), Run("awaiting_approval")>>)
    /\ Local

\* The rejected tool's result travels up to handleApprovalRejection.
Rejection(id) ==
    <<Row(id, "skipped"), Run("cancelled"), Row(id, "completed"), Row(id, "skipped"), Run("cancelled")>>

\* waitForApproval receives an answer, whichever step it was meant for.
Answered(e) ==
    /\ At(e, "waiting") \/ At(e, "asking")
    /\ inbox[e] # NoAnswer
    /\ LET id == Current(e).id IN
         \/ /\ At(e, "waiting") /\ inbox[e] = "yes"
            /\ exec' = [exec EXCEPT ![e].at = "loop", ![e].index = @ + 1,
                                    ![e].todo = <<Row(id, "completed"), Run("running")>>]
         \/ /\ At(e, "waiting") /\ inbox[e] = "no"
            /\ Goes(e, "leaving", <<Row(id, "skipped"), Run("cancelled")>>)
         \/ /\ At(e, "asking") /\ inbox[e] = "yes"
            /\ Goes(e, "calling", <<Row(id, "running"), Run("running")>>)
         \/ /\ At(e, "asking") /\ inbox[e] = "no"
            /\ Goes(e, "leaving", Rejection(id))
    /\ inbox' = [inbox EXCEPT ![e] = NoAnswer]
    /\ UNCHANGED <<dbVars, ctx, registered, user, bounds, history>>

\* Variant: a step of kind approval waits for its answer only.
WaitEndsForTools(e) ==
    /\ ctx[e] # "live"
    /\ At(e, "asking") /\ Goes(e, "erred", <<>>)
    /\ Local

\* waitForApproval ends with the context.
WaitEnds(e) ==
    /\ ctx[e] # "live"
    /\ \/ At(e, "waiting") /\ Goes(e, "interrupted", <<>>)
       \/ At(e, "asking") /\ Goes(e, "erred", <<>>)
    /\ Local

\* The model or tool is at work.
Working(e) == At(e, "calling") \/ (At(e, "executing") /\ Current(e).kind # "asks")

Succeed(e) ==
    /\ Working(e)
    /\ exec' = [exec EXCEPT ![e].at = "loop", ![e].index = @ + 1,
                            ![e].todo = <<Row(Current(e).id, "completed")>>]
    /\ Local

\* The call fails, or is refused for the budget or the policy before it is made.
Err(e) ==
    /\ Working(e) \/ At(e, "executing")
    /\ Goes(e, "erred", <<>>)
    /\ Local

\* executeWithRetry
Retry(e) ==
    /\ At(e, "erred") /\ ctx[e] = "live" /\ exec[e].attempt < MaxRetries
    /\ exec' = [exec EXCEPT ![e].at = "executing", ![e].attempt = @ + 1]
    /\ Local

\* Variant: UpdateOutput is the last that is written to the step.
FailureAsOutput(id) == <<Row(id, "completed"), Run("failed")>>

\* failStepAndRun: UpdateOutput makes the step 'completed' for a moment.
Failure(id) == <<Row(id, "completed"), Row(id, "failed"), Run("failed")>>

FailStepAndRun(e) ==
    /\ At(e, "erred") \/ At(e, "repairing")
    /\ Goes(e, "leaving", Failure(Current(e).id))
    /\ Local

\* A single step asks for a new plan only with a live context.
AskRepair(e) ==
    /\ At(e, "erred") /\ ~exec[e].replanned /\ ctx[e] = "live"
    /\ Goes(e, "repairing", <<>>)
    /\ Local

\* replanFromFailure: ReplaceFromIndex and the new list.
Replan(e) ==
    /\ At(e, "repairing") /\ ~exec[e].replanned
    /\ \E plan \in Repairs :
         /\ rows' = {r \in rows : r.pos < exec[e].index} \cup Fresh(plan, exec[e].index)
         /\ lastId' = lastId + Len(plan)
    /\ exec' = [exec EXCEPT ![e].at = "loading", ![e].replanned = TRUE]
    /\ UNCHANGED <<status, hasPlan, ctx, inbox, registered, user, bounds, history>>

-----------------------------------------------------------------------------
(***************************************************************************)
(* executeParallelGroup.  Its goroutines write different rows, so that the *)
(* rows may as well all be 'running' before the first of them starts.      *)
(***************************************************************************)
BeginGroup(e) ==
    /\ Ready(e) /\ Grouped(e)
    /\ LET ids == {exec[e].steps[i].id : i \in Group(e)} IN
         \/ exec' = [exec EXCEPT ![e].at = "grouped", ![e].busy = ids, ![e].spoiled = FALSE,
                                 ![e].todo = SetToSeq({Row(id, "running") : id \in ids})]
         \/ exec' = [exec EXCEPT ![e].at = "grouped", ![e].spoiled = TRUE]   \* over the budget
    /\ Local

MemberEnds(e, id) ==
    /\ At(e, "grouped") /\ id \in exec[e].busy
    /\ \/ /\ rows' = SetRow(id, "completed")
          /\ stored' = stored \cup {id}
          /\ exec' = [exec EXCEPT ![e].busy = @ \ {id}]
       \/ /\ rows' = SetRow(id, "failed")
          /\ exec' = [exec EXCEPT ![e].busy = @ \ {id}, ![e].spoiled = TRUE]
          /\ UNCHANGED stored
    /\ UNCHANGED <<status, hasPlan, lastId, ctx, inbox, registered, user, bounds, overlapped>>

\* Variant: the errors of the group are not looked at.
GroupEndsAnyway(e) ==
    /\ At(e, "grouped") /\ exec[e].busy = {}
    /\ exec' = [exec EXCEPT ![e].at = "loop", ![e].index = @ + Cardinality(Group(e))]
    /\ Local

\* A failed group goes to the planner, which a dead context stops at once, or
\* fails under the name of its first step.
GroupEnds(e) ==
    /\ At(e, "grouped") /\ exec[e].busy = {}
    /\ \/ /\ ~exec[e].spoiled
          /\ exec' = [exec EXCEPT ![e].at = "loop", ![e].index = @ + Cardinality(Group(e))]
       \/ exec[e].spoiled /\ ctx[e] = "live" /\ Goes(e, "repairing", <<>>)
       \/ exec[e].spoiled /\ ctx[e] # "live" /\ Goes(e, "leaving", Failure(Current(e).id))
    /\ Local

-----------------------------------------------------------------------------
\* Variant: an interrupted run is left as it is.
FinishInterruptedQuietly(e) ==
    /\ At(e, "interrupted")
    /\ Goes(e, "leaving", IF ctx[e] = "expired" THEN <<Run("failed")>> ELSE <<>>)
    /\ Local

\* Variant: with a status of its own.
FinishInterruptedAsSuch(e) ==
    /\ At(e, "interrupted")
    /\ Goes(e, "leaving", <<Run("interrupted")>>)
    /\ Local

FinishInterrupted(e) ==
    /\ At(e, "interrupted")
    /\ \/ status \in {"paused", "cancelled"} /\ Goes(e, "leaving", <<>>)
       \/ /\ status \notin {"paused", "cancelled"}
          /\ Goes(e, "leaving", <<Run(IF ctx[e] = "expired" THEN "failed" ELSE "paused")>>)
    /\ Local

\* The deferred calls: the registration goes, whoever made it.
Leave(e) ==
    /\ At(e, "leaving")
    /\ registered' = None
    /\ exec' = [exec EXCEPT ![e] = NoExecutor]
    /\ ctx' = [ctx EXCEPT ![e] = "live"]
    /\ inbox' = [inbox EXCEPT ![e] = NoAnswer]
    /\ UNCHANGED <<dbVars, user, bounds, history>>

\* An executor has a context from registerRun to the deferred calls.
Executing(e) == exec[e].at \notin {"idle", "created", "resuming", "resetting", "regenerating",
                                   "rebatching", "registering"}

\* MaxDuration
Deadline(e) ==
    /\ Executing(e) /\ ctx[e] = "live"
    /\ ctx' = [ctx EXCEPT ![e] = "expired"]
    /\ UNCHANGED <<dbVars, exec, inbox, registered, user, bounds, history>>

-----------------------------------------------------------------------------
(***************************************************************************)
(* ApproveStep, CancelRun and PauseRun.                                    *)
(***************************************************************************)
Asked(u, request) ==
    /\ user[u] = NoRequest /\ requests < MaxRequests
    /\ user' = [user EXCEPT ![u] = request]
    /\ requests' = requests + 1
    /\ UNCHANGED <<dbVars, exec, ctx, inbox, registered, sessions, restarts, history>>

ReadStep(u) ==
    /\ \E r \in rows : r.status = "awaiting_approval"
    /\ \E yes \in BOOLEAN : Asked(u, [at |-> "sending", yes |-> yes])

\* The send does not block: a second answer is dropped.
Send(u) ==
    /\ user[u].at = "sending"
    /\ inbox' = IF registered # None /\ inbox[registered] = NoAnswer
                THEN [inbox EXCEPT ![registered] = IF user[u].yes THEN "yes" ELSE "no"]
                ELSE inbox
    /\ user' = [user EXCEPT ![u] = NoRequest]
    /\ UNCHANGED <<dbVars, exec, ctx, registered, bounds, history>>

AskStop(u) ==
    /\ status \notin Terminal \cup {"absent"}
    /\ \E at \in {"cancelling", "pausing"} : Asked(u, [NoRequest EXCEPT !.at = at])

\* rc.cancel(): first in CancelRun, last in PauseRun.
CancelContext(u) ==
    /\ \/ user[u].at = "cancelling" /\ user' = [user EXCEPT ![u].at = "marking"]
       \/ user[u].at = "stopping" /\ user' = [user EXCEPT ![u] = NoRequest]
    /\ ctx' = IF registered # None /\ ctx[registered] = "live"
              THEN [ctx EXCEPT ![registered] = "cancelled"]
              ELSE ctx
    /\ UNCHANGED <<dbVars, exec, inbox, registered, bounds, history>>

MarkRun(u) ==
    /\ \/ /\ user[u].at = "marking" /\ status' = "cancelled"
          /\ user' = [user EXCEPT ![u] = NoRequest]
       \/ /\ user[u].at = "pausing" /\ status' = "paused"
          /\ user' = [user EXCEPT ![u].at = "stopping"]
    /\ UNCHANGED <<hasPlan, rows, lastId, exec, ctx, inbox, registered, bounds, history>>

-----------------------------------------------------------------------------
\* The process ends and NewRunner repairs the tables when it starts again: a
\* second interruption in between only makes it repeat what it did.
Restart ==
    /\ restarts < MaxRestarts
    /\ restarts' = restarts + 1
    /\ status' = IF status \in {"running", "planning"} THEN "paused" ELSE status
    /\ rows' = IF status' = "paused" THEN ResetRows ELSE rows
    /\ exec' = [e \in Slots |-> NoExecutor]
    /\ ctx' = [e \in Slots |-> "live"]
    /\ inbox' = [e \in Slots |-> NoAnswer]
    /\ registered' = None
    /\ user' = [u \in Users |-> NoRequest]
    /\ UNCHANGED <<hasPlan, lastId, sessions, requests, history>>

-----------------------------------------------------------------------------
ExecutorStep(e) ==
    \/ Write(e) \/ Register(e) \/ MakePlan(e) \/ CreateBatch(e) \/ ReadRun(e) \/ Reset(e)
    \/ Begin(e) \/ Load(e) \/ LoopInterrupted(e) \/ Finish(e) \/ Skip(e)
    \/ BeginStep(e) \/ Ask(e) \/ Answered(e) \/ WaitEnds(e) \/ Succeed(e) \/ Err(e)
    \/ Retry(e) \/ FailStepAndRun(e) \/ AskRepair(e) \/ Replan(e)
    \/ BeginGroup(e) \/ (\E id \in exec[e].busy : MemberEnds(e, id)) \/ GroupEnds(e)
    \/ FinishInterrupted(e) \/ Leave(e)

UserStep(u) == ReadStep(u) \/ Send(u) \/ AskStop(u) \/ CancelContext(u) \/ MarkRun(u)

Next ==
    \/ \E e \in Slots : Start(e) \/ Resume(e) \/ ExecutorStep(e) \/ Deadline(e)
    \/ \E u \in Users : UserStep(u)
    \/ Restart

Spec == Init /\ [][Next]_agentVars

\* Goroutines are scheduled, calls of models and tools end (they have timeouts
\* and obey the context), and the deadline of a run passes.
Fairness ==
    \A e \in Slots : WF_agentVars(ExecutorStep(e)) /\ WF_agentVars(Deadline(e))

LiveSpec == Spec /\ Fairness

-----------------------------------------------------------------------------
(***************************************************************************)
(* Properties.                                                             *)
(***************************************************************************)
Statuses == {"absent", "planning", "running", "awaiting_approval", "paused"} \cup Terminal
StepStatuses == {"pending", "running", "awaiting_approval", "failed"} \cup Settled
Places == {"idle", "created", "planning", "batching", "resuming", "regenerating", "rebatching",
           "resetting", "registering", "starting", "loading", "loop", "waiting", "executing",
           "asking", "calling", "erred", "repairing", "grouped", "interrupted", "leaving"}

\* Rows, channels and executors hold what the code can put there, and an
\* executor in the middle of a step is at one of the steps it loaded.
AgentTypeOK ==
    /\ status \in Statuses /\ hasPlan \in BOOLEAN
    /\ \A r \in rows : r.id \in 1 .. lastId /\ r.kind \in Kinds /\ r.status \in StepStatuses
    /\ \A e \in Slots :
         /\ exec[e].at \in Places
         /\ exec[e].at \in {"waiting", "executing", "asking", "calling", "erred", "repairing",
                            "grouped"} => More(e)
         /\ ctx[e] \in {"live", "cancelled", "expired"}
    /\ registered \in Slots \cup {None}
    /\ \A u \in Users : user[u].at \in {"idle", "sending", "cancelling", "marking", "pausing", "stopping"}

\* A run is 'planning' or 'running' only while some goroutine carries it: the
\* executors, the requests and NewRunner all write the status without looking
\* at it, and no order of their writes leaves a run behind that shows as
\* running and that nobody executes.
NobodyLeftBehind ==
    status \in {"planning", "running"} => \E e \in Slots : exec[e].at # "idle"

\* Unless resumes overlapped, every step of a completed run is marked completed
\* or skipped; and in a process that never ended, those marked completed were
\* done: no pending, running or failed step slips through the loop, a replan or
\* a resume.  (After a crash inside failStepAndRun the mark may be wrong, see
\* Failure.)
CompletedMeansSettled ==
    status = "completed" /\ ~overlapped =>
        \A r \in rows :
            /\ r.status \in Settled
            /\ r.status = "completed" /\ restarts = 0 => r.id \in stored

\* Unless resumes overlapped, no step that may have effects is executed again
\* once its success was written, through pauses, failures that a late pause
\* revives, crashes and resumes (ResetInterrupted: "continue from its last
\* completed checkpoint").
CheckpointsAreKept ==
    [][\A e \in Slots :
         /\ exec[e].at # "executing" /\ exec'[e].at = "executing"
         /\ Current(e).kind # "read" /\ ~overlapped
         => Current(e).id \notin stored]_agentVars

\* Every StartRun and ResumeRun returns in the end.
SessionsEnd == \A e \in Slots : exec[e].at # "idle" ~> exec[e].at = "idle"

\* A paused run is resumable (agent_handler.go:182): once it has its steps, it
\* does not turn from paused into failed, not even by the pause itself.
PauseHolds == [][status = "paused" /\ rows # {} => status' # "failed"]_agentVars

\* A resumed run continues from its last completed checkpoint
\* (agent_step.go:127-128): within one process, and unless resumes overlapped, a
\* step it passes over as completed was done.
PassedMeansDone ==
    [][\A e \in Slots :
         /\ exec[e].at = "loop" /\ exec'[e].at = "loop"
         /\ exec'[e].index = exec[e].index + 1
         /\ Current(e).status = "completed" /\ ~overlapped /\ restarts = 0
         => Current(e).id \in stored]_agentVars
=============================================================================
