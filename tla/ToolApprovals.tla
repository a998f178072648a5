--------------------------- MODULE ToolApprovals ---------------------------
(***************************************************************************)
(* The tool executor and its approval broker (backend/internal/tools).     *)
(* Execute checks the replay cache and the policy, asks the user where the *)
(* policy says so, checks the policy again and runs the tool.  A chat call *)
(* ("inline") waits in the broker for its answer; a call of the manual     *)
(* endpoint ("out_of_band") leaves a pending request and returns, and the  *)
(* request that answers it runs the tool; a call of an agent ("handler")   *)
(* asks through the agent runner (module AgentRun).  Answers arrive in     *)
(* HTTP requests of their own (api/tool_handler.go), settings change at    *)
(* any time, and time passes for pending and for answered requests.  The   *)
(* broker and the cache live in memory and end with the process.           *)
(***************************************************************************)
EXTENDS Naturals, Sequences, FiniteSets

CONSTANTS
    Calls,          \* the calls of Executor.Execute
    Mode,           \* how each of them asks
    Tool,           \* the tool each of them names
    Request,        \* the tool call of the model each of them stands for
    Deferred,       \* the calls that tool_invoke makes
    SideEffecting,  \* tools that are not read-only
    Adjustable,     \* bound: tools whose policy is changed
    Answers,        \* requests of POST approvals/{id}
    CacheLimit,     \* maxSideEffectReplayEntries
    MaxChanges      \* bound: changes of policies

Tools == {Tool[c] : c \in Calls}
Modes == {"inline", "out_of_band", "handler"}
Policies == {"allow", "ask", "deny"}
Arguments == {"proposed", "edited"}

\* The identity of a side effect: the arguments are not part of it, and
\* the child of every tool_invoke has one and the same call id.
CallId(c) == IF c \in Deferred THEN <<"tool-invoke-child", Tool[c]>> ELSE <<Request[c], Tool[c]>>

ASSUME ApprovalsAssumption ==
    /\ Mode \in [Calls -> Modes] /\ CacheLimit \in Nat \ {0} /\ MaxChanges \in Nat
    /\ IsFiniteSet(Calls) /\ Calls # {} /\ Adjustable \subseteq Tools

VARIABLES
    call,           \* where each call is, the arguments it has, and its result
    pending,        \* the broker's entries: status, and whether their time has run out
    decision,       \* what was sent to the channel of an entry
    answer,         \* the requests that answer
    policy,         \* the policy of each tool
    cache,          \* the identities in Executor.idempotency
    changes,        \* policies changed so far
    ran,            \* history: the arguments of each run of the tool
    done,           \* history: identities carried out since the cache was last reset
    repeated,       \* history: calls that began when theirs was among them
    barred          \* history: calls denied since they began or were answered

vars == <<call, pending, decision, answer, policy, cache, changes, ran, done, repeated, barred>>
history == <<ran, done, repeated, barred>>

Places == {"new", "permitted", "waiting", "leaving", "recheck", "ready", "running", "returned"}
Statuses == {"none", "pending", "resolved", "expired"}
Nobody == [approved |-> FALSE, arguments |-> "none"]
\* A rejection leaves the arguments alone: edited ones would go nowhere.
Decisions == {d \in [approved : BOOLEAN, arguments : Arguments] : d.approved \/ d.arguments = "proposed"}

\* Every record has the values the code can give it.
ApprovalsTypeOK ==
    /\ call \in [Calls -> [at : Places, arguments : Arguments, result : {"none", "ok", "error", "replayed", "required"}]]
    /\ pending \in [Calls -> [status : Statuses, late : BOOLEAN]]
    /\ decision \in [Calls -> Decisions \union {Nobody}]
    /\ answer \in [Answers -> [at : {"idle", "looked", "recheck", "ready", "running", "done"},
                              call : Calls, accepted : BOOLEAN, says : Decisions]]
    /\ policy \in [Tools -> Policies] /\ cache \subseteq {CallId(c) : c \in Calls}
    /\ Cardinality(cache) <= CacheLimit
    /\ changes \in 0 .. MaxChanges /\ ran \in [Calls -> Seq(Arguments)]
    /\ done \subseteq {CallId(c) : c \in Calls} /\ repeated \subseteq Calls /\ barred \subseteq Calls

Init ==
    /\ call = [c \in Calls |-> [at |-> "new", arguments |-> "proposed", result |-> "none"]]
    /\ pending = [c \in Calls |-> [status |-> "none", late |-> FALSE]]
    /\ decision = [c \in Calls |-> Nobody]
    /\ answer = [a \in Answers |-> [at |-> "idle", call |-> CHOOSE c \in Calls : TRUE, accepted |-> FALSE,
                                    says |-> [approved |-> FALSE, arguments |-> "proposed"]]]
    /\ policy \in [Tools -> Policies] /\ \A t \in Tools \ Adjustable : policy[t] = "ask"
    /\ cache = {} /\ changes = 0
    /\ ran = [c \in Calls |-> <<>>]
    /\ done = {} /\ repeated = {} /\ barred = {}

Goes(c, there) == call' = [call EXCEPT ![c].at = there]
Returns(c, result) == call' = [call EXCEPT ![c].at = "returned", ![c].result = result]
Denied(c) == policy[Tool[c]] = "deny"

\* A run of the tool; and a call whose user has decided while it was denied.
Runs(c, arguments) == ran' = [ran EXCEPT ![c] = Append(@, arguments)]
Bars(c) == barred' = IF Denied(c) THEN barred \union {c} ELSE barred

-----------------------------------------------------------------------------
(***************************************************************************)
(* The broker.                                                             *)
(***************************************************************************)
\* Overdue requests expire; answered ones are forgotten a TTL later, expired
\* ones never.
Pruned ==
    [c \in Calls |->
        CASE pending[c].status = "pending" /\ pending[c].late -> [status |-> "expired", late |-> TRUE]
          [] pending[c].status = "resolved" /\ pending[c].late -> [status |-> "none", late |-> FALSE]
          [] OTHER -> pending[c]]

\* Request (before its wait) and CreatePending.
Ask(c) == pending' = [Pruned EXCEPT ![c] = [status |-> "pending", late |-> FALSE]]

List ==
    /\ pending' = Pruned
    /\ UNCHANGED <<call, decision, answer, policy, cache, changes, history>>

\* ExpiresAt of a pending entry passes, or a TTL since ResolvedAt.
TimeRunsOut(c) ==
    /\ pending[c].status \in {"pending", "resolved"} /\ ~pending[c].late
    /\ pending' = [pending EXCEPT ![c].late = TRUE]
    /\ UNCHANGED <<call, decision, answer, policy, cache, changes, history>>

-----------------------------------------------------------------------------
(***************************************************************************)
(* Execute.                                                                *)
(***************************************************************************)
\* The restriction of the request, the registry, and the replay cache.
Begin(c) ==
    /\ call[c].at = "new"
    /\ \/ Returns(c, "error")
       \/ /\ Tool[c] \in SideEffecting /\ CallId(c) \in cache
          /\ Returns(c, "replayed")
       \/ /\ ~(Tool[c] \in SideEffecting /\ CallId(c) \in cache)
          /\ Goes(c, "permitted")
    /\ repeated' = IF CallId(c) \in done THEN repeated \union {c} ELSE repeated
    /\ Bars(c)
    /\ UNCHANGED <<pending, decision, answer, policy, cache, changes, ran, done>>

\* The policy is read for the first time.
CheckPolicy(c) ==
    /\ call[c].at = "permitted"
    /\ \/ Denied(c) /\ Returns(c, "error") /\ UNCHANGED pending
       \/ policy[Tool[c]] = "allow" /\ Goes(c, "recheck") /\ UNCHANGED pending
       \/ /\ policy[Tool[c]] = "ask"
          /\ \/ Mode[c] = "inline" /\ Ask(c) /\ Goes(c, "waiting")
             \/ Mode[c] = "out_of_band" /\ Ask(c) /\ Returns(c, "required")
             \/ Mode[c] = "handler" /\ Goes(c, "waiting") /\ UNCHANGED pending
    /\ UNCHANGED <<decision, answer, policy, cache, changes, history>>

\* The wait of an inline call ends with the answer.
Hear(c) ==
    /\ call[c].at = "waiting" /\ Mode[c] = "inline" /\ decision[c] # Nobody
    /\ IF decision[c].approved
       THEN call' = [call EXCEPT ![c].at = "recheck", ![c].arguments = decision[c].arguments]
       ELSE Returns(c, "error")
    /\ UNCHANGED <<pending, decision, answer, policy, cache, changes, history>>

\* It ends because the client is gone; whichever is chosen when both are true.
GiveUp(c) ==
    /\ call[c].at = "waiting" /\ Mode[c] = "inline"
    /\ Goes(c, "leaving")
    /\ UNCHANGED <<pending, decision, answer, policy, cache, changes, history>>

\* Variant: the entry of a call that gave up stays pending.
ExpireNothing(c) ==
    /\ call[c].at = "leaving"
    /\ Returns(c, "error")
    /\ UNCHANGED <<pending, decision, answer, policy, cache, changes, history>>

Expire(c) ==
    /\ call[c].at = "leaving"
    /\ pending' = IF pending[c].status = "pending"
                  THEN [pending EXCEPT ![c] = [status |-> "expired", late |-> TRUE]] ELSE pending
    /\ Returns(c, "error")
    /\ UNCHANGED <<decision, answer, policy, cache, changes, history>>

\* The approval handler of an agent answers, or fails.
HandlerReturns(c) ==
    /\ call[c].at = "waiting" /\ Mode[c] = "handler"
    /\ Goes(c, "recheck") \/ Returns(c, "error")
    /\ Bars(c)
    /\ UNCHANGED <<pending, decision, answer, policy, cache, changes, ran, done, repeated>>

\* Variant: the policy is not read a second time.
RecheckNothing(c) ==
    /\ call[c].at = "recheck"
    /\ Goes(c, "ready")
    /\ UNCHANGED <<pending, decision, answer, policy, cache, changes, history>>

Recheck(c) ==
    /\ call[c].at = "recheck"
    /\ IF Denied(c) THEN Returns(c, "error") ELSE Goes(c, "ready")
    /\ UNCHANGED <<pending, decision, answer, policy, cache, changes, history>>

\* Validate, and the first attempt.
Run(c) ==
    /\ call[c].at = "ready"
    /\ \/ Returns(c, "error") /\ UNCHANGED ran
       \/ Goes(c, "running") /\ Runs(c, call[c].arguments)
    /\ UNCHANGED <<pending, decision, answer, policy, cache, changes, done, repeated, barred>>

\* Variant: whatever failed for a moment is tried again.
AttemptsForAll(c) == 2

MaxAttempts(c) == IF Tool[c] \in SideEffecting THEN 1 ELSE 2

\* A transient error, before the deadline.
RunAgain(c) ==
    /\ call[c].at = "running" /\ Len(ran[c]) < MaxAttempts(c)
    /\ Runs(c, call[c].arguments)
    /\ UNCHANGED <<call, pending, decision, answer, policy, cache, changes, done, repeated, barred>>

\* Any other error, a timeout, no result, or a result that says it is one.
RunFails(c) ==
    /\ call[c].at = "running"
    /\ Returns(c, "error")
    /\ UNCHANGED <<pending, decision, answer, policy, cache, changes, history>>

Full == Cardinality(cache) >= CacheLimit

\* Variant: only the calls that were not edited are remembered.
RememberUnedited(c) ==
    /\ cache' = IF call[c].arguments = "edited" THEN cache
                ELSE (IF Full THEN {} ELSE cache) \union {CallId(c)}
    /\ done' = IF call[c].arguments = "edited" THEN done \union {CallId(c)}
               ELSE (IF Full THEN {} ELSE done) \union {CallId(c)}

\* Variant: a full cache takes one more.
RememberAll(c) ==
    /\ cache' = cache \union {CallId(c)}
    /\ done' = done \union {CallId(c)}

\* cacheSideEffectResult: a full cache is emptied before.
Remember(c) ==
    /\ cache' = (IF Full THEN {} ELSE cache) \union {CallId(c)}
    /\ done' = (IF Full THEN {} ELSE done) \union {CallId(c)}

RunSucceeds(c) ==
    /\ call[c].at = "running"
    /\ Returns(c, "ok")
    /\ IF Tool[c] \in SideEffecting THEN Remember(c) ELSE UNCHANGED <<cache, done>>
    /\ UNCHANGED <<pending, decision, answer, policy, changes, ran, repeated, barred>>

Execute(c) ==
    \/ Begin(c) \/ CheckPolicy(c) \/ Hear(c) \/ GiveUp(c) \/ Expire(c) \/ HandlerReturns(c)
    \/ Recheck(c) \/ Run(c) \/ RunAgain(c) \/ RunFails(c) \/ RunSucceeds(c)

-----------------------------------------------------------------------------
(***************************************************************************)
(* POST approvals/{id}.                                                    *)
(***************************************************************************)
Moves(a, there) == answer' = [answer EXCEPT ![a].at = there]

\* Get: the mode and the arguments are those of the entry, found in any state.
LookUp(a, c) ==
    /\ answer[a].at = "idle" /\ pending[c].status # "none"
    /\ pending' = Pruned
    /\ IF Pruned[c].status = "none" THEN Moves(a, "done")
       ELSE \E says \in Decisions :
              answer' = [answer EXCEPT ![a].at = "looked", ![a].call = c, ![a].says = says]
    /\ UNCHANGED <<call, decision, policy, cache, changes, history>>

\* Variant: the waiting call is not told.
SendNothing(c, says) == UNCHANGED decision

Send(c, says) == decision' = [decision EXCEPT ![c] = says]

\* Resolve, refused: the entry is gone, settled or overdue.
Refuse(a) ==
    LET c == answer[a].call IN
    /\ answer[a].at = "looked"
    /\ pending[c].status # "pending" \/ pending[c].late
    /\ pending' = IF pending[c].status = "pending"
                  THEN [pending EXCEPT ![c].status = "expired"] ELSE pending
    /\ Moves(a, "done")
    /\ UNCHANGED <<call, decision, policy, cache, changes, history>>

\* Variant: an entry that has an answer takes another one.
OpenToAll(c) == pending[c].status \in {"pending", "resolved"} /\ ~pending[c].late

Open(c) == pending[c].status = "pending" /\ ~pending[c].late

\* Variant: the tool is executed for every call that was approved.
ExecutesAll(c, approved) == approved

\* A waiting call executes the tool itself.
Executes(c, approved) == approved /\ Mode[c] # "inline"

Resolve(a) ==
    LET c == answer[a].call  says == answer[a].says IN
    /\ answer[a].at = "looked" /\ Open(c)
    /\ pending' = [pending EXCEPT ![c] = [status |-> "resolved", late |-> FALSE]]
    /\ Send(c, says)
    /\ answer' = [answer EXCEPT ![a].accepted = TRUE,
                                ![a].at = IF Executes(c, says.approved) THEN "recheck" ELSE "done"]
    /\ Bars(c)
    /\ UNCHANGED <<call, policy, cache, changes, ran, done, repeated>>

\* ExecuteApproved: the policy, Validate and one attempt; the cache has no part.
RecheckApproved(a) ==
    /\ answer[a].at = "recheck"
    /\ Moves(a, IF Denied(answer[a].call) THEN "done" ELSE "ready")
    /\ UNCHANGED <<call, pending, decision, policy, cache, changes, history>>

RunApproved(a) ==
    /\ answer[a].at = "ready"
    /\ \/ Moves(a, "done") /\ UNCHANGED ran
       \/ Moves(a, "running") /\ Runs(answer[a].call, answer[a].says.arguments)
    /\ UNCHANGED <<call, pending, decision, policy, cache, changes, done, repeated, barred>>

EndApproved(a) ==
    /\ answer[a].at = "running"
    /\ Moves(a, "done")
    /\ UNCHANGED <<call, pending, decision, policy, cache, changes, history>>

ResolveApproval(a) ==
    \/ \E c \in Calls : LookUp(a, c)
    \/ Refuse(a) \/ Resolve(a) \/ RecheckApproved(a) \/ RunApproved(a) \/ EndApproved(a)

-----------------------------------------------------------------------------
SetPolicy(t, p) ==
    /\ changes < MaxChanges /\ policy[t] # p
    /\ policy' = [policy EXCEPT ![t] = p]
    /\ changes' = changes + 1
    /\ barred' = IF p = "deny" THEN barred ELSE {c \in barred : Tool[c] # t}
    /\ UNCHANGED <<call, pending, decision, answer, cache, ran, done, repeated>>

Next ==
    \/ List
    \/ \E c \in Calls : Execute(c) \/ TimeRunsOut(c)
    \/ \E a \in Answers : ResolveApproval(a)
    \/ \E t \in Adjustable, p \in Policies : SetPolicy(t, p)

ApprovalsSpec == Init /\ [][Next]_vars

\* Goroutines that can go on do; a tool returns, at the latest when its context
\* ends.  Nobody has to answer, to look or to leave.
Fairness ==
    /\ \A c \in Calls :
          /\ WF_vars(CheckPolicy(c)) /\ WF_vars(Hear(c)) /\ WF_vars(Expire(c))
          /\ WF_vars(Recheck(c)) /\ WF_vars(Run(c)) /\ WF_vars(RunFails(c) \/ RunSucceeds(c))
    /\ \A a \in Answers :
          WF_vars(Refuse(a) \/ Resolve(a) \/ RecheckApproved(a) \/ RunApproved(a) \/ EndApproved(a))

LiveApprovalsSpec == ApprovalsSpec /\ Fairness

-----------------------------------------------------------------------------
(***************************************************************************)
(* Properties.                                                             *)
(***************************************************************************)
\* An approval is the user's: of all the requests that answer it one at most is
\* accepted, nothing runs before that or once the request has expired, and what
\* runs was approved, with the arguments it runs with.  (The comment of
\* ExecuteApproved: "whose exact arguments were explicitly approved".)
RunsAsAnswered ==
    \A c \in Calls :
        LET accepted == {a \in Answers : answer[a].accepted /\ answer[a].call = c} IN
        /\ Cardinality(accepted) <= 1
        /\ pending[c].status \in {"pending", "expired"} => ran[c] = <<>>
        /\ \A a \in accepted, i \in 1 .. Len(ran[c]) :
              answer[a].says = [approved |-> TRUE, arguments |-> ran[c][i]]

\* One call is one run of a tool with side effects: neither a retry nor the
\* waiting call and the request that answers it run it twice.
SideEffectsOnce == \A c \in Calls : Tool[c] \in SideEffecting => Len(ran[c]) <= 1

\* A call that is repeated after it was carried out is not run again, whatever
\* the user made of its arguments, as long as the cache was not reset.
RepeatsAreReplayed == \A c \in repeated : Tool[c] \in SideEffecting => ran[c] = <<>>

\* A tool that was denied when the user answered (or when the call began) and
\* still is does not run.
DenialHolds == [][\A c \in barred : ran'[c] = ran[c]]_vars

\* Nobody is told that an answer was accepted for a chat call that has returned:
\* its entry is answered or expired by then.  Between the moment the call gives
\* up and expire() an answer is still accepted, and lost.
NoAnswerAfterReturn ==
    [][\A c \in Calls :
          Mode[c] = "inline" /\ call[c].at = "returned" => decision'[c] = decision[c]]_vars

\* An answer that was accepted takes effect: the call that waits for it ends,
\* whether it runs the tool or not, and so does the request that runs it.
AnswersTakeEffect ==
    \A a \in Answers :
        answer[a].accepted ~> answer[a].at = "done" /\ call[answer[a].call].at = "returned"

\* A result out of the cache is the result of the same tool call of the model
\* (executor.go: "A stable provider call ID identifies one side effect").
RepliesAreOwn ==
    \A c \in Calls : call[c].result = "replayed" =>
        \E d \in Calls : Request[d] = Request[c] /\ call[d].result = "ok"
=============================================================================
