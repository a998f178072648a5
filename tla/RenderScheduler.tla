-------------------------- MODULE RenderScheduler --------------------------
(***************************************************************************)
(* The video render scheduler (backend/internal/video/render_scheduler.go):*)
(* Render puts a request into a priority queue and waits; a pool of        *)
(* workers hands requests to the delegate renderer within limits per user  *)
(* and per workspace.                                                      *)
(*                                                                         *)
(* One action per critical section of s.mu, per select, and per step of    *)
(* the delegate, which runs in a goroutine of its own.  A worker in        *)
(* cond.Wait is "asleep" until some Broadcast.  Every request is rendered  *)
(* by a caller of its own, so the request names the caller too.            *)
(* RenderAdmission is what this module implements.                         *)
(***************************************************************************)
EXTENDS Integers, FiniteSets

CONSTANTS
    Requests, Workers,
    Anyone,             \* the empty user or workspace id
    UserOf, WorkspaceOf, PriorityOf,
    MaxPerUser, MaxPerWorkspace,
    Outcomes,           \* what a delegate may return: "ok" and errors, which the
                        \* scheduler does not tell apart (nor does service.go:1763)
    MaxCancels,         \* bound: contexts ever cancelled
    Stubborn            \* requests whose cancelled delegate may outlast the grace period

None == "none"      \* no request, no result

ASSUME RenderAssumption ==
    /\ None \notin Requests
    /\ IsFiniteSet(Requests) /\ IsFiniteSet(Workers) /\ Workers # {}
    /\ MaxPerUser \in Nat \ {0} /\ MaxPerWorkspace \in Nat \ {0}
    /\ \A r \in Requests : PriorityOf[r] \in Int
    /\ "error" \in Outcomes /\ Outcomes \subseteq {"ok", "error"}
    /\ MaxCancels \in Nat
    /\ Stubborn \subseteq Requests

Users == {UserOf[r] : r \in Requests} \ {Anyone}
Workspaces == {WorkspaceOf[r] : r \in Requests} \ {Anyone}

VARIABLES
    \* the caller of Render and its item
    caller,             \* the place of the caller in Render
    number,             \* scheduledRender.id, 0 before it is drawn
    cancelled,          \* requests whose own context is done
    result,             \* scheduledRender.result, a channel of capacity one
    answer,             \* what Render returned
    \* the scheduler
    queue, active, activeByUser, activeByWorkspace,
    closed,             \* s.closed and rootCtx are set in one critical section
    \* the workers and the delegate
    place, serving,
    outcome,            \* what execute is about to return
    activeCancels,      \* requests registered in s.activeCancels
    stopped,            \* requests whose execute context was cancelled
    delegate            \* the delegate's call for a request and its resultCh

callerVars == <<caller, number, cancelled, result, answer>>
slotVars == <<active, activeByUser, activeByWorkspace>>
execVars == <<outcome, activeCancels, stopped, delegate>>
renderVars == <<callerVars, queue, slotVars, closed, place, serving, execVars>>

RenderInit ==
    /\ caller = [r \in Requests |-> "idle"]
    /\ number = [r \in Requests |-> 0]
    /\ cancelled = {}
    /\ result = [r \in Requests |-> None]
    /\ answer = [r \in Requests |-> None]
    /\ queue = {}
    /\ active = 0
    /\ activeByUser = [u \in Users |-> 0]
    /\ activeByWorkspace = [x \in Workspaces |-> 0]
    /\ closed = FALSE
    /\ place = [w \in Workers |-> "looking"]
    /\ serving = [w \in Workers |-> None]
    /\ outcome = [w \in Workers |-> None]
    /\ activeCancels = {}
    /\ stopped = {}
    /\ delegate = [r \in Requests |-> None]

\* A process that starts again builds a scheduler of its own.
RenderReset ==
    /\ caller' = [r \in Requests |-> "idle"]
    /\ number' = [r \in Requests |-> 0]
    /\ cancelled' = {}
    /\ result' = [r \in Requests |-> None]
    /\ answer' = [r \in Requests |-> None]
    /\ queue' = {}
    /\ active' = 0
    /\ activeByUser' = [u \in Users |-> 0]
    /\ activeByWorkspace' = [x \in Workspaces |-> 0]
    /\ closed' = FALSE
    /\ place' = [w \in Workers |-> "looking"]
    /\ serving' = [w \in Workers |-> None]
    /\ outcome' = [w \in Workers |-> None]
    /\ activeCancels' = {}
    /\ stopped' = {}
    /\ delegate' = [r \in Requests |-> None]

-----------------------------------------------------------------------------
(***************************************************************************)
(* Helpers.                                                                *)
(***************************************************************************)

\* Variant: first come, first served.
LessByNumber(q, r) == number[q] < number[r]

\* renderPriorityQueue.Less
Less(q, r) ==
    \/ PriorityOf[q] > PriorityOf[r]
    \/ PriorityOf[q] = PriorityOf[r] /\ number[q] < number[r]

\* cond.Broadcast: the workers' places after it.
Broadcast == [w \in Workers |-> IF place[w] = "asleep" THEN "looking" ELSE place[w]]

\* A send with a default case: dropped when the channel is full.
Sent(r, value) == IF result[r] = None THEN value ELSE result[r]

Allowed(r) ==
    /\ UserOf[r] # Anyone => activeByUser[UserOf[r]] < MaxPerUser
    /\ WorkspaceOf[r] # Anyone => activeByWorkspace[WorkspaceOf[r]] < MaxPerWorkspace

Eligible == {r \in queue \ cancelled : Allowed(r)}

\* ctx.Done() of the context execute derives from the caller's.
Done(r) == r \in cancelled \cup stopped

Bump(counter, k, by) == IF k = Anyone THEN counter ELSE [counter EXCEPT ![k] = @ + by]

-----------------------------------------------------------------------------
(***************************************************************************)
(* Render, in the caller's goroutine.                                      *)
(***************************************************************************)

\* s.sequence.Add(1): before the lock, so another caller may queue first.
DrawNumber(r) ==
    /\ caller[r] = "idle"
    /\ caller' = [caller EXCEPT ![r] = "numbered"]
    /\ number' = [number EXCEPT ![r] =
                    1 + Cardinality({q \in Requests : number[q] # 0})]
    /\ UNCHANGED <<cancelled, result, answer, queue, slotVars, closed, place, serving, execVars>>

Enqueue(r) ==
    /\ caller[r] = "numbered" /\ ~closed
    /\ caller' = [caller EXCEPT ![r] = "waiting"]
    /\ queue' = queue \cup {r}
    /\ place' = Broadcast
    /\ UNCHANGED <<number, cancelled, result, answer, slotVars, closed, serving, execVars>>

Refuse(r) ==
    /\ caller[r] = "numbered" /\ closed
    /\ caller' = [caller EXCEPT ![r] = "refused"]
    /\ answer' = [answer EXCEPT ![r] = "error"]
    /\ UNCHANGED <<number, cancelled, result, queue, slotVars, closed, place, serving, execVars>>

\* The three cases of the select, any of those that are ready.
TakeResult(r) ==
    /\ caller[r] = "waiting" /\ result[r] # None
    /\ caller' = [caller EXCEPT ![r] = "returned"]
    /\ answer' = [answer EXCEPT ![r] = result[r]]
    /\ result' = [result EXCEPT ![r] = None]
    /\ UNCHANGED <<number, cancelled, queue, slotVars, closed, place,
                   serving, execVars>>

GiveUp(r) ==
    /\ caller[r] = "waiting"
    /\ r \in cancelled \/ closed
    /\ answer' = [answer EXCEPT ![r] = "error"]
    /\ caller' = [caller EXCEPT ![r] = "withdrawing"]
    /\ UNCHANGED <<number, cancelled, result, queue, slotVars, closed, place, serving, execVars>>

\* Variant: the caller leaves its item in the queue.
CancelQueuedForgotten(r) ==
    /\ caller[r] = "withdrawing"
    /\ caller' = [caller EXCEPT ![r] = "returned"]
    /\ place' = Broadcast
    /\ UNCHANGED <<number, cancelled, result, answer, queue, slotVars, closed,
                   serving, execVars>>

CancelQueued(r) ==
    /\ caller[r] = "withdrawing"
    /\ caller' = [caller EXCEPT ![r] = "returned"]
    /\ queue' = queue \ {r}
    /\ place' = Broadcast
    /\ UNCHANGED <<number, cancelled, result, answer, slotVars, closed, serving, execVars>>

\* The caller's context is cancelled.  Once Render has returned nobody looks
\* at it any more.
CancelContext(r) ==
    /\ caller[r] \in {"numbered", "waiting"}
    /\ r \notin cancelled
    /\ Cardinality(cancelled) < MaxCancels
    /\ cancelled' = cancelled \cup {r}
    /\ UNCHANGED <<caller, number, result, answer, queue, slotVars, closed, place, serving, execVars>>

-----------------------------------------------------------------------------
(***************************************************************************)
(* worker and nextEligibleLocked.                                          *)
(***************************************************************************)

\* Cancelled items popped before the selected one are answered and dropped.
Drop(D) == result' = [r \in Requests |-> IF r \in D THEN Sent(r, "error") ELSE result[r]]

TakeSlot(r) ==
    /\ active' = active + 1
    /\ activeByUser' = Bump(activeByUser, UserOf[r], 1)
    /\ activeByWorkspace' = Bump(activeByWorkspace, WorkspaceOf[r], 1)

\* Variant: the counter of the user stays.
FreeSlotKeepingUser(r) ==
    /\ active' = active - 1
    /\ activeByWorkspace' = Bump(activeByWorkspace, WorkspaceOf[r], -1)
    /\ UNCHANGED activeByUser

\* Variant: the slot of an interrupted request is freed a second time.
FreeSlotTwice(r) ==
    /\ active' = active - (IF r \in stopped \cap cancelled THEN 2 ELSE 1)
    /\ activeByUser' = Bump(activeByUser, UserOf[r], -1)
    /\ activeByWorkspace' = Bump(activeByWorkspace, WorkspaceOf[r], -1)

FreeSlot(r) ==
    /\ active' = active - 1
    /\ activeByUser' = Bump(activeByUser, UserOf[r], -1)
    /\ activeByWorkspace' = Bump(activeByWorkspace, WorkspaceOf[r], -1)

Select(w) ==
    /\ place[w] = "looking"
    /\ \E r \in Eligible :
         LET dropped == {q \in queue \cap cancelled : Less(q, r)} IN
         /\ \A q \in Eligible \ {r} : Less(r, q)
         /\ queue' = queue \ ({r} \cup dropped)
         /\ Drop(dropped)
         /\ TakeSlot(r)
         /\ serving' = [serving EXCEPT ![w] = r]
         /\ place' = [place EXCEPT ![w] = "admitted"]
    /\ UNCHANGED <<caller, number, cancelled, answer, closed, execVars>>

\* Nothing to do: every cancelled item was popped on the way.
FindNothing(w) ==
    /\ place[w] = "looking"
    /\ Eligible = {}
    /\ queue' = queue \ cancelled
    /\ Drop(queue \cap cancelled)
    /\ place' = [place EXCEPT ![w] = IF closed THEN "exited" ELSE "asleep"]
    /\ UNCHANGED <<caller, number, cancelled, answer, slotVars, closed, serving, execVars>>

-----------------------------------------------------------------------------
(***************************************************************************)
(* execute and waitForCancelledDelegate.                                   *)
(***************************************************************************)

At(w, here) == place[w] = here
Goto(w, there) == place' = [place EXCEPT ![w] = there]
Returns(w, value) == outcome' = [outcome EXCEPT ![w] = value]
schedVars == <<callerVars, queue, slotVars, closed, serving>>

\* The scheduler closed between the selection and this lock.
ExecuteRefused(w) ==
    /\ At(w, "admitted") /\ closed
    /\ Returns(w, "error")
    /\ Goto(w, "reporting")
    /\ UNCHANGED <<schedVars, activeCancels, stopped, delegate>>

Execute(w) ==
    /\ At(w, "admitted") /\ ~closed
    /\ activeCancels' = activeCancels \cup {serving[w]}
    /\ delegate' = [delegate EXCEPT ![serving[w]] = "running"]
    /\ Goto(w, "rendering")
    /\ UNCHANGED <<schedVars, outcome, stopped>>

\* The delegate returns: a cancelled one may have finished all the same.
DelegateReturns(r) ==
    /\ delegate[r] = "running"
    /\ \E value \in Outcomes : delegate' = [delegate EXCEPT ![r] = value]
    /\ UNCHANGED <<schedVars, place, outcome, activeCancels, stopped>>

\* case result := <-resultCh
Collect(w) ==
    /\ At(w, "rendering")
    /\ delegate[serving[w]] \in Outcomes
    /\ Returns(w, delegate[serving[w]])
    /\ delegate' = [delegate EXCEPT ![serving[w]] = "done"]
    /\ Goto(w, "reporting")
    /\ UNCHANGED <<schedVars, activeCancels, stopped>>

\* Variant: a cancelled delegate is not waited for.
InterruptWithoutGrace(w) ==
    /\ At(w, "rendering")
    /\ Returns(w, "error")
    /\ stopped' = stopped \cup {serving[w]}
    /\ Goto(w, "reporting")
    /\ UNCHANGED <<schedVars, activeCancels, delegate>>

\* case <-ctx.Done(): nothing more to cancel.  case <-rootCtx.Done() and the
\* stall ticker, which may fire at any time: cancel.  Then wait.
Interrupt(w) ==
    /\ At(w, "rendering")
    /\ \/ Done(serving[w]) /\ UNCHANGED stopped
       \/ stopped' = stopped \cup {serving[w]}
    /\ Returns(w, "error")
    /\ Goto(w, "grace")
    /\ UNCHANGED <<schedVars, activeCancels, delegate>>

\* The delegate returned within the grace period.  Its result is discarded.
GraceEnds(w) ==
    /\ At(w, "grace")
    /\ delegate[serving[w]] \in Outcomes
    /\ delegate' = [delegate EXCEPT ![serving[w]] = "done"]
    /\ Goto(w, "reporting")
    /\ UNCHANGED <<schedVars, outcome, activeCancels, stopped>>

\* The timer fires first: the goroutine of the delegate is left behind.
GraceExpires(w) ==
    /\ At(w, "grace") /\ serving[w] \in Stubborn
    /\ Goto(w, "reporting")
    /\ UNCHANGED <<schedVars, execVars>>

\* The deferred function cancels and forgets the registration, then the worker
\* sends; only the caller's own receive can see the two apart.
Report(w) ==
    /\ At(w, "reporting")
    /\ activeCancels' = activeCancels \ {serving[w]}
    /\ stopped' = stopped \cup {serving[w]}
    /\ result' = [result EXCEPT ![serving[w]] = Sent(serving[w], outcome[w])]
    /\ Goto(w, "releasing")
    /\ UNCHANGED <<caller, number, cancelled, answer, queue, slotVars, closed,
                   serving, outcome, delegate>>

Release(w) ==
    /\ At(w, "releasing")
    /\ FreeSlot(serving[w])
    /\ serving' = [serving EXCEPT ![w] = None]
    /\ outcome' = [outcome EXCEPT ![w] = None]
    /\ place' = [Broadcast EXCEPT ![w] = "looking"]
    /\ UNCHANGED <<callerVars, queue, closed, activeCancels, stopped, delegate>>

-----------------------------------------------------------------------------
(***************************************************************************)
(* Shutdown.                                                               *)
(***************************************************************************)

\* The critical section.
Shutdown ==
    /\ ~closed
    /\ closed' = TRUE
    /\ result' = [r \in Requests |-> IF r \in queue THEN Sent(r, "error") ELSE result[r]]
    /\ queue' = {}
    /\ stopped' = stopped \cup activeCancels
    /\ place' = Broadcast
    /\ UNCHANGED <<caller, number, cancelled, answer, slotVars, serving, outcome,
                   activeCancels, delegate>>

-----------------------------------------------------------------------------
CallerStep(r) ==
    \/ DrawNumber(r) \/ Enqueue(r) \/ Refuse(r)
    \/ TakeResult(r) \/ GiveUp(r) \/ CancelQueued(r)

WorkerStep(w) ==
    \/ Select(w) \/ FindNothing(w)
    \/ ExecuteRefused(w) \/ Execute(w) \/ Collect(w) \/ Interrupt(w)
    \/ GraceEnds(w) \/ GraceExpires(w)
    \/ Report(w) \/ Release(w)

RenderNext ==
    \/ \E r \in Requests : CallerStep(r) \/ CancelContext(r) \/ DelegateReturns(r)
    \/ \E w \in Workers : WorkerStep(w)
    \/ Shutdown

RenderSpec == RenderInit /\ [][RenderNext]_renderVars

-----------------------------------------------------------------------------
(***************************************************************************)
(* Properties.                                                             *)
(***************************************************************************)

\* workers.Wait returns, and Shutdown unless its deadline came first.
Drained == \A w \in Workers : place[w] = "exited"

Served == {serving[w] : w \in Workers} \ {None}

\* Every variable has a value the code can give it.
RenderTypeOK ==
    /\ caller \in [Requests -> {"idle", "numbered", "waiting", "withdrawing",
                                "returned", "refused"}]
    /\ number \in [Requests -> 0 .. Cardinality(Requests)]
    /\ cancelled \subseteq Requests
    /\ result \in [Requests -> Outcomes \cup {None}]
    /\ answer \in [Requests -> Outcomes \cup {None}]
    /\ queue \subseteq Requests
    /\ active \in 0 .. Cardinality(Workers)
    /\ activeByUser \in [Users -> 0 .. MaxPerUser]
    /\ activeByWorkspace \in [Workspaces -> 0 .. MaxPerWorkspace]
    /\ closed \in BOOLEAN
    /\ place \in [Workers -> {"looking", "asleep", "admitted", "rendering", "grace",
                              "reporting", "releasing", "exited"}]
    /\ serving \in [Workers -> Requests \cup {None}]
    /\ outcome \in [Workers -> Outcomes \cup {None}]
    /\ activeCancels \subseteq Requests /\ stopped \subseteq Requests
    /\ delegate \in [Requests -> Outcomes \cup {None, "running", "done"}]

\* When Render has returned, its item is in no queue, and what the delegate
\* may still do for it was told to stop: no render goes on for a caller that
\* left, whichever of cancellation, result and shutdown came first.
NoGhostRender ==
    \A r \in Requests : caller[r] \in {"returned", "refused"} =>
        /\ r \notin queue
        /\ delegate[r] = "running" => Done(r)

\* No more delegates run than the scheduler has slots (one FFmpeg process per
\* slot, docs/VIDEO_RENDERING.md:56), and none when Shutdown has drained the
\* workers (render_scheduler.go:118-120), apart from those a worker gave up
\* waiting for.
DelegatesBounded ==
    LET busy == {r \in Requests \ Stubborn : delegate[r] = "running"} IN
    /\ Cardinality(busy) <= Cardinality(Workers)
    /\ Drained => busy = {}

\* Workers, counters and the heap implement admission as RenderAdmission
\* states it: the counters are the numbers of running requests, no request
\* runs twice or after it was withdrawn, and the order of admission is the
\* order of priority and ticket.
Admission == INSTANCE RenderAdmission WITH
    waiting <- queue,
    running <- Served,
    over <- {r \in Requests : caller[r] \in {"waiting", "withdrawing", "returned"}}
              \ (queue \cup Served),
    ticket <- number,
    open <- ~closed,
    MaxConcurrent <- Cardinality(Workers)

ImplementsAdmission == Admission!AdmissionSpec

\* No lost wake-up and no lost slot: a worker that sleeps in cond.Wait has
\* nothing to exit for, and no request that still waits would fit beside those
\* that run, although limits are lifted by other workers, items are withdrawn
\* by their callers, counters are kept by hand and Shutdown comes at any time.
NoLostWakeup ==
    (\E w \in Workers : place[w] = "asleep") =>
        ~closed /\ \A r \in queue \ cancelled : ~Admission!Fits(r)
=============================================================================
