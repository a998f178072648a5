----------------------- MODULE RenderSchedulerProofs -----------------------
(***************************************************************************)
(* The safety of the render scheduler and its refinement of the abstract   *)
(* admission, proved for any requests, workers, limits and cancellations.  *)
(*                                                                         *)
(* The invariant is shown for two steps more than those of RenderSpec: any *)
(* contexts are cancelled at once, and the process starts again.  The      *)
(* export jobs around the scheduler do both.                               *)
(***************************************************************************)
EXTENDS RenderScheduler, FiniteSetTheorems, TLAPS

CallerPlaces == {"idle", "numbered", "waiting", "withdrawing", "returned", "refused"}
WorkerPlaces == {"looking", "asleep", "admitted", "rendering", "grace", "reporting",
                 "releasing", "exited"}

\* RenderTypeOK, the bounds of counters and numbers aside.
CallerType ==
    /\ caller \in [Requests -> CallerPlaces]
    /\ number \in [Requests -> Nat]
    /\ cancelled \subseteq Requests
    /\ result \in [Requests -> Outcomes \cup {None}]
    /\ answer \in [Requests -> Outcomes \cup {None}]
SlotType ==
    /\ queue \subseteq Requests
    /\ active \in Nat
    /\ activeByUser \in [Users -> Nat]
    /\ activeByWorkspace \in [Workspaces -> Nat]
    /\ closed \in BOOLEAN
WorkerType ==
    /\ place \in [Workers -> WorkerPlaces]
    /\ serving \in [Workers -> Requests \cup {None}]
    /\ outcome \in [Workers -> Outcomes \cup {None}]
DelegateType ==
    /\ activeCancels \subseteq Requests /\ stopped \subseteq Requests
    /\ delegate \in [Requests -> Outcomes \cup {None, "running", "done"}]

RenderTypes == CallerType /\ SlotType /\ WorkerType /\ DelegateType

\* Numbers are drawn one after the other.
Numbered == {q \in Requests : number[q] # 0}
NumberInv ==
    /\ \A r \in Requests : number[r] <= Cardinality(Numbered)
    /\ \A q, r \in Requests : number[q] = number[r] /\ number[q] # 0 => q = r
    /\ \A r \in Requests : number[r] = 0 <=> caller[r] = "idle"

\* A worker serves a request at the places where it has one, no two workers
\* serve the same, and a request is queued or served only for a caller that
\* has queued it.
ServingInv ==
    /\ \A w \in Workers : serving[w] = None <=> place[w] \in {"looking", "asleep", "exited"}
    /\ \A v, w \in Workers : serving[v] = serving[w] /\ serving[v] # None => v = w
    /\ \A r \in queue : caller[r] \in {"waiting", "withdrawing"} /\ r \notin Served
    /\ \A r \in Served : caller[r] \in {"waiting", "withdrawing", "returned"}

\* The counters kept by hand are the numbers of the requests that are served.
OfUser(u) == {q \in Served : UserOf[q] = u}
OfWorkspace(x) == {q \in Served : WorkspaceOf[q] = x}
CounterInv ==
    /\ active = Cardinality(Served)
    /\ \A u \in Users : activeByUser[u] = Cardinality(OfUser(u)) /\ activeByUser[u] <= MaxPerUser
    /\ \A x \in Workspaces :
         activeByWorkspace[x] = Cardinality(OfWorkspace(x)) /\ activeByWorkspace[x] <= MaxPerWorkspace

\* A request whose result nobody has sent yet: a caller that no longer waits
\* for it was cancelled, or the scheduler was closed.
InService(w) == place[w] \in {"admitted", "rendering", "grace", "reporting"}
Undecided(r) == r \in queue \/ \E w \in Workers : serving[w] = r /\ InService(w)
ResultInv ==
    /\ \A r \in Requests : Undecided(r) =>
         /\ result[r] = None
         /\ caller[r] \in {"withdrawing", "returned"} => r \in cancelled \/ closed
    /\ \A r \in Requests : caller[r] \in {"idle", "numbered"} => result[r] = None

\* A delegate that runs has a worker that waits for it, unless that worker
\* gave up; it can be told to stop, and was told when nobody needs it.
DelegateInv ==
    \A r \in Requests : delegate[r] = "running" =>
        /\ r \in Stubborn \/ \E w \in Workers : serving[w] = r /\ place[w] \in {"rendering", "grace"}
        /\ r \in activeCancels \cup stopped
        /\ closed => r \in stopped
        /\ caller[r] \in {"waiting", "withdrawing", "returned"}
        /\ caller[r] \in {"withdrawing", "returned"} \/ result[r] # None => Done(r)

\* A worker sleeps only while there is nothing to do.
SleepInv == (\E w \in Workers : place[w] = "asleep") => ~closed /\ Eligible = {}

RenderInv ==
    /\ RenderTypes /\ NumberInv /\ ServingInv /\ CounterInv
    /\ ResultInv /\ DelegateInv /\ SleepInv

-----------------------------------------------------------------------------
(***************************************************************************)
(* Counting.                                                               *)
(***************************************************************************)
LEMMA ServedIsFinite ==
    ASSUME WorkerType
    PROVE  Served \subseteq Requests /\ IsFiniteSet(Served)
<1>1. Served \subseteq Requests
  BY DEF WorkerType, Served
<1>. QED
  BY <1>1, RenderAssumption, FS_Subset

\* A worker without a request leaves a slot.
LEMMA SlotIsFree ==
    ASSUME WorkerType
    PROVE  /\ Cardinality(Served) <= Cardinality(Workers)
           /\ \A w \in Workers : serving[w] = None => Cardinality(Served) < Cardinality(Workers)
<1>. DEFINE Busy == {v \in Workers : serving[v] # None}
            f == [v \in Busy |-> serving[v]]
<1>1. IsFiniteSet(Busy) /\ Cardinality(Busy) <= Cardinality(Workers)
  BY RenderAssumption, FS_Subset
<1>2. f \in Surjection(Busy, Served)
  BY DEF Surjection, Served
<1>3. Cardinality(Served) <= Cardinality(Busy)
  BY <1>1, <1>2, FS_Surjection
<1>4. Cardinality(Served) \in Nat /\ Cardinality(Busy) \in Nat /\ Cardinality(Workers) \in Nat
  BY <1>1, ServedIsFinite, RenderAssumption, FS_CardinalityType
<1>5. ASSUME NEW w \in Workers, serving[w] = None PROVE Cardinality(Busy) < Cardinality(Workers)
  <2>1. Busy # Workers
    BY <1>5
  <2>2. Cardinality(Busy) # Cardinality(Workers)
    BY <2>1, RenderAssumption, FS_Subset
  <2>. QED
    BY <2>2, <1>1, <1>4
<1>. QED
  BY <1>1, <1>3, <1>4, <1>5

-----------------------------------------------------------------------------
(***************************************************************************)
(* Steps.                                                                  *)
(***************************************************************************)
\* Any contexts are cancelled, by CancelContext or from outside.
CancelMany ==
    /\ cancelled' \in SUBSET Requests /\ cancelled \subseteq cancelled'
    /\ UNCHANGED <<caller, number, result, answer, queue, slotVars, closed, place,
                   serving, execVars>>

RenderMove ==
    \/ \E r \in Requests : CallerStep(r) \/ DelegateReturns(r)
    \/ \E w \in Workers : WorkerStep(w)
    \/ Shutdown
    \/ CancelMany

LEMMA NextIsMove ==
    ASSUME RenderTypes, [RenderNext]_renderVars
    PROVE  RenderMove
<1>1. CASE RenderNext
  BY <1>1 DEF RenderNext, CancelContext, CancelMany, RenderMove, RenderTypes, CallerType
<1>2. CASE UNCHANGED renderVars
  BY <1>2 DEF renderVars, callerVars, CancelMany, RenderMove, RenderTypes, CallerType
<1>. QED
  BY <1>1, <1>2

LEMMA OutcomeNames ==
    /\ "error" \in Outcomes /\ None \notin Outcomes
    /\ "running" \notin Outcomes /\ "done" \notin Outcomes
    /\ None \notin Requests
BY RenderAssumption DEF None

LEMMA CallerTypes ==
    ASSUME RenderTypes, NEW r \in Requests, CallerStep(r) \/ DelegateReturns(r)
    PROVE  RenderTypes'
<1>. USE DEF RenderTypes, CallerType, SlotType, WorkerType, DelegateType, CallerPlaces, WorkerPlaces,
         slotVars, execVars, callerVars
<1>1. CASE DrawNumber(r)
  <2>1. Cardinality({q \in Requests : number[q] # 0}) \in Nat
    BY RenderAssumption, FS_Subset, FS_CardinalityType
  <2>. QED
    BY <1>1, <2>1 DEF DrawNumber
<1>2. CASE Enqueue(r)
  BY <1>2 DEF Enqueue, Broadcast
<1>3. CASE Refuse(r)
  BY <1>3, OutcomeNames DEF Refuse
<1>4. CASE TakeResult(r)
  BY <1>4 DEF TakeResult
<1>5. CASE GiveUp(r)
  BY <1>5, OutcomeNames DEF GiveUp
<1>6. CASE CancelQueued(r)
  BY <1>6 DEF CancelQueued, Broadcast
<1>7. CASE DelegateReturns(r)
  BY <1>7 DEF DelegateReturns, schedVars
<1>. QED
  BY <1>1, <1>2, <1>3, <1>4, <1>5, <1>6, <1>7 DEF CallerStep

\* What the selection of a request does, with the request named.
LEMMA Selected ==
    ASSUME NEW w \in Workers, Select(w)
    PROVE  \E r \in Eligible :
             LET dropped == {q \in queue \cap cancelled : Less(q, r)} IN
             /\ \A q \in Eligible \ {r} : Less(r, q)
             /\ queue' = queue \ ({r} \cup dropped)
             /\ Drop(dropped)
             /\ TakeSlot(r)
             /\ serving' = [serving EXCEPT ![w] = r]
             /\ place' = [place EXCEPT ![w] = "admitted"]
BY DEF Select

LEMMA WorkerTypes ==
    ASSUME RenderTypes, ServingInv, CounterInv, NEW w \in Workers, WorkerStep(w)
    PROVE  RenderTypes'
<1>. USE DEF RenderTypes, CallerType, SlotType, WorkerType, DelegateType, CallerPlaces, WorkerPlaces,
         slotVars, execVars, callerVars, Goto, At, Returns, schedVars
<1>0. serving[w] = None \/ serving[w] \in Requests
  OBVIOUS
<1>1. CASE Select(w)
  <2>1. PICK r \in Eligible :
          LET dropped == {q \in queue \cap cancelled : Less(q, r)} IN
          /\ queue' = queue \ ({r} \cup dropped)
          /\ Drop(dropped)
          /\ TakeSlot(r)
          /\ serving' = [serving EXCEPT ![w] = r]
          /\ place' = [place EXCEPT ![w] = "admitted"]
    BY <1>1, Selected
  <2>2. r \in Requests
    BY DEF Eligible
  <2>3. result' \in [Requests -> Outcomes \cup {None}]
    BY <2>1, OutcomeNames DEF Drop, Sent
  <2>4. active' \in Nat /\ activeByUser' \in [Users -> Nat] /\ activeByWorkspace' \in [Workspaces -> Nat]
    <3>1. ASSUME NEW K, NEW c \in [K -> Nat], NEW k PROVE Bump(c, k, 1) \in [K -> Nat]
      <4>1. \A x \in K : c[x] + 1 \in Nat
        OBVIOUS
      <4>2. [c EXCEPT ![k] = @ + 1] = [x \in K |-> IF x = k THEN c[x] + 1 ELSE c[x]]
        OBVIOUS
      <4>. QED
        BY <4>1, <4>2, Zenon DEF Bump
    <3>2. /\ active' = active + 1
          /\ activeByUser' = Bump(activeByUser, UserOf[r], 1)
          /\ activeByWorkspace' = Bump(activeByWorkspace, WorkspaceOf[r], 1)
      BY <2>1 DEF TakeSlot
    <3>. QED
      BY <3>1, <3>2
  <2>. QED
    BY <1>1, <2>1, <2>2, <2>3, <2>4 DEF Select
<1>2. CASE FindNothing(w)
  <2>1. result' \in [Requests -> Outcomes \cup {None}]
    BY <1>2, OutcomeNames DEF FindNothing, Drop, Sent
  <2>. QED
    BY <1>2, <2>1 DEF FindNothing
<1>3. CASE ExecuteRefused(w)
  BY <1>3, OutcomeNames DEF ExecuteRefused
<1>4. CASE Execute(w)
  BY <1>4 DEF Execute, ServingInv
<1>5. CASE Collect(w)
  BY <1>5 DEF Collect
<1>6. CASE Interrupt(w)
  BY <1>6, OutcomeNames DEF Interrupt, ServingInv
<1>7. CASE GraceEnds(w)
  BY <1>7 DEF GraceEnds
<1>8. CASE GraceExpires(w)
  BY <1>8 DEF GraceExpires
<1>9. CASE Report(w)
  BY <1>9 DEF Report, Sent, ServingInv
<1>10. CASE Release(w)
  <2>1. serving[w] \in Requests /\ serving[w] \in Served
    BY <1>10 DEF Release, ServingInv, Served
  <2>2. IsFiniteSet(Served)
    BY ServedIsFinite
  <2>3. active - 1 \in Nat
    <3>1. Cardinality(Served) # 0
      BY <2>1, <2>2, FS_EmptySet
    <3>. QED
      BY <3>1 DEF CounterInv
  <2>4. ASSUME NEW u \in Users, u = UserOf[serving[w]] PROVE activeByUser[u] - 1 \in Nat
    <3>1. serving[w] \in OfUser(u) /\ IsFiniteSet(OfUser(u))
      BY <2>1, <2>2, <2>4, FS_Subset DEF OfUser
    <3>2. Cardinality(OfUser(u)) # 0
      BY <3>1, FS_EmptySet
    <3>. QED
      BY <3>2 DEF CounterInv
  <2>5. ASSUME NEW x \in Workspaces, x = WorkspaceOf[serving[w]] PROVE activeByWorkspace[x] - 1 \in Nat
    <3>1. serving[w] \in OfWorkspace(x) /\ IsFiniteSet(OfWorkspace(x))
      BY <2>1, <2>2, <2>5, FS_Subset DEF OfWorkspace
    <3>2. Cardinality(OfWorkspace(x)) # 0
      BY <3>1, FS_EmptySet
    <3>. QED
      BY <3>2 DEF CounterInv
  <2>6. active' = active - 1
    BY <1>10 DEF Release, FreeSlot
  <2>7. activeByUser' \in [Users -> Nat]
    BY <1>10, <2>4 DEF Release, FreeSlot, Bump
  <2>8. activeByWorkspace' \in [Workspaces -> Nat]
    BY <1>10, <2>5 DEF Release, FreeSlot, Bump
  <2>. QED
    BY <1>10, <2>3, <2>6, <2>7, <2>8 DEF Release, Broadcast
<1>. QED
  BY <1>1, <1>2, <1>3, <1>4, <1>5, <1>6, <1>7, <1>8, <1>9, <1>10 DEF WorkerStep

LEMMA RestTypes ==
    ASSUME RenderTypes, Shutdown \/ CancelMany
    PROVE  RenderTypes'
<1>. USE DEF RenderTypes, CallerType, SlotType, WorkerType, DelegateType, CallerPlaces, WorkerPlaces,
         slotVars, execVars
<1>1. CASE Shutdown
  <2>1. result' \in [Requests -> Outcomes \cup {None}]
    BY <1>1, OutcomeNames DEF Shutdown, Sent
  <2>. QED
    BY <1>1, <2>1 DEF Shutdown, Broadcast
<1>2. CASE CancelMany
  BY <1>2 DEF CancelMany
<1>. QED
  BY <1>1, <1>2

LEMMA TypesKept ==
    ASSUME RenderInv, RenderMove
    PROVE  RenderTypes'
BY CallerTypes, WorkerTypes, RestTypes DEF RenderInv, RenderMove
-----------------------------------------------------------------------------
(***************************************************************************)
(* Numbers and the requests that are served.                               *)
(***************************************************************************)
\* Only its caller changes the number of a request.
LEMMA NumbersKept ==
    ASSUME RenderInv, RenderMove
    PROVE  NumberInv'
<1>. USE DEF RenderInv, RenderTypes, CallerType, NumberInv, Numbered
<1>1. ASSUME NEW r \in Requests, DrawNumber(r) PROVE NumberInv'
  <2>. DEFINE N == Cardinality(Numbered)
  <2>1. IsFiniteSet(Numbered) /\ N \in Nat
    BY RenderAssumption, FS_Subset, FS_CardinalityType
  <2>2. r \notin Numbered
    BY <1>1 DEF DrawNumber
  <2>3. number' = [number EXCEPT ![r] = 1 + N] /\ caller' = [caller EXCEPT ![r] = "numbered"]
    BY <1>1 DEF DrawNumber
  <2>7. \A q \in Requests : number'[q] = IF q = r THEN 1 + N ELSE number[q]
    BY <2>3
  <2>4. Numbered' = Numbered \cup {r}
    <3>1. 1 + N # 0
      BY <2>1
    <3>. HIDE DEF N
    <3>. QED
      BY <2>7, <3>1
  <2>5. Cardinality(Numbered') = N + 1
    BY <2>1, <2>2, <2>4, FS_AddElement
  <2>6. \A q \in Requests : number[q] <= N
    OBVIOUS
  <2>8. \A q \in Requests : caller'[q] = IF q = r THEN "numbered" ELSE caller[q]
    BY <2>3
  <2>. HIDE DEF N, Numbered
  <2>9. \A q \in Requests : number'[q] <= Cardinality(Numbered')
    BY <2>1, <2>5, <2>6, <2>7
  <2>10. \A p, q \in Requests : number'[p] = number'[q] /\ number'[p] # 0 => p = q
    BY <2>1, <2>6, <2>7
  <2>11. \A q \in Requests : number'[q] = 0 <=> caller'[q] = "idle"
    BY <2>1, <2>7, <2>8
  <2>. QED
    BY <2>9, <2>10, <2>11
<1>2. ASSUME NEW r \in Requests, CallerStep(r) \/ DelegateReturns(r), ~DrawNumber(r)
      PROVE  number' = number /\ \A q \in Requests : caller'[q] = "idle" <=> caller[q] = "idle"
  BY <1>2 DEF CallerStep, Enqueue, Refuse, TakeResult, GiveUp, CancelQueued, DelegateReturns,
       schedVars, callerVars
<1>3. ASSUME NEW w \in Workers, WorkerStep(w) PROVE number' = number /\ caller' = caller
  BY <1>3 DEF WorkerStep, Select, FindNothing, ExecuteRefused, Execute, Collect, Interrupt, GraceEnds,
       GraceExpires, Report, Release, schedVars, callerVars
<1>4. ASSUME Shutdown \/ CancelMany PROVE number' = number /\ caller' = caller
  BY <1>4 DEF Shutdown, CancelMany
<1>. QED
  BY <1>1, <1>2, <1>3, <1>4 DEF RenderMove

\* The steps of a caller and of a delegate serve no request and free none.
LEMMA ServingCaller ==
    ASSUME RenderInv, NEW r \in Requests, CallerStep(r) \/ DelegateReturns(r)
    PROVE  ServingInv' /\ Served' = Served /\ serving' = serving
<1>. USE DEF RenderInv, RenderTypes, CallerType, SlotType, WorkerType, ServingInv, Served, schedVars
<1>1. CASE DrawNumber(r)
  BY <1>1 DEF DrawNumber
<1>2. CASE Enqueue(r)
  <2>1. serving' = serving /\ queue' = queue \cup {r} /\ caller' = [caller EXCEPT ![r] = "waiting"]
    BY <1>2 DEF Enqueue
  <2>2. \A w \in Workers : place'[w] \in {"looking", "asleep", "exited"}
                             <=> place[w] \in {"looking", "asleep", "exited"}
    BY <1>2 DEF Enqueue, Broadcast
  <2>3. r \notin Served
    BY <1>2 DEF Enqueue
  <2>. QED
    BY <2>1, <2>2, <2>3
<1>3. CASE Refuse(r)
  BY <1>3 DEF Refuse
<1>4. CASE TakeResult(r)
  BY <1>4 DEF TakeResult, NumberInv, ResultInv, Undecided
<1>5. CASE GiveUp(r)
  BY <1>5 DEF GiveUp
<1>6. CASE CancelQueued(r)
  <2>1. serving' = serving /\ queue' = queue \ {r} /\ caller' = [caller EXCEPT ![r] = "returned"]
    BY <1>6 DEF CancelQueued
  <2>2. \A w \in Workers : place'[w] \in {"looking", "asleep", "exited"}
                             <=> place[w] \in {"looking", "asleep", "exited"}
    BY <1>6 DEF CancelQueued, Broadcast
  <2>. QED
    BY <2>1, <2>2
<1>7. CASE DelegateReturns(r)
  BY <1>7 DEF DelegateReturns, callerVars
<1>. QED
  BY <1>1, <1>2, <1>3, <1>4, <1>5, <1>6, <1>7 DEF CallerStep
\* The steps at which a worker neither takes nor frees a slot.
Midway(w) ==
    \/ ExecuteRefused(w) \/ Execute(w) \/ Collect(w) \/ Interrupt(w)
    \/ GraceEnds(w) \/ GraceExpires(w) \/ Report(w)

LEMMA MidwayKeeps ==
    ASSUME RenderInv, NEW w \in Workers, Midway(w)
    PROVE  /\ UNCHANGED <<caller, number, cancelled, answer, queue, slotVars, closed, serving>>
           /\ serving[w] \in Requests
           /\ InService(w)
           /\ \E p \in {"rendering", "grace", "reporting", "releasing"} : place' = [place EXCEPT ![w] = p]
<1>. USE DEF RenderInv, RenderTypes, WorkerType, ServingInv, InService, At, Goto, schedVars, callerVars
<1>1. CASE ExecuteRefused(w)
  BY <1>1 DEF ExecuteRefused
<1>2. CASE Execute(w)
  BY <1>2 DEF Execute
<1>3. CASE Collect(w)
  BY <1>3 DEF Collect
<1>4. CASE Interrupt(w)
  BY <1>4 DEF Interrupt
<1>5. CASE GraceEnds(w)
  BY <1>5 DEF GraceEnds
<1>6. CASE GraceExpires(w)
  BY <1>6 DEF GraceExpires
<1>7. CASE Report(w)
  BY <1>7 DEF Report
<1>. QED
  BY <1>1, <1>2, <1>3, <1>4, <1>5, <1>6, <1>7 DEF Midway

LEMMA SelectServes ==
    ASSUME RenderInv, NEW w \in Workers, NEW r \in queue,
           place[w] = "looking", serving' = [serving EXCEPT ![w] = r]
    PROVE  /\ r \notin Served
           /\ Served' = Served \cup {r}
           /\ \A v \in Workers : serving'[v] = IF v = w THEN r ELSE serving[v]
<1>. USE DEF RenderInv, RenderTypes, SlotType, WorkerType, ServingInv
<1>1. r \notin Served /\ r # None /\ serving[w] = None
  BY OutcomeNames
<1>2. \A v \in Workers : serving'[v] = IF v = w THEN r ELSE serving[v]
  OBVIOUS
<1>3. Served' = Served \cup {r}
  BY <1>1, <1>2 DEF Served
<1>. QED
  BY <1>1, <1>2, <1>3

LEMMA ReleaseServes ==
    ASSUME RenderInv, NEW w \in Workers, Release(w)
    PROVE  /\ serving[w] \in Served
           /\ Served' = Served \ {serving[w]}
           /\ \A v \in Workers : serving'[v] = IF v = w THEN None ELSE serving[v]
<1>. USE DEF RenderInv, RenderTypes, WorkerType, ServingInv
<1>1. serving[w] # None
  BY DEF Release, At
<1>2. \A v \in Workers : serving'[v] = IF v = w THEN None ELSE serving[v]
  BY DEF Release
<1>3. Served' = Served \ {serving[w]}
  BY <1>1, <1>2 DEF Served
<1>. QED
  BY <1>1, <1>2, <1>3 DEF Served

LEMMA ServingWorker ==
    ASSUME RenderInv, NEW w \in Workers, WorkerStep(w)
    PROVE  ServingInv'
<1>. USE DEF RenderInv, RenderTypes, CallerType, SlotType, WorkerType
<1>1. CASE Select(w)
  <2>1. PICK r \in Eligible :
          LET dropped == {q \in queue \cap cancelled : Less(q, r)} IN
          /\ queue' = queue \ ({r} \cup dropped)
          /\ serving' = [serving EXCEPT ![w] = r]
          /\ place' = [place EXCEPT ![w] = "admitted"]
    BY <1>1, Selected
  <2>2. r \in queue /\ r \in Requests /\ place[w] = "looking" /\ caller' = caller
    BY <1>1 DEF Eligible, Select
  <2>3. /\ r \notin Served
        /\ Served' = Served \cup {r}
        /\ \A v \in Workers : serving'[v] = IF v = w THEN r ELSE serving[v]
    BY <2>1, <2>2, SelectServes
  <2>4. queue' \subseteq queue \ {r}
    BY <2>1
  <2>5. \A v \in Workers : place'[v] = IF v = w THEN "admitted" ELSE place[v]
    BY <2>1
  <2>6. \A v \in Workers : serving'[v] = None <=> place'[v] \in {"looking", "asleep", "exited"}
    BY <2>2, <2>3, <2>5, OutcomeNames DEF ServingInv
  <2>7. \A u, v \in Workers : serving'[u] = serving'[v] /\ serving'[v] # None => u = v
    BY <2>3 DEF ServingInv, Served
  <2>8. \A q \in queue' : caller'[q] \in {"waiting", "withdrawing"} /\ q \notin Served'
    BY <2>2, <2>3, <2>4 DEF ServingInv
  <2>9. \A q \in Served' : caller'[q] \in {"waiting", "withdrawing", "returned"}
    BY <2>2, <2>3 DEF ServingInv
  <2>. QED
    BY <2>6, <2>7, <2>8, <2>9 DEF ServingInv
<1>2. CASE FindNothing(w)
  <2>1. serving' = serving /\ caller' = caller /\ queue' \subseteq queue
    BY <1>2 DEF FindNothing
  <2>2. \A v \in Workers : place'[v] \in {"looking", "asleep", "exited"}
                             <=> place[v] \in {"looking", "asleep", "exited"}
    BY <1>2 DEF FindNothing
  <2>. QED
    BY <2>1, <2>2 DEF ServingInv, Served
<1>3. CASE Midway(w)
  BY <1>3, MidwayKeeps DEF ServingInv, InService, Served
<1>4. CASE Release(w)
  <2>1. /\ Served' = Served \ {serving[w]}
        /\ \A v \in Workers : serving'[v] = IF v = w THEN None ELSE serving[v]
    BY <1>4, ReleaseServes
  <2>2. \A v \in Workers : place'[v] = IF v = w THEN "looking"
                                       ELSE IF place[v] = "asleep" THEN "looking" ELSE place[v]
    BY <1>4 DEF Release, Broadcast
  <2>3. caller' = caller /\ queue' = queue
    BY <1>4 DEF Release, callerVars
  <2>. QED
    BY <2>1, <2>2, <2>3 DEF ServingInv
<1>. QED
  BY <1>1, <1>2, <1>3, <1>4 DEF WorkerStep, Midway

LEMMA ServingKept ==
    ASSUME RenderInv, RenderMove
    PROVE  ServingInv'
<1>. USE DEF RenderInv, RenderTypes, CallerType, SlotType, WorkerType, ServingInv
<1>1. CASE Shutdown
  <2>1. serving' = serving /\ caller' = caller /\ queue' = {}
    BY <1>1 DEF Shutdown
  <2>2. \A v \in Workers : place'[v] \in {"looking", "asleep", "exited"}
                             <=> place[v] \in {"looking", "asleep", "exited"}
    BY <1>1 DEF Shutdown, Broadcast
  <2>. QED
    BY <2>1, <2>2 DEF Served
<1>2. CASE CancelMany
  BY <1>2 DEF CancelMany, Served
<1>. QED
  BY <1>1, <1>2, ServingCaller, ServingWorker DEF RenderMove

-----------------------------------------------------------------------------
(***************************************************************************)
(* The counters.                                                           *)
(***************************************************************************)
\* Only Select and Release touch a counter or a slot.
LEMMA CountersAside ==
    ASSUME RenderInv, RenderMove, \A w \in Workers : ~Select(w) /\ ~Release(w)
    PROVE  UNCHANGED slotVars /\ Served' = Served
<1>1. ASSUME NEW r \in Requests, CallerStep(r) \/ DelegateReturns(r) PROVE UNCHANGED slotVars
  BY <1>1 DEF CallerStep, DrawNumber, Enqueue, Refuse, TakeResult, GiveUp, CancelQueued, DelegateReturns,
       schedVars, slotVars
<1>2. ASSUME NEW w \in Workers, Midway(w) \/ FindNothing(w) PROVE UNCHANGED <<slotVars, serving>>
  BY <1>2, MidwayKeeps DEF FindNothing
<1>3. ASSUME Shutdown \/ CancelMany PROVE UNCHANGED <<slotVars, serving>>
  BY <1>3 DEF Shutdown, CancelMany
<1>. QED
  BY <1>1, <1>2, <1>3, ServingCaller DEF RenderMove, WorkerStep, Midway, Served
\* A key with a counter.
LEMMA Keys ==
    ASSUME NEW r \in Requests
    PROVE  /\ UserOf[r] = Anyone \/ UserOf[r] \in Users
           /\ WorkspaceOf[r] = Anyone \/ WorkspaceOf[r] \in Workspaces
           /\ Anyone \notin Users /\ Anyone \notin Workspaces
BY DEF Users, Workspaces

LEMMA BumpAt ==
    ASSUME NEW K, NEW c \in [K -> Nat], NEW j, Anyone \notin K, NEW by \in Int, NEW k \in K
    PROVE  Bump(c, j, by)[k] = IF k = j THEN c[k] + by ELSE c[k]
<1>1. CASE j = Anyone
  BY <1>1 DEF Bump
<1>2. CASE j # Anyone
  <2>1. Bump(c, j, by) = [c EXCEPT ![j] = c[j] + by]
    BY <1>2 DEF Bump
  <2>. QED
    BY <2>1
<1>. QED
  BY <1>1, <1>2

LEMMA CounterSelect ==
    ASSUME RenderInv, NEW w \in Workers, Select(w)
    PROVE  CounterInv'
<1>. USE DEF RenderInv, RenderTypes, SlotType
<1>1. PICK r \in Eligible : TakeSlot(r) /\ serving' = [serving EXCEPT ![w] = r]
  BY Selected
<1>2. r \in Requests /\ Allowed(r)
  BY DEF Eligible
<1>3. r \notin Served /\ Served' = Served \cup {r}
  BY <1>1, SelectServes DEF Eligible, Select
<1>4. IsFiniteSet(Served)
  BY ServedIsFinite
<1>5. active' = Cardinality(Served')
  BY <1>1, <1>3, <1>4, FS_AddElement DEF TakeSlot, CounterInv
<1>6. ASSUME NEW u \in Users
      PROVE  activeByUser'[u] = Cardinality(OfUser(u)') /\ activeByUser'[u] <= MaxPerUser
  <2>1. activeByUser'[u] = IF u = UserOf[r] THEN activeByUser[u] + 1 ELSE activeByUser[u]
    BY <1>1, Keys, BumpAt, <1>2 DEF TakeSlot
  <2>2. OfUser(u)' = {q \in Served \cup {r} : UserOf[q] = u}
    BY <1>3 DEF OfUser
  <2>3. CASE u = UserOf[r]
    <3>1. OfUser(u)' = OfUser(u) \cup {r} /\ r \notin OfUser(u)
      BY <2>2, <2>3, <1>3, <1>4 DEF OfUser
    <3>2. IsFiniteSet(OfUser(u))
      BY <1>4, FS_Subset DEF OfUser
    <3>3. Cardinality(OfUser(u)') = Cardinality(OfUser(u)) + 1
      BY <3>1, <3>2, FS_AddElement
    <3>4. activeByUser[u] < MaxPerUser
      BY <1>2, <2>3, Keys DEF Allowed
    <3>5. activeByUser[u] \in Nat /\ MaxPerUser \in Nat
      BY RenderAssumption
    <3>. QED
      BY <2>1, <2>3, <3>3, <3>4, <3>5 DEF CounterInv
  <2>4. CASE u # UserOf[r]
    <3>1. OfUser(u)' = OfUser(u)
      BY <2>2, <2>4, <1>3, <1>4 DEF OfUser
    <3>. QED
      BY <2>1, <2>4, <3>1 DEF CounterInv
  <2>. QED
    BY <2>3, <2>4
<1>7. ASSUME NEW x \in Workspaces
      PROVE  /\ activeByWorkspace'[x] = Cardinality(OfWorkspace(x)')
             /\ activeByWorkspace'[x] <= MaxPerWorkspace
  <2>1. activeByWorkspace'[x] = IF x = WorkspaceOf[r] THEN activeByWorkspace[x] + 1
                                ELSE activeByWorkspace[x]
    BY <1>1, Keys, BumpAt, <1>2 DEF TakeSlot
  <2>2. OfWorkspace(x)' = {q \in Served \cup {r} : WorkspaceOf[q] = x}
    BY <1>3 DEF OfWorkspace
  <2>3. CASE x = WorkspaceOf[r]
    <3>1. OfWorkspace(x)' = OfWorkspace(x) \cup {r} /\ r \notin OfWorkspace(x)
      BY <2>2, <2>3, <1>3, <1>4 DEF OfWorkspace
    <3>2. IsFiniteSet(OfWorkspace(x))
      BY <1>4, FS_Subset DEF OfWorkspace
    <3>3. Cardinality(OfWorkspace(x)') = Cardinality(OfWorkspace(x)) + 1
      BY <3>1, <3>2, FS_AddElement
    <3>4. activeByWorkspace[x] < MaxPerWorkspace
      BY <1>2, <2>3, Keys DEF Allowed
    <3>5. activeByWorkspace[x] \in Nat /\ MaxPerWorkspace \in Nat
      BY RenderAssumption
    <3>. QED
      BY <2>1, <2>3, <3>3, <3>4, <3>5 DEF CounterInv
  <2>4. CASE x # WorkspaceOf[r]
    <3>1. OfWorkspace(x)' = OfWorkspace(x)
      BY <2>2, <2>4, <1>3, <1>4 DEF OfWorkspace
    <3>. QED
      BY <2>1, <2>4, <3>1 DEF CounterInv
  <2>. QED
    BY <2>3, <2>4
<1>. QED
  BY <1>5, <1>6, <1>7 DEF CounterInv

LEMMA CounterRelease ==
    ASSUME RenderInv, NEW w \in Workers, Release(w)
    PROVE  CounterInv'
<1>. DEFINE r == serving[w]
<1>. USE DEF RenderInv, RenderTypes, SlotType
<1>1. r \in Served /\ Served' = Served \ {r}
  BY ReleaseServes
<1>2. IsFiniteSet(Served) /\ r \in Requests
  BY <1>1, ServedIsFinite
<1>3. FreeSlot(r)
  BY DEF Release
<1>. HIDE DEF r
<1>5. active' = Cardinality(Served')
  BY <1>1, <1>2, <1>3, FS_RemoveElement DEF FreeSlot, CounterInv
<1>6. ASSUME NEW u \in Users
      PROVE  activeByUser'[u] = Cardinality(OfUser(u)') /\ activeByUser'[u] <= MaxPerUser
  <2>1. activeByUser'[u] = IF u = UserOf[r] THEN activeByUser[u] - 1 ELSE activeByUser[u]
    BY <1>3, Keys, BumpAt, <1>2 DEF FreeSlot
  <2>2. OfUser(u)' = {q \in Served \ {r} : UserOf[q] = u}
    BY <1>1 DEF OfUser
  <2>3. activeByUser[u] \in Nat /\ MaxPerUser \in Nat
    BY RenderAssumption
  <2>4. CASE u = UserOf[r]
    <3>1. OfUser(u)' = OfUser(u) \ {r} /\ r \in OfUser(u)
      BY <2>2, <2>4, <1>1, <1>2 DEF OfUser
    <3>2. IsFiniteSet(OfUser(u))
      BY <1>2, FS_Subset DEF OfUser
    <3>3. Cardinality(OfUser(u)') = Cardinality(OfUser(u)) - 1
      BY <3>1, <3>2, FS_RemoveElement
    <3>. QED
      BY <2>1, <2>3, <2>4, <3>3 DEF CounterInv
  <2>5. CASE u # UserOf[r]
    <3>1. OfUser(u)' = OfUser(u)
      BY <2>2, <2>5, <1>1, <1>2 DEF OfUser
    <3>. QED
      BY <2>1, <2>5, <3>1 DEF CounterInv
  <2>. QED
    BY <2>4, <2>5
<1>7. ASSUME NEW x \in Workspaces
      PROVE  /\ activeByWorkspace'[x] = Cardinality(OfWorkspace(x)')
             /\ activeByWorkspace'[x] <= MaxPerWorkspace
  <2>1. activeByWorkspace'[x] = IF x = WorkspaceOf[r] THEN activeByWorkspace[x] - 1
                                ELSE activeByWorkspace[x]
    BY <1>3, Keys, BumpAt, <1>2 DEF FreeSlot
  <2>2. OfWorkspace(x)' = {q \in Served \ {r} : WorkspaceOf[q] = x}
    BY <1>1 DEF OfWorkspace
  <2>3. activeByWorkspace[x] \in Nat /\ MaxPerWorkspace \in Nat
    BY RenderAssumption
  <2>4. CASE x = WorkspaceOf[r]
    <3>1. OfWorkspace(x)' = OfWorkspace(x) \ {r} /\ r \in OfWorkspace(x)
      BY <2>2, <2>4, <1>1, <1>2 DEF OfWorkspace
    <3>2. IsFiniteSet(OfWorkspace(x))
      BY <1>2, FS_Subset DEF OfWorkspace
    <3>3. Cardinality(OfWorkspace(x)') = Cardinality(OfWorkspace(x)) - 1
      BY <3>1, <3>2, FS_RemoveElement
    <3>. QED
      BY <2>1, <2>3, <2>4, <3>3 DEF CounterInv
  <2>5. CASE x # WorkspaceOf[r]
    <3>1. OfWorkspace(x)' = OfWorkspace(x)
      BY <2>2, <2>5, <1>1, <1>2 DEF OfWorkspace
    <3>. QED
      BY <2>1, <2>5, <3>1 DEF CounterInv
  <2>. QED
    BY <2>4, <2>5
<1>. QED
  BY <1>5, <1>6, <1>7 DEF CounterInv

LEMMA CountersKept ==
    ASSUME RenderInv, RenderMove
    PROVE  CounterInv'
<1>1. CASE \A w \in Workers : ~Select(w) /\ ~Release(w)
  <2>1. UNCHANGED slotVars /\ Served' = Served
    BY <1>1, CountersAside
  <2>. QED
    BY <2>1 DEF RenderInv, CounterInv, slotVars, OfUser, OfWorkspace
<1>. QED
  BY <1>1, CounterSelect, CounterRelease
-----------------------------------------------------------------------------
(***************************************************************************)
(* Results.                                                                *)
(***************************************************************************)
\* A step that decides requests and brings back none, except for one that is
\* queued.
LEMMA ResultsStay ==
    ASSUME RenderInv,
           \A q \in Requests : Undecided(q)' => /\ Undecided(q)
                                                /\ result'[q] = result[q]
                                                /\ caller'[q] = caller[q],
           \A q \in Requests : caller'[q] = caller[q] \/ caller'[q] \notin {"idle", "numbered"},
           \A q \in Requests : caller'[q] \in {"idle", "numbered"} => result'[q] = result[q],
           cancelled \subseteq cancelled', closed => closed'
    PROVE  ResultInv'
BY DEF RenderInv, ResultInv

LEMMA ResultsCaller ==
    ASSUME RenderInv, NEW r \in Requests, CallerStep(r) \/ DelegateReturns(r)
    PROVE  ResultInv'
<1>. USE DEF RenderInv, RenderTypes, CallerType, WorkerType
<1>1. ASSUME place' = place \/ place' = Broadcast
      PROVE  \A w \in Workers : place'[w] \in {"admitted", "rendering", "grace", "reporting"}
                                  <=> place[w] \in {"admitted", "rendering", "grace", "reporting"}
  BY <1>1 DEF Broadcast
<1>2. ASSUME place' = place \/ place' = Broadcast, serving' = serving
      PROVE  \A q \in Requests : q \notin queue' \ queue => (Undecided(q)' => Undecided(q))
  BY <1>1, <1>2 DEF Undecided, InService
<1>3. CASE DrawNumber(r)
  BY <1>3 DEF DrawNumber, ResultInv, Undecided, InService
<1>4. CASE Enqueue(r)
  <2>1. /\ result' = result /\ cancelled' = cancelled /\ closed' = closed
        /\ queue' = queue \cup {r} /\ caller' = [caller EXCEPT ![r] = "waiting"]
        /\ serving' = serving /\ place' = Broadcast /\ caller[r] = "numbered"
    BY <1>4 DEF Enqueue
  <2>2. \A q \in Requests : q # r => (Undecided(q)' => Undecided(q))
    BY <1>2, <2>1
  <2>3. result[r] = None
    BY <2>1 DEF ResultInv
  <2>4. \A q \in Requests : caller'[q] = IF q = r THEN "waiting" ELSE caller[q]
    BY <2>1
  <2>. QED
    BY <2>1, <2>2, <2>3, <2>4 DEF ResultInv
<1>5. CASE Refuse(r)
  <2>1. caller[r] = "numbered" /\ result' = result /\ caller' = [caller EXCEPT ![r] = "refused"]
    BY <1>5 DEF Refuse
  <2>2. \A q \in Requests : Undecided(q)' => Undecided(q)
    BY <1>5 DEF Refuse, Undecided, InService
  <2>3. cancelled' = cancelled /\ closed' = closed
    BY <1>5 DEF Refuse
  <2>. QED
    BY <2>1, <2>2, <2>3 DEF ResultInv
<1>6. CASE TakeResult(r)
  <2>1. /\ result[r] # None /\ cancelled' = cancelled /\ closed' = closed
        /\ result' = [result EXCEPT ![r] = None] /\ caller' = [caller EXCEPT ![r] = "returned"]
    BY <1>6 DEF TakeResult
  <2>2. \A q \in Requests : Undecided(q)' => Undecided(q)
    BY <1>6 DEF TakeResult, Undecided, InService
  <2>. QED
    BY <2>1, <2>2 DEF ResultInv
<1>7. CASE GiveUp(r)
  <2>1. /\ r \in cancelled \/ closed
        /\ caller' = [caller EXCEPT ![r] = "withdrawing"]
        /\ cancelled' = cancelled /\ closed' = closed /\ result' = result
    BY <1>7 DEF GiveUp
  <2>2. \A q \in Requests : Undecided(q)' => Undecided(q)
    BY <1>7 DEF GiveUp, Undecided, InService
  <2>. QED
    BY <2>1, <2>2 DEF ResultInv
<1>8. CASE CancelQueued(r)
  <2>1. /\ caller[r] = "withdrawing" /\ caller' = [caller EXCEPT ![r] = "returned"]
        /\ queue' = queue \ {r} /\ place' = Broadcast /\ serving' = serving
        /\ cancelled' = cancelled /\ closed' = closed /\ result' = result
    BY <1>8 DEF CancelQueued
  <2>2. \A q \in Requests : Undecided(q)' => Undecided(q)
    BY <1>2, <2>1
  <2>. QED
    BY <2>1, <2>2 DEF ResultInv
<1>9. CASE DelegateReturns(r)
  BY <1>9 DEF DelegateReturns, schedVars, callerVars, ResultInv, Undecided, InService
<1>. QED
  BY <1>3, <1>4, <1>5, <1>6, <1>7, <1>8, <1>9 DEF CallerStep

LEMMA ResultsWorker ==
    ASSUME RenderInv, NEW w \in Workers, WorkerStep(w)
    PROVE  ResultInv'
<1>. USE DEF RenderInv, RenderTypes, CallerType, SlotType, WorkerType
<1>1. CASE Select(w)
  <2>1. PICK r \in Eligible :
          LET dropped == {q \in queue \cap cancelled : Less(q, r)} IN
          /\ queue' = queue \ ({r} \cup dropped)
          /\ Drop(dropped)
          /\ serving' = [serving EXCEPT ![w] = r]
          /\ place' = [place EXCEPT ![w] = "admitted"]
    BY <1>1, Selected
  <2>. DEFINE D == {q \in queue \cap cancelled : Less(q, r)}
  <2>2. /\ queue' = queue \ ({r} \cup D)
        /\ \A q \in Requests : result'[q] = IF q \in D THEN Sent(q, "error") ELSE result[q]
    BY <2>1 DEF Drop
  <2>3. D \subseteq queue /\ r \notin D /\ r \in queue /\ r \in Requests /\ place[w] = "looking"
    BY <1>1 DEF Eligible, Select
  <2>. HIDE DEF D
  <2>4. \A q \in queue : caller[q] \notin {"idle", "numbered"} /\ q \notin Served
    BY DEF ServingInv
  <2>5. /\ \A v \in Workers : place'[v] = IF v = w THEN "admitted" ELSE place[v]
        /\ \A v \in Workers : serving'[v] = IF v = w THEN r ELSE serving[v]
    BY <2>1
  <2>6. ASSUME NEW q \in Requests, Undecided(q)' PROVE Undecided(q) /\ q \notin D
    <3>1. CASE q = r
      BY <3>1, <2>3 DEF Undecided
    <3>2. CASE q # r /\ q \in queue'
      BY <3>2, <2>2 DEF Undecided
    <3>3. CASE q # r /\ q \notin queue'
      <4>1. PICK v \in Workers : v # w /\ serving[v] = q /\ InService(v)
        BY <3>3, <2>6, <2>5 DEF Undecided, InService
      <4>2. q \in Served
        BY <4>1, OutcomeNames DEF Served
      <4>. QED
        BY <4>1, <4>2, <2>3, <2>4 DEF Undecided
    <3>. QED
      BY <3>1, <3>2, <3>3
  <2>7. caller' = caller /\ cancelled' = cancelled /\ closed' = closed
    BY <1>1 DEF Select
  <2>. QED
    BY <2>2, <2>3, <2>4, <2>6, <2>7, ResultsStay
<1>2. CASE FindNothing(w)
  <2>. DEFINE D == queue \cap cancelled
  <2>1. /\ queue' = queue \ D
        /\ \A q \in Requests : result'[q] = IF q \in D THEN Sent(q, "error") ELSE result[q]
    BY <1>2 DEF FindNothing, Drop
  <2>2. D \subseteq queue
    OBVIOUS
  <2>. HIDE DEF D
  <2>3. \A q \in queue : caller[q] \notin {"idle", "numbered"} /\ q \notin Served
    BY DEF ServingInv
  <2>4. /\ caller' = caller /\ cancelled' = cancelled /\ closed' = closed /\ serving' = serving
        /\ place[w] = "looking"
        /\ place' = [place EXCEPT ![w] = IF closed THEN "exited" ELSE "asleep"]
    BY <1>2 DEF FindNothing
  <2>5. ASSUME NEW q \in Requests, Undecided(q)' PROVE Undecided(q) /\ q \notin D
    <3>1. CASE q \in queue'
      BY <3>1, <2>1 DEF Undecided
    <3>2. CASE q \notin queue'
      <4>1. PICK v \in Workers : serving[v] = q /\ InService(v)
        BY <3>2, <2>5, <2>4 DEF Undecided, InService
      <4>2. q \in Served
        BY <4>1, OutcomeNames DEF Served
      <4>. QED
        BY <4>1, <4>2, <2>2, <2>3 DEF Undecided
    <3>. QED
      BY <3>1, <3>2
  <2>. QED
    BY <2>1, <2>2, <2>3, <2>4, <2>5, ResultsStay
<1>3. CASE Midway(w)
  <2>1. /\ caller' = caller /\ cancelled' = cancelled /\ closed' = closed
        /\ queue' = queue /\ serving' = serving
        /\ serving[w] \in Requests /\ InService(w)
    BY <1>3, MidwayKeeps
  <2>2. \A v \in Workers : InService(v)' => InService(v)
    BY <1>3, <2>1, MidwayKeeps DEF InService
  <2>3. \A q \in Requests : Undecided(q)' => Undecided(q)
    BY <2>1, <2>2 DEF Undecided
  <2>4. serving[w] \in Served
    BY <2>1, OutcomeNames DEF Served
  <2>5. CASE Report(w)
    <3>1. /\ result' = [result EXCEPT ![serving[w]] = Sent(serving[w], outcome[w])]
          /\ place' = [place EXCEPT ![w] = "releasing"]
      BY <2>5 DEF Report, Goto
    <3>2. ~Undecided(serving[w])'
      BY <2>1, <2>4, <3>1, OutcomeNames DEF Undecided, InService, ServingInv
    <3>3. caller[serving[w]] \notin {"idle", "numbered"}
      BY <2>4 DEF ServingInv
    <3>. QED
      BY <2>1, <2>3, <3>1, <3>2, <3>3, ResultsStay
  <2>6. CASE ~Report(w)
    <3>1. result' = result
      BY <1>3, <2>6 DEF Midway, ExecuteRefused, Execute, Collect, Interrupt, GraceEnds, GraceExpires,
           schedVars, callerVars
    <3>. QED
      BY <2>1, <2>3, <3>1, ResultsStay
  <2>. QED
    BY <2>5, <2>6
<1>4. CASE Release(w)
  <2>1. /\ queue' = queue /\ closed' = closed /\ place[w] = "releasing"
        /\ caller' = caller /\ result' = result /\ cancelled' = cancelled
    BY <1>4 DEF Release, callerVars, At
  <2>2. /\ \A v \in Workers : serving'[v] = IF v = w THEN None ELSE serving[v]
        /\ \A v \in Workers : place'[v] = IF v = w THEN "looking"
                                          ELSE IF place[v] = "asleep" THEN "looking" ELSE place[v]
    BY <1>4, ReleaseServes DEF Release, Broadcast
  <2>3. \A q \in Requests : Undecided(q)' => Undecided(q)
    BY <2>1, <2>2 DEF Undecided, InService
  <2>. QED
    BY <2>1, <2>3, ResultsStay
<1>. QED
  BY <1>1, <1>2, <1>3, <1>4 DEF WorkerStep, Midway

LEMMA ResultsKept ==
    ASSUME RenderInv, RenderMove
    PROVE  ResultInv'
<1>. USE DEF RenderInv, RenderTypes, CallerType, SlotType, WorkerType
<1>1. CASE Shutdown
  <2>1. /\ queue' = {} /\ closed' = TRUE /\ serving' = serving
        /\ caller' = caller /\ cancelled' = cancelled
        /\ \A q \in Requests : result'[q] = IF q \in queue THEN Sent(q, "error") ELSE result[q]
    BY <1>1 DEF Shutdown
  <2>2. \A v \in Workers : InService(v)' => InService(v)
    BY <1>1 DEF Shutdown, Broadcast, InService
  <2>3. \A q \in queue : caller[q] \notin {"idle", "numbered"} /\ q \notin Served
    BY DEF ServingInv
  <2>4. ASSUME NEW q \in Requests, Undecided(q)' PROVE Undecided(q) /\ q \notin queue
    <3>1. PICK v \in Workers : serving[v] = q /\ InService(v)
      BY <2>1, <2>2, <2>4 DEF Undecided
    <3>2. q \in Served
      BY <3>1, OutcomeNames DEF Served
    <3>. QED
      BY <2>3, <3>1, <3>2 DEF Undecided
  <2>. QED
    BY <2>1, <2>3, <2>4, ResultsStay
<1>2. CASE CancelMany
  BY <1>2 DEF CancelMany, ResultInv, Undecided, InService
<1>. QED
  BY <1>1, <1>2, ResultsCaller, ResultsWorker DEF RenderMove
-----------------------------------------------------------------------------
(***************************************************************************)
(* Delegates.                                                              *)
(***************************************************************************)
LEMMA DelegatesCaller ==
    ASSUME RenderInv, NEW r \in Requests, CallerStep(r) \/ DelegateReturns(r)
    PROVE  DelegateInv'
<1>. USE DEF RenderInv, RenderTypes, CallerType, WorkerType, DelegateType, execVars
<1>1. ASSUME place' = place \/ place' = Broadcast
      PROVE  \A w \in Workers : place'[w] \in {"rendering", "grace"} <=> place[w] \in {"rendering", "grace"}
  BY <1>1 DEF Broadcast
<1>2. CASE DrawNumber(r)
  BY <1>2 DEF DrawNumber, DelegateInv, Done
<1>3. CASE Enqueue(r)
  <2>1. /\ caller[r] = "numbered" /\ caller' = [caller EXCEPT ![r] = "waiting"]
        /\ serving' = serving /\ place' = Broadcast
        /\ UNCHANGED <<result, closed, cancelled, activeCancels, stopped, delegate>>
    BY <1>3 DEF Enqueue
  <2>. QED
    BY <1>1, <2>1 DEF DelegateInv, Done
<1>4. CASE Refuse(r)
  BY <1>4 DEF Refuse, DelegateInv, Done
<1>5. CASE TakeResult(r)
  BY <1>5 DEF TakeResult, DelegateInv, Done
<1>6. CASE GiveUp(r)
  BY <1>6 DEF GiveUp, DelegateInv, Done
<1>7. CASE CancelQueued(r)
  <2>1. /\ caller[r] = "withdrawing" /\ caller' = [caller EXCEPT ![r] = "returned"]
        /\ serving' = serving /\ place' = Broadcast
        /\ UNCHANGED <<result, closed, cancelled, activeCancels, stopped, delegate>>
    BY <1>7 DEF CancelQueued
  <2>. QED
    BY <1>1, <2>1 DEF DelegateInv, Done
<1>8. CASE DelegateReturns(r)
  <2>1. PICK value \in Outcomes : delegate' = [delegate EXCEPT ![r] = value]
    BY <1>8 DEF DelegateReturns
  <2>2. \A q \in Requests : delegate'[q] = "running" => delegate[q] = "running"
    BY <2>1, OutcomeNames
  <2>. QED
    BY <1>8, <2>2 DEF DelegateReturns, DelegateInv, Done, schedVars, callerVars
<1>. QED
  BY <1>2, <1>3, <1>4, <1>5, <1>6, <1>7, <1>8 DEF CallerStep

LEMMA DelegatesMidway ==
    ASSUME RenderInv, NEW w \in Workers, Midway(w)
    PROVE  DelegateInv'
<1>. DEFINE s == serving[w]
<1>. USE DEF RenderInv, RenderTypes, CallerType, WorkerType, DelegateType, execVars
<1>1. /\ UNCHANGED <<caller, cancelled, closed, serving>>
      /\ s \in Requests /\ s \in Served /\ Undecided(s)
  BY MidwayKeeps, OutcomeNames DEF Served, Undecided
<1>2. \A v \in Workers : v # w => place'[v] = place[v]
  BY MidwayKeeps
<1>3. \A q \in Requests : q # s =>
        ((\E v \in Workers : serving[v] = q /\ place[v] \in {"rendering", "grace"})
           => \E v \in Workers : serving'[v] = q /\ place'[v] \in {"rendering", "grace"})
  BY <1>1, <1>2
<1>. HIDE DEF s
<1>4. CASE ExecuteRefused(w)
  <2>1. place[w] = "admitted" /\ UNCHANGED <<result, activeCancels, stopped, delegate>>
    BY <1>4 DEF ExecuteRefused, At, schedVars, callerVars
  <2>2. \A v \in Workers : place[v] \in {"rendering", "grace"} => place'[v] \in {"rendering", "grace"}
    BY <1>2, <2>1
  <2>. QED
    BY <1>1, <2>1, <2>2 DEF DelegateInv, Done
<1>5. CASE Execute(w)
  <2>1. /\ ~closed /\ activeCancels' = activeCancels \cup {s} /\ UNCHANGED <<result, stopped>>
        /\ delegate' = [delegate EXCEPT ![s] = "running"]
        /\ place'[w] = "rendering" /\ serving'[w] = s
    BY <1>1, <1>5 DEF Execute, Goto, schedVars, callerVars, s
  <2>2. /\ result[s] = None
        /\ caller[s] \in {"withdrawing", "returned"} => s \in cancelled
        /\ caller[s] \in {"waiting", "withdrawing", "returned"}
    BY <1>1, <2>1 DEF ResultInv, ServingInv
  <2>3. ASSUME NEW q \in Requests, q # s, delegate'[q] = "running"
        PROVE  /\ q \in Stubborn \/ \E v \in Workers : serving'[v] = q /\ place'[v] \in {"rendering", "grace"}
               /\ q \in activeCancels' \cup stopped'
               /\ closed' => q \in stopped'
               /\ caller'[q] \in {"waiting", "withdrawing", "returned"}
               /\ caller'[q] \in {"withdrawing", "returned"} \/ result'[q] # None => Done(q)'
    <3>1. delegate[q] = "running"
      BY <2>1, <2>3
    <3>. QED
      BY <1>1, <1>3, <2>1, <2>3, <3>1 DEF DelegateInv, Done
  <2>4. \E v \in Workers : serving'[v] = s /\ place'[v] \in {"rendering", "grace"}
    BY <2>1
  <2>5. s \in activeCancels' \cup stopped' /\ ~closed'
    BY <1>1, <2>1
  <2>6. caller'[s] \in {"waiting", "withdrawing", "returned"}
    BY <1>1, <2>2
  <2>7. caller'[s] \in {"withdrawing", "returned"} \/ result'[s] # None => s \in cancelled' \cup stopped'
    BY <1>1, <2>1, <2>2
  <2>8. ASSUME NEW q \in Requests, q = s
        PROVE  /\ q \in Stubborn \/ \E v \in Workers : serving'[v] = q /\ place'[v] \in {"rendering", "grace"}
               /\ q \in activeCancels' \cup stopped'
               /\ closed' => q \in stopped'
               /\ caller'[q] \in {"waiting", "withdrawing", "returned"}
               /\ caller'[q] \in {"withdrawing", "returned"} \/ result'[q] # None => Done(q)'
    BY <2>4, <2>5, <2>6, <2>7, <2>8 DEF Done
  <2>. QED
    BY <2>3, <2>8 DEF DelegateInv
<1>6. CASE Collect(w) \/ GraceEnds(w)
  <2>1. /\ delegate' = [delegate EXCEPT ![s] = "done"] /\ UNCHANGED <<result, activeCancels, stopped>>
    BY <1>6 DEF Collect, GraceEnds, schedVars, callerVars, s
  <2>. QED
    BY <1>1, <1>3, <2>1 DEF DelegateInv, Done
<1>7. CASE Interrupt(w)
  <2>1. /\ stopped \subseteq stopped' /\ stopped' \subseteq Requests
        /\ UNCHANGED <<result, activeCancels, delegate>> /\ place'[w] = "grace"
    BY <1>1, <1>7 DEF Interrupt, Goto, schedVars, callerVars, s
  <2>2. \A v \in Workers : place[v] \in {"rendering", "grace"} => place'[v] \in {"rendering", "grace"}
    BY <1>2, <2>1
  <2>. QED
    BY <1>1, <2>1, <2>2 DEF DelegateInv, Done
<1>8. CASE GraceExpires(w)
  <2>1. s \in Stubborn /\ UNCHANGED <<result, activeCancels, stopped, delegate>>
    BY <1>8 DEF GraceExpires, schedVars, callerVars, s
  <2>. QED
    BY <1>1, <1>3, <2>1 DEF DelegateInv, Done
<1>9. CASE Report(w)
  <2>1. /\ activeCancels' = activeCancels \ {s} /\ stopped' = stopped \cup {s} /\ delegate' = delegate
        /\ \A q \in Requests : q # s => result'[q] = result[q]
        /\ place[w] = "reporting"
    BY <1>9 DEF Report, At, s
  <2>2. \A v \in Workers : place[v] \in {"rendering", "grace"} => place'[v] \in {"rendering", "grace"}
    BY <1>2, <2>1
  <2>. QED
    BY <1>1, <2>1, <2>2 DEF DelegateInv, Done
<1>. QED
  BY <1>4, <1>5, <1>6, <1>7, <1>8, <1>9 DEF Midway

LEMMA DelegatesWorker ==
    ASSUME RenderInv, NEW w \in Workers, WorkerStep(w)
    PROVE  DelegateInv'
<1>. USE DEF RenderInv, RenderTypes, CallerType, SlotType, WorkerType, DelegateType, execVars
\* What a worker that selects or finds nothing leaves for a delegate that runs.
<1>1. ASSUME place[w] = "looking",
             \A v \in Workers : v # w => place'[v] = place[v] /\ serving'[v] = serving[v],
             \A q \in Requests : q \notin cancelled => result'[q] = result[q],
             UNCHANGED <<caller, cancelled, closed, activeCancels, stopped, delegate>>
      PROVE  DelegateInv'
  <2>1. ASSUME NEW q \in Requests, NEW v \in Workers, serving[v] = q, place[v] \in {"rendering", "grace"}
        PROVE  serving'[v] = q /\ place'[v] \in {"rendering", "grace"}
    BY <1>1, <2>1
  <2>. QED
    BY <1>1, <2>1 DEF DelegateInv, Done
<1>2. CASE Select(w)
  <2>1. PICK r \in Eligible :
          LET dropped == {q \in queue \cap cancelled : Less(q, r)} IN
          /\ Drop(dropped)
          /\ serving' = [serving EXCEPT ![w] = r]
          /\ place' = [place EXCEPT ![w] = "admitted"]
    BY <1>2, Selected
  <2>2. \A q \in Requests : q \notin cancelled => result'[q] = result[q]
    BY <2>1 DEF Drop
  <2>. QED
    BY <1>1, <1>2, <2>1, <2>2 DEF Select
<1>3. CASE FindNothing(w)
  <2>1. \A q \in Requests : q \notin cancelled => result'[q] = result[q]
    BY <1>3 DEF FindNothing, Drop
  <2>. QED
    BY <1>1, <1>3, <2>1 DEF FindNothing
<1>4. CASE Release(w)
  <2>1. /\ place[w] = "releasing"
        /\ UNCHANGED <<caller, cancelled, result, closed, activeCancels, stopped, delegate>>
    BY <1>4 DEF Release, At, callerVars
  <2>2. \A v \in Workers : place[v] \in {"rendering", "grace"}
                             => place'[v] = place[v] /\ serving'[v] = serving[v]
    BY <1>4, <2>1, ReleaseServes DEF Release, Broadcast
  <2>. QED
    BY <2>1, <2>2 DEF DelegateInv, Done
<1>. QED
  BY <1>2, <1>3, <1>4, DelegatesMidway DEF WorkerStep, Midway

LEMMA DelegatesKept ==
    ASSUME RenderInv, RenderMove
    PROVE  DelegateInv'
<1>. USE DEF RenderInv, RenderTypes, WorkerType, DelegateType, execVars
<1>1. CASE Shutdown
  <2>1. /\ UNCHANGED <<caller, cancelled, serving, activeCancels, delegate>>
        /\ stopped' = stopped \cup activeCancels
    BY <1>1 DEF Shutdown
  <2>2. \A v \in Workers : place[v] \in {"rendering", "grace"} => place'[v] \in {"rendering", "grace"}
    BY <1>1 DEF Shutdown, Broadcast
  <2>. QED
    BY <2>1, <2>2 DEF DelegateInv, Done
<1>2. CASE CancelMany
  BY <1>2 DEF CancelMany, DelegateInv, Done
<1>. QED
  BY <1>1, <1>2, DelegatesCaller, DelegatesWorker DEF RenderMove

-----------------------------------------------------------------------------
(***************************************************************************)
(* Sleepers.                                                               *)
(***************************************************************************)
\* After a Broadcast nobody sleeps.
LEMMA Awake ==
    ASSUME RenderTypes, place' = Broadcast \/ \E w \in Workers : place' = [Broadcast EXCEPT ![w] = "looking"]
    PROVE  \A v \in Workers : place'[v] # "asleep"
BY DEF RenderTypes, WorkerType, Broadcast

LEMMA SleepKept ==
    ASSUME RenderInv, RenderMove
    PROVE  SleepInv'
<1>. USE DEF RenderInv, RenderTypes, CallerType, SlotType, WorkerType
\* Fewer eligible requests and no worker that falls asleep.
<1>1. ASSUME queue' \subseteq queue, cancelled \subseteq cancelled', UNCHANGED <<slotVars, closed>>,
             \A w \in Workers : place'[w] = "asleep" => place[w] = "asleep"
      PROVE  SleepInv'
  BY <1>1 DEF SleepInv, Eligible, Allowed, slotVars
<1>2. ASSUME NEW r \in Requests, CallerStep(r) \/ DelegateReturns(r) PROVE SleepInv'
  <2>1. CASE Enqueue(r) \/ CancelQueued(r)
    BY <2>1, Awake DEF Enqueue, CancelQueued, SleepInv
  <2>2. CASE DrawNumber(r) \/ Refuse(r) \/ TakeResult(r) \/ GiveUp(r) \/ DelegateReturns(r)
    BY <2>2, <1>1 DEF DrawNumber, Refuse, TakeResult, GiveUp, DelegateReturns, schedVars, callerVars
  <2>. QED
    BY <1>2, <2>1, <2>2 DEF CallerStep
<1>3. ASSUME NEW w \in Workers, WorkerStep(w) PROVE SleepInv'
  <2>1. CASE Select(w)
    <3>1. Eligible # {} /\ place' = [place EXCEPT ![w] = "admitted"]
      BY <2>1, Selected
    <3>. QED
      BY <3>1 DEF SleepInv
  <2>2. CASE FindNothing(w)
    <3>1. /\ Eligible = {} /\ queue' \subseteq queue /\ cancelled' = cancelled
          /\ UNCHANGED <<slotVars, closed>>
          /\ place' = [place EXCEPT ![w] = IF closed THEN "exited" ELSE "asleep"]
      BY <2>2 DEF FindNothing
    <3>2. Eligible' = {}
      BY <3>1 DEF Eligible, Allowed, slotVars
    <3>. QED
      BY <3>1, <3>2 DEF SleepInv
  <2>3. CASE Midway(w)
    BY <2>3, <1>1, MidwayKeeps
  <2>4. CASE Release(w)
    BY <2>4, Awake DEF Release, SleepInv
  <2>. QED
    BY <1>3, <2>1, <2>2, <2>3, <2>4 DEF WorkerStep, Midway
<1>4. CASE Shutdown
  BY <1>4, Awake DEF Shutdown, SleepInv
<1>5. CASE CancelMany
  BY <1>5, <1>1 DEF CancelMany
<1>. QED
  BY <1>2, <1>3, <1>4, <1>5 DEF RenderMove
-----------------------------------------------------------------------------
(***************************************************************************)
(* The invariant.                                                          *)
(***************************************************************************)
LEMMA InvStarts ==
    ASSUME RenderInit
    PROVE  RenderInv
<1>. USE DEF RenderInit
<1>1. \A w \in Workers : serving[w] = None
  OBVIOUS
<1>2. Served = {}
  BY <1>1 DEF Served
<1>3. RenderTypes
  BY OutcomeNames DEF RenderTypes, CallerType, SlotType, WorkerType, DelegateType, CallerPlaces, WorkerPlaces
<1>4. NumberInv
  <2>1. Numbered = {}
    BY DEF Numbered
  <2>2. \A r \in Requests : number[r] = 0 /\ caller[r] = "idle"
    OBVIOUS
  <2>. QED
    BY <2>1, <2>2, FS_EmptySet DEF NumberInv
<1>5. ServingInv
  BY <1>2 DEF ServingInv
<1>6. CounterInv
  <2>1. \A u : OfUser(u) = {} /\ OfWorkspace(u) = {}
    BY <1>2 DEF OfUser, OfWorkspace
  <2>2. Cardinality({}) = 0
    BY FS_EmptySet
  <2>. QED
    BY <1>2, <2>1, <2>2, RenderAssumption DEF CounterInv
<1>7. ResultInv /\ SleepInv
  BY DEF ResultInv, Undecided, InService, SleepInv
<1>8. DelegateInv
  BY DEF DelegateInv, None
<1>. QED
  BY <1>3, <1>4, <1>5, <1>6, <1>7, <1>8 DEF RenderInv

LEMMA InvKept ==
    ASSUME RenderInv, RenderMove
    PROVE  RenderInv'
BY TypesKept, NumbersKept, ServingKept, CountersKept, ResultsKept, DelegatesKept, SleepKept DEF RenderInv

\* A process that starts again starts as the first one did.
LEMMA InvRestarts == RenderReset => RenderInv'
<1>1. RenderInit => RenderInv
  BY InvStarts
<1>2. RenderReset => RenderInit'
  BY DEF RenderReset, RenderInit
<1>. QED
  BY <1>1, <1>2, PTL

LEMMA InvHolds == RenderSpec => []RenderInv
<1>1. RenderInv /\ [RenderNext]_renderVars => RenderInv'
  BY NextIsMove, InvKept DEF RenderInv
<1>. QED
  BY InvStarts, <1>1, PTL DEF RenderSpec

-----------------------------------------------------------------------------
(***************************************************************************)
(* What the invariant says of admission.                                   *)
(***************************************************************************)
\* The same operator, reached through the abstract module.
LEMMA SameCardinality == \A S : Admission!Cardinality(S) = Cardinality(S)
BY DEF Admission!Cardinality, Cardinality

\* The counters decide as the sets of running requests would.
LEMMA AllowedIsFitting ==
    ASSUME RenderInv, NEW r \in Requests, NEW w \in Workers, serving[w] = None
    PROVE  Allowed(r) <=> Admission!Fits(r)
<1>1. Cardinality(Served) < Cardinality(Workers)
  BY SlotIsFree DEF RenderInv, RenderTypes
<1>2. UserOf[r] # Anyone =>
        activeByUser[UserOf[r]] = Cardinality({q \in Served : UserOf[q] = UserOf[r]})
  BY Keys DEF RenderInv, CounterInv, OfUser
<1>3. WorkspaceOf[r] # Anyone =>
        activeByWorkspace[WorkspaceOf[r]] = Cardinality({q \in Served : WorkspaceOf[q] = WorkspaceOf[r]})
  BY Keys DEF RenderInv, CounterInv, OfWorkspace
<1>. DEFINE ofUser == Cardinality({q \in Served : UserOf[q] = UserOf[r]})
            ofWorkspace == Cardinality({q \in Served : WorkspaceOf[q] = WorkspaceOf[r]})
<1>4. Admission!Fits(r) <=>
        /\ Cardinality(Served) < Cardinality(Workers)
        /\ UserOf[r] # Anyone => ofUser < MaxPerUser
        /\ WorkspaceOf[r] # Anyone => ofWorkspace < MaxPerWorkspace
  BY SameCardinality, Zenon DEF Admission!Fits
<1>. HIDE DEF ofUser, ofWorkspace
<1>5. UserOf[r] # Anyone => activeByUser[UserOf[r]] = ofUser
  BY <1>2 DEF ofUser
<1>6. WorkspaceOf[r] # Anyone => activeByWorkspace[WorkspaceOf[r]] = ofWorkspace
  BY <1>3 DEF ofWorkspace
<1>. QED
  BY <1>1, <1>4, <1>5, <1>6 DEF Allowed

\* The order of the heap is total on the requests that are queued.
LEMMA LessIsTotal ==
    ASSUME RenderInv, NEW q \in queue, NEW r \in queue, q # r
    PROVE  Less(q, r) \/ Less(r, q)
<1>1. q \in Requests /\ r \in Requests /\ number[q] \in Nat /\ number[r] \in Nat
  BY DEF RenderInv, RenderTypes, SlotType, CallerType
<1>2. number[q] # number[r]
  BY <1>1 DEF RenderInv, NumberInv, ServingInv
<1>3. PriorityOf[q] \in Int /\ PriorityOf[r] \in Int
  BY <1>1, RenderAssumption
<1>. QED
  BY <1>1, <1>2, <1>3 DEF Less

LEMMA TypesFollow ==
    ASSUME RenderInv
    PROVE  RenderTypeOK
<1>. USE DEF RenderInv, RenderTypes, CallerType, SlotType, WorkerType, DelegateType, CallerPlaces, WorkerPlaces
<1>1. number \in [Requests -> 0 .. Cardinality(Requests)]
  <2>1. IsFiniteSet(Numbered) /\ Cardinality(Numbered) <= Cardinality(Requests)
    BY RenderAssumption, FS_Subset DEF Numbered
  <2>2. Cardinality(Numbered) \in Nat /\ Cardinality(Requests) \in Nat
    BY <2>1, RenderAssumption, FS_CardinalityType
  <2>3. \A r \in Requests : number[r] \in 0 .. Cardinality(Requests)
    BY <2>1, <2>2 DEF NumberInv
  <2>. QED
    BY <2>3
<1>2. active \in 0 .. Cardinality(Workers)
  BY SlotIsFree, RenderAssumption, FS_CardinalityType DEF CounterInv
<1>3. activeByUser \in [Users -> 0 .. MaxPerUser]
  <2>1. \A u \in Users : activeByUser[u] \in 0 .. MaxPerUser
    BY RenderAssumption DEF CounterInv
  <2>. QED
    BY <2>1
<1>4. activeByWorkspace \in [Workspaces -> 0 .. MaxPerWorkspace]
  <2>1. \A x \in Workspaces : activeByWorkspace[x] \in 0 .. MaxPerWorkspace
    BY RenderAssumption DEF CounterInv
  <2>. QED
    BY <2>1
<1>. QED
  BY <1>1, <1>2, <1>3, <1>4 DEF RenderTypeOK

LEMMA WakeupsFollow ==
    ASSUME RenderInv
    PROVE  NoLostWakeup
<1>1. SUFFICES ASSUME NEW w \in Workers, place[w] = "asleep"
               PROVE  ~closed /\ \A r \in queue \ cancelled : ~Admission!Fits(r)
  BY DEF NoLostWakeup
<1>2. ~closed /\ Eligible = {}
  BY <1>1 DEF RenderInv, SleepInv
<1>3. serving[w] = None
  BY <1>1 DEF RenderInv, ServingInv
<1>4. ASSUME NEW r \in queue \ cancelled PROVE ~Admission!Fits(r)
  <2>1. r \in Requests /\ ~Allowed(r)
    BY <1>2, <1>4 DEF Eligible, RenderInv, RenderTypes, SlotType
  <2>. QED
    BY <1>3, <2>1, AllowedIsFitting
<1>. QED
  BY <1>2, <1>4

LEMMA GhostsFollow ==
    ASSUME RenderInv
    PROVE  NoGhostRender
BY DEF RenderInv, ServingInv, DelegateInv, NoGhostRender

LEMMA BoundsFollow ==
    ASSUME RenderInv
    PROVE  DelegatesBounded
<1>. DEFINE busy == {r \in Requests \ Stubborn : delegate[r] = "running"}
<1>1. ASSUME NEW r \in busy
      PROVE  \E w \in Workers : serving[w] = r /\ place[w] \in {"rendering", "grace"}
  BY <1>1 DEF RenderInv, DelegateInv
<1>2. busy \subseteq Served
  BY <1>1, OutcomeNames DEF Served
<1>3. Drained => busy = {}
  BY <1>1 DEF Drained
<1>4. IsFiniteSet(Served) /\ Cardinality(Served) <= Cardinality(Workers)
  BY ServedIsFinite, SlotIsFree DEF RenderInv, RenderTypes
<1>5. IsFiniteSet(busy) /\ Cardinality(busy) <= Cardinality(Served)
  BY <1>2, <1>4, FS_Subset
<1>6. Cardinality(busy) \in Nat /\ Cardinality(Served) \in Nat /\ Cardinality(Workers) \in Nat
  BY <1>4, <1>5, RenderAssumption, FS_CardinalityType
<1>7. Cardinality(busy) <= Cardinality(Workers)
  BY <1>4, <1>5, <1>6
<1>. QED
  BY <1>3, <1>7 DEF DelegatesBounded
-----------------------------------------------------------------------------
(***************************************************************************)
(* The refinement: what the abstract queue has forgotten is what callers   *)
(* have queued and is neither in the queue nor served.                     *)
(***************************************************************************)
Asked == {r \in Requests : caller[r] \in {"waiting", "withdrawing", "returned"}}

LEMMA AdmissionStutters ==
    ASSUME UNCHANGED <<queue, number, closed>>, Served' = Served, Asked' = Asked
    PROVE  UNCHANGED Admission!admissionVars
BY DEF Admission!admissionVars, Asked

LEMMA AdmissionCaller ==
    ASSUME RenderInv, NEW r \in Requests, CallerStep(r) \/ DelegateReturns(r)
    PROVE  [Admission!AdmissionNext]_(Admission!admissionVars)
<1>. USE DEF RenderInv, RenderTypes, CallerType, SlotType
<1>1. Served' = Served
  BY ServingCaller
<1>2. CASE DrawNumber(r)
  <2>1. caller[r] = "idle" /\ caller' = [caller EXCEPT ![r] = "numbered"] /\ queue' = queue /\ closed' = closed
    BY <1>2 DEF DrawNumber
  <2>2. Asked' = Asked
    BY <2>1 DEF Asked
  <2>3. number[r] = 0
    BY <2>1 DEF NumberInv
  <2>4. number' = [number EXCEPT ![r] = 1 + Cardinality({q \in Requests : number[q] # 0})]
    BY <1>2 DEF DrawNumber
  <2>5. Admission!Number(r)
    BY <1>1, <2>1, <2>2, <2>3, <2>4, SameCardinality DEF Admission!Number, Asked
  <2>. QED
    BY <2>5 DEF Admission!AdmissionNext
<1>3. CASE Enqueue(r)
  <2>1. /\ caller[r] = "numbered" /\ ~closed /\ caller' = [caller EXCEPT ![r] = "waiting"]
        /\ queue' = queue \cup {r} /\ number' = number /\ closed' = closed
    BY <1>3 DEF Enqueue
  <2>2. number[r] # 0 /\ r \notin queue /\ r \notin Served /\ r \notin Asked
    BY <2>1 DEF NumberInv, ServingInv, Asked
  <2>3. Asked' = Asked \cup {r}
    BY <2>1 DEF Asked
  <2>4. Asked' \ (queue' \cup Served') = Asked \ (queue \cup Served)
    BY <1>1, <2>1, <2>2, <2>3
  <2>5. Admission!Queue(r)
    BY <1>1, <2>1, <2>2, <2>4 DEF Admission!Queue, Asked
  <2>. QED
    BY <2>5 DEF Admission!AdmissionNext
<1>4. CASE CancelQueued(r)
  <2>0. PICK W : W = {r} \cap queue
    OBVIOUS
  <2>1. /\ caller[r] = "withdrawing" /\ caller' = [caller EXCEPT ![r] = "returned"]
        /\ queue' = queue \ {r} /\ number' = number /\ closed' = closed
    BY <1>4 DEF CancelQueued
  <2>2. Asked' = Asked /\ r \in Asked
    BY <2>1 DEF Asked
  <2>3. W \in SUBSET queue /\ queue' = queue \ W
    BY <2>0, <2>1
  <2>4. r \in queue => r \notin Served
    BY DEF ServingInv
  <2>5. Asked' \ (queue' \cup Served') = (Asked \ (queue \cup Served)) \cup W
    BY <1>1, <2>0, <2>1, <2>2, <2>4
  <2>6. Admission!Withdraw(W)
    BY <1>1, <2>1, <2>3, <2>5 DEF Admission!Withdraw, Asked
  <2>. QED
    BY <2>3, <2>6 DEF Admission!AdmissionNext
<1>5. CASE Refuse(r) \/ TakeResult(r) \/ GiveUp(r) \/ DelegateReturns(r)
  <2>1. UNCHANGED <<queue, number, closed>>
    BY <1>5 DEF Refuse, TakeResult, GiveUp, DelegateReturns, schedVars, callerVars
  <2>2. \A q \in Requests : caller'[q] \in {"waiting", "withdrawing", "returned"}
                              <=> caller[q] \in {"waiting", "withdrawing", "returned"}
    BY <1>5 DEF Refuse, TakeResult, GiveUp, DelegateReturns, schedVars, callerVars
  <2>3. Asked' = Asked
    BY <2>2 DEF Asked
  <2>. QED
    BY <1>1, <2>1, <2>3, AdmissionStutters
<1>. QED
  BY <1>2, <1>3, <1>4, <1>5 DEF CallerStep

LEMMA AdmissionSelect ==
    ASSUME RenderInv, NEW w \in Workers, Select(w)
    PROVE  Admission!AdmissionNext
<1>. USE DEF RenderInv, RenderTypes, CallerType, SlotType
<1>1. PICK r \in Eligible :
        LET dropped == {q \in queue \cap cancelled : Less(q, r)} IN
        /\ \A q \in Eligible \ {r} : Less(r, q)
        /\ queue' = queue \ ({r} \cup dropped)
        /\ serving' = [serving EXCEPT ![w] = r]
  BY Selected
<1>0. PICK W : W = {q \in queue \cap cancelled : Less(q, r)}
  OBVIOUS
<1>2. /\ serving[w] = None /\ number' = number /\ closed' = closed
      /\ caller' = caller /\ place[w] = "looking"
  BY DEF Select, ServingInv
<1>3. r \in queue /\ r \in Requests /\ r \notin cancelled /\ Allowed(r)
  BY DEF Eligible
<1>4. W \in SUBSET queue /\ W \subseteq cancelled /\ r \in queue \ W
  BY <1>0, <1>3
<1>5. queue' = queue \ (W \cup {r})
  BY <1>0, <1>1
<1>6. Served' = Served \cup {r} /\ Asked' = Asked
  BY <1>1, <1>2, <1>3, SelectServes DEF Asked
<1>7. \A q \in queue : q \in Asked /\ q \notin Served
  BY DEF ServingInv, Asked
<1>8. ASSUME NEW q \in queue \ (W \cup {r}), Admission!Fits(q)
      PROVE  Less(r, q)
  <2>1. CASE q \notin cancelled
    <3>1. q \in Eligible \ {r}
      BY <1>2, <1>8, <2>1, AllowedIsFitting DEF Eligible
    <3>. QED
      BY <1>1, <3>1
  <2>2. CASE q \in cancelled
    <3>1. ~Less(q, r)
      BY <1>0, <1>8, <2>2
    <3>. QED
      BY <1>3, <1>8, <3>1, LessIsTotal
  <2>. QED
    BY <2>1, <2>2
<1>9. Asked' \ (queue' \cup Served') = (Asked \ (queue \cup Served)) \cup W
  BY <1>4, <1>5, <1>6, <1>7
<1>10. Admission!Fits(r)
  BY <1>2, <1>3, AllowedIsFitting
<1>11. \A q \in queue \ (W \cup {r}) : Admission!Fits(q) => Admission!Precedes(r, q)
  BY <1>8 DEF Admission!Precedes, Less
<1>12. Admission!Admit(r, W)
  BY <1>2, <1>4, <1>5, <1>6, <1>9, <1>10, <1>11 DEF Admission!Admit, Asked
<1>. QED
  BY <1>4, <1>12 DEF Admission!AdmissionNext

LEMMA AdmissionWorker ==
    ASSUME RenderInv, NEW w \in Workers, WorkerStep(w)
    PROVE  [Admission!AdmissionNext]_(Admission!admissionVars)
<1>. USE DEF RenderInv, RenderTypes, CallerType, SlotType
<1>1. CASE Select(w)
  BY <1>1, AdmissionSelect
<1>2. CASE FindNothing(w)
  <2>0. PICK W : W = queue \cap cancelled
    OBVIOUS
  <2>1. queue' = queue \ W /\ UNCHANGED <<caller, number, closed, serving>>
    BY <1>2, <2>0 DEF FindNothing
  <2>2. Asked' = Asked /\ Served' = Served /\ W \in SUBSET queue
    BY <2>0, <2>1 DEF Asked, Served
  <2>3. \A q \in queue : q \in Asked /\ q \notin Served
    BY DEF ServingInv, Asked
  <2>4. Asked' \ (queue' \cup Served') = (Asked \ (queue \cup Served)) \cup W
    BY <2>1, <2>2, <2>3
  <2>5. Admission!Withdraw(W)
    BY <2>1, <2>2, <2>4 DEF Admission!Withdraw, Asked
  <2>. QED
    BY <2>2, <2>5 DEF Admission!AdmissionNext
<1>3. CASE Midway(w)
  <2>1. UNCHANGED <<caller, number, queue, closed, serving>>
    BY <1>3, MidwayKeeps
  <2>. QED
    BY <2>1, AdmissionStutters DEF Asked, Served
<1>4. CASE Release(w)
  <2>0. PICK s : s = serving[w]
    OBVIOUS
  <2>1. s \in Served /\ Served' = Served \ {s}
    BY <1>4, <2>0, ReleaseServes
  <2>2. UNCHANGED <<caller, number, queue, closed>>
    BY <1>4 DEF Release, callerVars
  <2>3. s \in Requests /\ s \in Asked /\ s \notin queue
    BY <2>1, ServedIsFinite DEF ServingInv, Asked
  <2>4. Asked' = Asked
    BY <2>2 DEF Asked
  <2>5. Asked' \ (queue' \cup Served') = (Asked \ (queue \cup Served)) \cup {s}
    BY <2>1, <2>2, <2>3, <2>4
  <2>6. Admission!Leave(s)
    BY <2>1, <2>2, <2>5 DEF Admission!Leave, Asked
  <2>. QED
    BY <2>3, <2>6 DEF Admission!AdmissionNext
<1>. QED
  BY <1>1, <1>2, <1>3, <1>4 DEF WorkerStep, Midway

LEMMA AdmissionShutdown ==
    ASSUME RenderInv, Shutdown
    PROVE  Admission!AdmissionNext
<1>1. queue' = {} /\ closed' = TRUE /\ UNCHANGED <<caller, number, serving>>
  BY DEF Shutdown
<1>2. Asked' = Asked /\ Served' = Served
  BY <1>1 DEF Asked, Served
<1>3. \A q \in queue : q \in Asked /\ q \notin Served
  BY DEF RenderInv, RenderTypes, SlotType, ServingInv, Asked
<1>4. Asked' \ (queue' \cup Served') = (Asked \ (queue \cup Served)) \cup queue
  BY <1>1, <1>2, <1>3
<1>5. Admission!Close
  BY <1>1, <1>2, <1>4 DEF Admission!Close, Asked
<1>. QED
  BY <1>5 DEF Admission!AdmissionNext

LEMMA MoveIsAdmission ==
    ASSUME RenderInv, RenderMove
    PROVE  [Admission!AdmissionNext]_(Admission!admissionVars)
<1>1. CASE CancelMany
  <2>1. UNCHANGED <<caller, number, queue, closed, serving>>
    BY <1>1 DEF CancelMany
  <2>. QED
    BY <2>1, AdmissionStutters DEF Asked, Served
<1>. QED
  BY <1>1, AdmissionCaller, AdmissionWorker, AdmissionShutdown DEF RenderMove

-----------------------------------------------------------------------------
(***************************************************************************)
(* Theorems.                                                               *)
(***************************************************************************)
\* Callers, heap, counters, workers and delegates keep their types, whatever
\* is cancelled and whenever Shutdown comes: the counters stay within their
\* limits and never fall below zero, and no worker has a second slot.
THEOREM RenderTypesHold == RenderSpec => []RenderTypeOK
BY InvHolds, TypesFollow, PTL

\* A worker never sleeps beside a request it could render, nor after Shutdown:
\* every step of the code that lifts a limit, queues an item or closes the
\* scheduler wakes the workers, and a worker looks before it sleeps.
THEOREM NoWakeupIsLost == RenderSpec => []NoLostWakeup
BY InvHolds, WakeupsFollow, PTL

\* A caller that left Render leaves no queued item and no delegate that was
\* not told to stop.
THEOREM NoRenderIsAGhost == RenderSpec => []NoGhostRender
BY InvHolds, GhostsFollow, PTL

\* Delegates that heed their context never outnumber the workers.
THEOREM DelegatesAreBounded == RenderSpec => []DelegatesBounded
BY InvHolds, BoundsFollow, PTL

\* The scheduler implements the abstract admission: limits that hold of the
\* running requests themselves, and the best request first.
THEOREM SchedulerImplementsAdmission == RenderSpec => ImplementsAdmission
<1>1. RenderInit => Admission!AdmissionInit
  <2>1. ASSUME RenderInit PROVE Served = {} /\ Asked = {}
    <3>1. \A w \in Workers : serving[w] = None
      BY <2>1 DEF RenderInit
    <3>. QED
      BY <2>1, <3>1 DEF RenderInit, Served, Asked
  <2>. QED
    BY <2>1 DEF RenderInit, Admission!AdmissionInit, Asked
<1>2. RenderInv /\ [RenderNext]_renderVars => [Admission!AdmissionNext]_(Admission!admissionVars)
  BY NextIsMove, MoveIsAdmission DEF RenderInv
<1>. QED
  BY InvHolds, <1>1, <1>2, PTL DEF RenderSpec, ImplementsAdmission, Admission!AdmissionSpec
=============================================================================
