------------------------ MODULE ToolApprovalsProofs ------------------------
(***************************************************************************)
(* The safety of tool approvals, proved for any calls, answers, policies   *)
(* and size of the cache.                                                  *)
(***************************************************************************)
EXTENDS ToolApprovals, FiniteSetTheorems, TLAPS

Results == {"none", "ok", "error", "replayed", "required"}
CallRecord == [at : Places, arguments : Arguments, result : Results]
Entry == [status : Statuses, late : BOOLEAN]
AnswerPlaces == {"idle", "looked", "recheck", "ready", "running", "done"}
AnswerRecord == [at : AnswerPlaces, call : Calls, accepted : BOOLEAN, says : Decisions]
Ids == {CallId(d) : d \in Calls}

\* ApprovalsTypeOK, one variable or two that change together at a time.
CallType == call \in [Calls -> CallRecord]
PendingType == pending \in [Calls -> Entry]
DecisionType == decision \in [Calls -> Decisions \union {Nobody}]
AnswerType == answer \in [Answers -> AnswerRecord]
CacheType ==
    /\ cache \subseteq Ids /\ done \subseteq Ids
    /\ Cardinality(cache) <= CacheLimit
PolicyType == policy \in [Tools -> Policies] /\ changes \in 0 .. MaxChanges
RanType == ran \in [Calls -> Seq(Arguments)]
HistoryType == repeated \subseteq Calls /\ barred \subseteq Calls

LEMMA TypesByVariable ==
    ApprovalsTypeOK <=>
        /\ CallType /\ PendingType /\ DecisionType /\ AnswerType
        /\ CacheType /\ PolicyType /\ RanType /\ HistoryType
BY DEF ApprovalsTypeOK, CallType, PendingType, DecisionType, AnswerType, CacheType, PolicyType,
       RanType, HistoryType, CallRecord, Results, Entry, AnswerPlaces, AnswerRecord, Ids

LEMMA TypesByVariableNext ==
    ApprovalsTypeOK' <=>
        /\ CallType' /\ PendingType' /\ DecisionType' /\ AnswerType'
        /\ CacheType' /\ PolicyType' /\ RanType' /\ HistoryType'
BY DEF ApprovalsTypeOK, CallType, PendingType, DecisionType, AnswerType, CacheType, PolicyType,
       RanType, HistoryType, CallRecord, Results, Entry, AnswerPlaces, AnswerRecord, Ids

-----------------------------------------------------------------------------
(***************************************************************************)
(* Types.                                                                  *)
(***************************************************************************)
LEMMA GoesType ==
    ASSUME CallType, NEW c \in Calls, NEW there \in Places, Goes(c, there)
    PROVE  CallType'
BY DEF CallType, CallRecord, Goes

LEMMA ReturnsType ==
    ASSUME CallType, NEW c \in Calls, NEW result \in Results, Returns(c, result)
    PROVE  CallType'
BY DEF CallType, CallRecord, Returns, Places

LEMMA EntryType ==
    ASSUME PendingType, NEW c \in Calls, NEW entry \in Entry,
           pending' = [pending EXCEPT ![c] = entry]
    PROVE  PendingType'
BY DEF PendingType

LEMMA PrunedType ==
    ASSUME PendingType
    PROVE  /\ Pruned \in [Calls -> Entry]
           /\ \A c \in Calls :
                \/ Pruned[c] = pending[c]
                \/ pending[c].status = "pending" /\ Pruned[c].status = "expired"
                \/ pending[c].status = "resolved" /\ Pruned[c].status = "none"
BY DEF PendingType, Pruned, Entry, Statuses

LEMMA AskType ==
    ASSUME PendingType, NEW c \in Calls, Ask(c)
    PROVE  PendingType'
BY PrunedType DEF PendingType, Ask, Entry, Statuses

LEMMA RunsType ==
    ASSUME RanType, NEW c \in Calls, NEW arguments \in Arguments, Runs(c, arguments)
    PROVE  RanType'
BY DEF RanType, Runs

LEMMA BarsType ==
    ASSUME HistoryType, NEW c \in Calls, Bars(c)
    PROVE  barred' \subseteq Calls
BY DEF HistoryType, Bars

LEMMA MovesType ==
    ASSUME AnswerType, NEW a \in Answers, NEW there \in AnswerPlaces, Moves(a, there)
    PROVE  AnswerType'
BY DEF AnswerType, AnswerRecord, Moves

LEMMA RememberType ==
    ASSUME CacheType, NEW c \in Calls, Remember(c)
    PROVE  CacheType'
<1>1. IsFiniteSet(Ids)
  <2>. DEFINE f == [d \in Calls |-> CallId(d)]
  <2>1. f \in Surjection(Calls, Ids)
    BY DEF Surjection, Ids
  <2>. QED
    BY <2>1, FS_Surjection, ApprovalsAssumption
<1>2. CallId(c) \in Ids
  BY DEF Ids
<1>3. IsFiniteSet(cache) /\ Cardinality(cache) \in Nat
  BY <1>1, FS_Subset, FS_CardinalityType DEF CacheType
<1>4. CASE Full
  <2>1. cache' = {CallId(c)} /\ done' = {CallId(c)}
    BY <1>4 DEF Remember
  <2>2. Cardinality(cache') = 1
    BY <2>1, FS_Singleton
  <2>. QED
    BY <2>1, <2>2, <1>2, ApprovalsAssumption DEF CacheType
<1>5. CASE ~Full
  <2>1. cache' = cache \union {CallId(c)} /\ done' = done \union {CallId(c)}
    BY <1>5 DEF Remember
  <2>2. /\ IsFiniteSet(cache \union {CallId(c)})
        /\ Cardinality(cache \union {CallId(c)}) \in {Cardinality(cache), Cardinality(cache) + 1}
    BY <1>3, FS_AddElement
  <2>3. Cardinality(cache') <= CacheLimit
    BY <2>1, <2>2, <1>3, <1>5, ApprovalsAssumption DEF Full, CacheType
  <2>. QED
    BY <2>1, <2>3, <1>2 DEF CacheType
<1>. QED
  BY <1>4, <1>5

LEMMA InitTypes == Init => ApprovalsTypeOK
<1>. SUFFICES ASSUME Init PROVE ApprovalsTypeOK
  OBVIOUS
<1>1. CallType /\ PendingType /\ DecisionType
  BY DEF Init, CallType, PendingType, DecisionType, CallRecord, Entry, Places, Arguments, Results,
         Statuses
<1>2. AnswerType
  <2>1. [approved |-> FALSE, arguments |-> "proposed"] \in Decisions
    BY DEF Decisions, Arguments
  <2>2. (CHOOSE c \in Calls : TRUE) \in Calls
    BY ApprovalsAssumption
  <2>. QED
    BY <2>1, <2>2 DEF Init, AnswerType, AnswerRecord, AnswerPlaces
<1>3. CacheType
  BY FS_EmptySet, ApprovalsAssumption DEF Init, CacheType
<1>4. PolicyType /\ RanType /\ HistoryType
  BY ApprovalsAssumption DEF Init, PolicyType, RanType, HistoryType
<1>. QED
  BY <1>1, <1>2, <1>3, <1>4, TypesByVariable

\* What a step leaves alone keeps its type.
LEMMA KeptTypes ==
    /\ CallType /\ UNCHANGED call => CallType'
    /\ PendingType /\ UNCHANGED pending => PendingType'
    /\ DecisionType /\ UNCHANGED decision => DecisionType'
    /\ AnswerType /\ UNCHANGED answer => AnswerType'
    /\ CacheType /\ UNCHANGED <<cache, done>> => CacheType'
    /\ PolicyType /\ UNCHANGED <<policy, changes>> => PolicyType'
    /\ RanType /\ UNCHANGED ran => RanType'
    /\ HistoryType /\ UNCHANGED <<repeated, barred>> => HistoryType'
BY DEF CallType, PendingType, DecisionType, AnswerType, CacheType, PolicyType, RanType, HistoryType

AllTypes ==
    /\ CallType /\ PendingType /\ DecisionType /\ AnswerType
    /\ CacheType /\ PolicyType /\ RanType /\ HistoryType

LEMMA ExecuteTypes ==
    ASSUME AllTypes, NEW c \in Calls, Execute(c)
    PROVE  AllTypes'
<1>. USE KeptTypes DEF AllTypes
<1>. USE DEF Places, Results, history
<1>1. CASE Begin(c)
  <2>1. CallType'
    BY <1>1, GoesType, ReturnsType DEF Begin
  <2>2. HistoryType'
    BY <1>1, BarsType DEF Begin, HistoryType
  <2>. QED
    BY <1>1, <2>1, <2>2 DEF Begin
<1>2. CASE CheckPolicy(c)
  <2>1. CallType'
    BY <1>2, GoesType, ReturnsType DEF CheckPolicy
  <2>2. PendingType'
    BY <1>2, AskType DEF CheckPolicy
  <2>. QED
    BY <1>2, <2>1, <2>2 DEF CheckPolicy
<1>3. CASE Hear(c)
  <2>1. CASE decision[c].approved
    <3>1. decision[c].arguments \in Arguments
      BY <1>3, <2>1 DEF Hear, DecisionType, Decisions, Nobody
    <3>2. CallType'
      BY <1>3, <2>1, <3>1 DEF Hear, CallType, CallRecord
    <3>. QED
      BY <1>3, <3>2 DEF Hear
  <2>2. CASE ~decision[c].approved
    <3>1. CallType'
      BY <1>3, <2>2, ReturnsType DEF Hear
    <3>. QED
      BY <1>3, <3>1 DEF Hear
  <2>. QED
    BY <2>1, <2>2
<1>4. CASE GiveUp(c)
  BY <1>4, GoesType DEF GiveUp
<1>5. CASE Expire(c)
  <2>1. CallType'
    BY <1>5, ReturnsType DEF Expire
  <2>2. [status |-> "expired", late |-> TRUE] \in Entry
    BY DEF Entry, Statuses
  <2>3. PendingType'
    BY <1>5, <2>2, EntryType DEF Expire
  <2>. QED
    BY <1>5, <2>1, <2>3 DEF Expire
<1>6. CASE HandlerReturns(c)
  <2>1. CallType'
    BY <1>6, GoesType, ReturnsType DEF HandlerReturns
  <2>2. HistoryType'
    BY <1>6, BarsType DEF HandlerReturns, HistoryType
  <2>. QED
    BY <1>6, <2>1, <2>2 DEF HandlerReturns
<1>7. CASE Recheck(c)
  <2>1. CallType'
    BY <1>7, GoesType, ReturnsType DEF Recheck
  <2>. QED
    BY <1>7, <2>1 DEF Recheck
<1>8. CASE Run(c)
  <2>1. CallType'
    BY <1>8, GoesType, ReturnsType DEF Run
  <2>2. RanType'
    BY <1>8, RunsType DEF Run, CallType, CallRecord
  <2>. QED
    BY <1>8, <2>1, <2>2 DEF Run
<1>9. CASE RunAgain(c)
  <2>1. RanType'
    BY <1>9, RunsType DEF RunAgain, CallType, CallRecord
  <2>. QED
    BY <1>9, <2>1 DEF RunAgain
<1>10. CASE RunFails(c)
  <2>1. CallType'
    BY <1>10, ReturnsType DEF RunFails
  <2>. QED
    BY <1>10, <2>1 DEF RunFails
<1>11. CASE RunSucceeds(c)
  <2>1. CallType'
    BY <1>11, ReturnsType DEF RunSucceeds
  <2>2. CacheType'
    BY <1>11, RememberType DEF RunSucceeds
  <2>. QED
    BY <1>11, <2>1, <2>2 DEF RunSucceeds
<1>. QED
  BY <1>1, <1>2, <1>3, <1>4, <1>5, <1>6, <1>7, <1>8, <1>9, <1>10, <1>11 DEF Execute

LEMMA AnswerTypes ==
    ASSUME AllTypes, NEW a \in Answers, ResolveApproval(a)
    PROVE  AllTypes'
<1>. USE KeptTypes DEF AllTypes
<1>. USE DEF AnswerPlaces, history
<1>1. ASSUME NEW c \in Calls, LookUp(a, c) PROVE AllTypes'
  <2>1. PendingType'
    BY <1>1, PrunedType DEF LookUp, PendingType
  <2>2. CASE Pruned[c].status = "none"
    BY <1>1, <2>1, <2>2, MovesType DEF LookUp
  <2>3. CASE Pruned[c].status # "none"
    <3>1. AnswerType'
      BY <1>1, <2>3 DEF LookUp, AnswerType, AnswerRecord
    <3>. QED
      BY <1>1, <2>1, <3>1 DEF LookUp
  <2>. QED
    BY <2>2, <2>3
<1>2. CASE Refuse(a)
  <2>1. PendingType'
    BY <1>2 DEF Refuse, PendingType, Entry, Statuses
  <2>2. AnswerType'
    BY <1>2, MovesType DEF Refuse
  <2>. QED
    BY <1>2, <2>1, <2>2 DEF Refuse
<1>3. CASE Resolve(a)
  <2>. DEFINE c == answer[a].call
  <2>1. c \in Calls /\ answer[a].says \in Decisions
    BY DEF AnswerType, AnswerRecord
  <2>2. [status |-> "resolved", late |-> FALSE] \in Entry
    BY DEF Entry, Statuses
  <2>3. PendingType'
    BY <1>3, <2>1, <2>2, EntryType DEF Resolve
  <2>4. DecisionType'
    BY <1>3, <2>1 DEF Resolve, Send, DecisionType
  <2>5. AnswerType'
    BY <1>3, <2>1 DEF Resolve, AnswerType, AnswerRecord
  <2>6. HistoryType'
    BY <1>3, <2>1, BarsType DEF Resolve, HistoryType
  <2>. QED
    BY <1>3, <2>3, <2>4, <2>5, <2>6 DEF Resolve
<1>4. CASE RecheckApproved(a)
  <2>1. AnswerType'
    BY <1>4, MovesType DEF RecheckApproved
  <2>. QED
    BY <1>4, <2>1 DEF RecheckApproved
<1>5. CASE RunApproved(a)
  <2>1. AnswerType'
    BY <1>5, MovesType DEF RunApproved
  <2>2. answer[a].call \in Calls /\ answer[a].says.arguments \in Arguments
    BY DEF AnswerType, AnswerRecord, Decisions
  <2>3. RanType'
    BY <1>5, <2>2, RunsType DEF RunApproved
  <2>. QED
    BY <1>5, <2>1, <2>3 DEF RunApproved
<1>6. CASE EndApproved(a)
  <2>1. AnswerType'
    BY <1>6, MovesType DEF EndApproved
  <2>. QED
    BY <1>6, <2>1 DEF EndApproved
<1>. QED
  BY <1>1, <1>2, <1>3, <1>4, <1>5, <1>6 DEF ResolveApproval

LEMMA StepTypes == AllTypes /\ [Next]_vars => AllTypes'
<1>. SUFFICES ASSUME AllTypes, [Next]_vars PROVE AllTypes'
  OBVIOUS
<1>. USE KeptTypes DEF AllTypes
<1>1. CASE List
  <2>1. PendingType'
    BY <1>1, PrunedType DEF List, PendingType
  <2>. QED
    BY <1>1, <2>1 DEF List, history
<1>2. ASSUME NEW c \in Calls, TimeRunsOut(c) PROVE AllTypes'
  <2>1. PendingType'
    BY <1>2 DEF TimeRunsOut, PendingType, Entry
  <2>. QED
    BY <1>2, <2>1 DEF TimeRunsOut, history
<1>3. ASSUME NEW t \in Adjustable, NEW p \in Policies, SetPolicy(t, p) PROVE AllTypes'
  <2>1. PolicyType'
    BY <1>3, ApprovalsAssumption DEF SetPolicy, PolicyType
  <2>2. HistoryType'
    BY <1>3 DEF SetPolicy, HistoryType
  <2>. QED
    BY <1>3, <2>1, <2>2 DEF SetPolicy
<1>4. CASE UNCHANGED vars
  BY <1>4 DEF vars
<1>. QED
  BY <1>1, <1>2, <1>3, <1>4, ExecuteTypes, AnswerTypes DEF Next

\* Every record of the executor and the broker has a value the code can give it,
\* and the cache never holds more than its limit.
THEOREM ApprovalsTypes == ApprovalsSpec => []ApprovalsTypeOK
<1>1. Init => AllTypes
  BY InitTypes, TypesByVariable DEF AllTypes
<1>2. AllTypes => ApprovalsTypeOK
  BY TypesByVariable DEF AllTypes
<1>. QED
  BY <1>1, <1>2, StepTypes, PTL DEF ApprovalsSpec

-----------------------------------------------------------------------------
(***************************************************************************)
(* The inductive invariant.                                                *)
(***************************************************************************)
\* Nothing is asked about c, or it has been answered.
Settled(c) == pending[c].status \in {"none", "resolved"}

CallInv(c) ==
    /\ call[c].at \in {"new", "permitted"} => pending[c].status = "none" /\ decision[c] = Nobody
    /\ call[c].at \in Places \ {"running", "returned"} => ran[c] = <<>>
    /\ call[c].at \in {"recheck", "ready", "running"} => Settled(c)
    /\ decision[c] # Nobody => Settled(c)
    /\ ~Settled(c) => ran[c] = <<>>
    /\ Mode[c] = "handler" => pending[c].status = "none"
    /\ Mode[c] = "out_of_band" =>
          /\ pending[c].status # "none" => call[c].at = "returned"
          /\ call[c].at \notin {"waiting", "leaving"}
    /\ Mode[c] = "inline" /\ call[c].at = "returned" => pending[c].status # "pending"
    /\ Tool[c] \in SideEffecting => Len(ran[c]) <= 1
    /\ c \in barred => Denied(c) /\ call[c].at \notin {"ready", "running"}
    /\ c \in repeated /\ Tool[c] \in SideEffecting =>
          call[c].at = "returned" /\ ran[c] = <<>> /\ pending[c].status = "none"

AnswerInv(a) ==
    LET c == answer[a].call  says == answer[a].says IN
    /\ answer[a].at \in {"idle", "looked"} => ~answer[a].accepted
    /\ answer[a].accepted =>
          /\ Settled(c) /\ decision[c] = says /\ Mode[c] # "handler"
          /\ call[c].at \notin {"new", "permitted"}
          /\ Mode[c] = "out_of_band" => call[c].at = "returned"
          /\ call[c].at \in {"recheck", "ready", "running"} =>
                says = [approved |-> TRUE, arguments |-> call[c].arguments]
          /\ \A i \in 1 .. Len(ran[c]) : says = [approved |-> TRUE, arguments |-> ran[c][i]]
          /\ Tool[c] \in SideEffecting => c \notin repeated
    /\ answer[a].at \in {"recheck", "ready", "running"} =>
          answer[a].accepted /\ says.approved /\ Mode[c] = "out_of_band"
    /\ answer[a].at \in {"recheck", "ready"} => ran[c] = <<>>
    /\ answer[a].at \in {"ready", "running"} => c \notin barred

OneAnswer ==
    \A a, b \in Answers :
        answer[a].accepted /\ answer[b].accepted /\ answer[a].call = answer[b].call => a = b

ApprovalsInv ==
    /\ AllTypes
    /\ \A c \in Calls : CallInv(c)
    /\ \A a \in Answers : AnswerInv(a)
    /\ OneAnswer
    /\ done = cache

\* A step that leaves a call alone but for the expiry of its entry.
Quiet(c) ==
    /\ call'[c] = call[c] /\ decision'[c] = decision[c] /\ ran'[c] = ran[c]
    /\ \/ pending'[c].status = pending[c].status
       \/ pending[c].status = "pending" /\ pending'[c].status = "expired"
       \/ pending[c].status = "resolved" /\ pending'[c].status = "none"
    /\ c \in barred' => c \in barred /\ (Denied(c) => Denied(c)')
    /\ c \in repeated' => c \in repeated

LEMMA QuietCall ==
    ASSUME NEW c \in Calls, CallInv(c), Quiet(c)
    PROVE  CallInv(c)'
BY DEF CallInv, Quiet, Settled

LEMMA QuietAnswer ==
    ASSUME NEW a \in Answers, AnswerInv(a), answer'[a] = answer[a], Quiet(answer[a].call)
    PROVE  AnswerInv(a)'
BY DEF AnswerInv, Quiet, Settled

LEMMA InitInv == Init => ApprovalsInv
<1>. SUFFICES ASSUME Init PROVE ApprovalsInv
  OBVIOUS
<1>1. AllTypes
  BY InitTypes, TypesByVariable DEF AllTypes
<1>2. ASSUME NEW c \in Calls PROVE CallInv(c)
  BY <1>2 DEF Init, CallInv, Settled, Places
<1>3. ASSUME NEW a \in Answers PROVE AnswerInv(a)
  BY <1>3 DEF Init, AnswerInv
<1>4. OneAnswer /\ done = cache
  BY DEF Init, OneAnswer
<1>. QED
  BY <1>1, <1>2, <1>3, <1>4 DEF ApprovalsInv

\* A step of Execute is quiet for all other calls: its question only makes
\* others expire.
LEMMA OthersQuiet ==
    ASSUME AllTypes, NEW c \in Calls, Execute(c), NEW d \in Calls, d # c
    PROVE  Quiet(d)
<1>. USE DEF AllTypes, CallType, PendingType, RanType, HistoryType
<1>. USE DEF Quiet, Goes, Returns, Runs, Bars, Denied, history
<1>1. CASE Begin(c)
  BY <1>1 DEF Begin
<1>2. CASE CheckPolicy(c)
  <2>1. CASE Ask(c)
    BY <1>2, <2>1, PrunedType DEF CheckPolicy, Ask
  <2>2. CASE UNCHANGED pending
    BY <1>2, <2>2 DEF CheckPolicy
  <2>. QED
    BY <1>2, <2>1, <2>2 DEF CheckPolicy
<1>3. CASE Hear(c)
  BY <1>3 DEF Hear
<1>4. CASE GiveUp(c)
  BY <1>4 DEF GiveUp
<1>5. CASE Expire(c)
  BY <1>5 DEF Expire
<1>6. CASE HandlerReturns(c)
  BY <1>6 DEF HandlerReturns
<1>7. CASE Recheck(c)
  BY <1>7 DEF Recheck
<1>8. CASE Run(c)
  BY <1>8 DEF Run
<1>9. CASE RunAgain(c)
  BY <1>9 DEF RunAgain
<1>10. CASE RunFails(c)
  BY <1>10 DEF RunFails
<1>11. CASE RunSucceeds(c)
  BY <1>11 DEF RunSucceeds
<1>. QED
  BY <1>1, <1>2, <1>3, <1>4, <1>5, <1>6, <1>7, <1>8, <1>9, <1>10, <1>11 DEF Execute

LEMMA AnswersUntouched ==
    ASSUME NEW c \in Calls, Execute(c)
    PROVE  UNCHANGED answer
BY DEF Execute, Begin, CheckPolicy, Hear, GiveUp, Expire, HandlerReturns, Recheck, Run, RunAgain,
       RunFails, RunSucceeds, history

\* What a step of Execute does to its own call, and to what was answered for it.
LEMMA OwnCall ==
    ASSUME ApprovalsInv, NEW c \in Calls, Execute(c)
    PROVE  CallInv(c)'
<1>0. AllTypes /\ CallInv(c) /\ done = cache
  BY DEF ApprovalsInv
<1>. USE <1>0, ApprovalsAssumption
<1>. USE DEF AllTypes, CallType, CallRecord, PendingType, RanType, HistoryType, PolicyType
<1>. USE DEF CallInv, Settled, Places, Goes, Returns, Bars, Denied, history
<1>1. CASE Begin(c)
  <2>1. c \in repeated' /\ Tool[c] \in SideEffecting => call'[c].at = "returned"
    BY <1>1 DEF Begin
  <2>. QED
    BY <1>1, <2>1 DEF Begin
<1>2. CASE CheckPolicy(c)
  <2>1. CASE Ask(c)
    <3>1. pending'[c].status = "pending" /\ ran'[c] = <<>> /\ decision'[c] = Nobody
      BY <1>2, <2>1, PrunedType DEF CheckPolicy, Ask
    <3>2. /\ ~Denied(c) /\ Mode[c] # "handler" /\ c \notin barred'
          /\ c \in repeated' => Tool[c] \notin SideEffecting
      BY <1>2, <2>1, <3>1 DEF CheckPolicy
    <3>3. \/ Mode[c] = "inline" /\ call'[c].at = "waiting"
          \/ Mode[c] = "out_of_band" /\ call'[c].at = "returned"
      BY <1>2, <2>1, <3>1, <3>2 DEF CheckPolicy
    <3>. QED
      BY <3>1, <3>2, <3>3
  <2>2. CASE UNCHANGED pending
    BY <1>2, <2>2, PrunedType DEF CheckPolicy, Modes, Ask
  <2>. QED
    BY <1>2, <2>1, <2>2 DEF CheckPolicy
<1>3. CASE Hear(c)
  BY <1>3 DEF Hear
<1>4. CASE GiveUp(c)
  BY <1>4 DEF GiveUp
<1>5. CASE Expire(c)
  BY <1>5 DEF Expire
<1>6. CASE HandlerReturns(c)
  BY <1>6 DEF HandlerReturns
<1>7. CASE Recheck(c)
  BY <1>7 DEF Recheck
<1>8. CASE Run(c)
  <2>1. CASE Returns(c, "error") /\ UNCHANGED ran
    BY <1>8, <2>1 DEF Run
  <2>2. CASE Goes(c, "running") /\ Runs(c, call[c].arguments)
    <3>1. Len(ran'[c]) = 1
      BY <1>8, <2>2 DEF Run, Runs
    <3>. QED
      BY <1>8, <2>2, <3>1 DEF Run, Runs
  <2>. QED
    BY <1>8, <2>1, <2>2 DEF Run
<1>9. CASE RunAgain(c)
  BY <1>9 DEF RunAgain, Runs, MaxAttempts
<1>10. CASE RunFails(c)
  BY <1>10 DEF RunFails
<1>11. CASE RunSucceeds(c)
  BY <1>11 DEF RunSucceeds
<1>. QED
  BY <1>1, <1>2, <1>3, <1>4, <1>5, <1>6, <1>7, <1>8, <1>9, <1>10, <1>11 DEF Execute

\* An answer that was not accepted owes nothing.
LEMMA NotAccepted ==
    ASSUME NEW a \in Answers, AnswerInv(a), answer'[a] = answer[a], ~answer[a].accepted
    PROVE  AnswerInv(a)'
BY DEF AnswerInv

\* The steps of a call that waits for an answer, and what they must keep of it.
LEMMA AcceptedKept ==
    ASSUME NEW a \in Answers, AnswerInv(a), answer'[a] = answer[a], answer[a].accepted,
           NEW c, c = answer[a].call, Mode[c] = "inline",
           Settled(c)', decision'[c] = decision[c], c \in repeated' => c \in repeated,
           call'[c].at \notin {"new", "permitted"},
           call'[c].at \in {"recheck", "ready", "running"} =>
              answer[a].says = [approved |-> TRUE, arguments |-> call'[c].arguments],
           \A i \in 1 .. Len(ran'[c]) :
              answer[a].says = [approved |-> TRUE, arguments |-> ran'[c][i]]
    PROVE  AnswerInv(a)'
BY DEF AnswerInv

LEMMA OwnAnswers ==
    ASSUME ApprovalsInv, NEW c \in Calls, Execute(c), NEW a \in Answers, answer[a].call = c
    PROVE  AnswerInv(a)'
<1>1. /\ AllTypes /\ CallInv(c) /\ AnswerInv(a) /\ answer' = answer
      /\ answer[a].says \in Decisions
  BY AnswersUntouched DEF ApprovalsInv, AllTypes, AnswerType, AnswerRecord
<1>2. CASE ~answer[a].accepted
  BY <1>1, <1>2, NotAccepted
<1>3. CASE answer[a].accepted
  <2>. DEFINE says == answer[a].says
  <2>1. /\ Settled(c) /\ decision[c] = says /\ call[c].at \notin {"new", "permitted"}
        /\ call[c].at \in {"recheck", "ready", "running"} =>
              says = [approved |-> TRUE, arguments |-> call[c].arguments]
        /\ \A i \in 1 .. Len(ran[c]) : says = [approved |-> TRUE, arguments |-> ran[c][i]]
    BY <1>1, <1>3 DEF AnswerInv
  <2>2. call[c].at # "returned"
    BY DEF Execute, Begin, CheckPolicy, Hear, GiveUp, Expire, HandlerReturns, Recheck, Run,
           RunAgain, RunFails, RunSucceeds
  <2>3. Mode[c] = "inline"
    BY <1>1, <1>3, <2>2, ApprovalsAssumption DEF AnswerInv, Modes
  <2>4. ~Begin(c) /\ ~CheckPolicy(c) /\ ~HandlerReturns(c)
    BY <2>1, <2>3 DEF Begin, CheckPolicy, HandlerReturns
  <2>5. Settled(c)' /\ decision' = decision /\ repeated' = repeated
    BY <2>1, <2>4 DEF Settled, Execute, Hear, GiveUp, Expire, Recheck, Run, RunAgain, RunFails,
                      RunSucceeds, history
  <2>6. /\ call'[c].at \notin {"new", "permitted"}
        /\ call'[c].at \in {"recheck", "ready", "running"} =>
              says = [approved |-> TRUE, arguments |-> call'[c].arguments]
    <3>. USE DEF Goes, Returns
    <3>. call \in [Calls -> CallRecord]
      BY <1>1 DEF AllTypes, CallType
    <3>1. CASE Hear(c)
      <4>1. CASE says.approved
        <5>1. call'[c].at = "recheck" /\ call'[c].arguments = says.arguments
          BY <3>1, <4>1, <2>1 DEF Hear, CallRecord
        <5>2. says = [approved |-> TRUE, arguments |-> says.arguments]
          BY <1>1, <4>1 DEF Decisions
        <5>. QED
          BY <5>1, <5>2
      <4>2. CASE ~says.approved
        BY <3>1, <4>2, <2>1 DEF Hear, CallRecord
      <4>. QED
        BY <4>1, <4>2
    <3>2. CASE GiveUp(c) \/ Expire(c) \/ RunFails(c) \/ RunSucceeds(c)
      BY <3>2 DEF GiveUp, Expire, RunFails, RunSucceeds, CallRecord
    <3>3. CASE Recheck(c) \/ Run(c)
      <4>1. /\ call[c].at \in {"recheck", "ready"}
            /\ call'[c].at \notin {"new", "permitted"} /\ call'[c].arguments = call[c].arguments
        BY <3>3 DEF Recheck, Run, CallRecord
      <4>. QED
        BY <4>1, <2>1
    <3>4. CASE RunAgain(c)
      BY <3>4, <2>1 DEF RunAgain
    <3>. QED
      BY <3>1, <3>2, <3>3, <3>4, <2>4 DEF Execute
  <2>7. \A i \in 1 .. Len(ran'[c]) : says = [approved |-> TRUE, arguments |-> ran'[c][i]]
    <3>1. CASE ran' = ran
      BY <3>1, <2>1
    <3>2. CASE Runs(c, call[c].arguments) /\ call[c].at \in {"ready", "running"}
      <4>1. ran[c] \in Seq(Arguments) /\ call[c].arguments \in Arguments
        BY <1>1 DEF AllTypes, RanType, CallType, CallRecord
      <4>2. ran'[c] = Append(ran[c], call[c].arguments)
        BY <1>1, <3>2 DEF Runs, AllTypes, RanType
      <4>3. \A i \in 1 .. Len(ran'[c]) :
               \/ i \in 1 .. Len(ran[c]) /\ ran'[c][i] = ran[c][i]
               \/ ran'[c][i] = call[c].arguments
        BY <4>1, <4>2
      <4>4. says = [approved |-> TRUE, arguments |-> call[c].arguments]
        BY <2>1, <3>2
      <4>. QED
        BY <4>3, <4>4, <2>1
    <3>. QED
      BY <3>1, <3>2, <2>4 DEF Execute, Hear, GiveUp, Expire, Recheck, Run, RunAgain, RunFails,
                              RunSucceeds, history
  <2>. QED
    BY <1>1, <1>3, <2>3, <2>5, <2>6, <2>7, AcceptedKept
<1>. QED
  BY <1>2, <1>3

LEMMA ExecuteInv ==
    ASSUME ApprovalsInv, NEW c \in Calls, Execute(c)
    PROVE  ApprovalsInv'
<1>1. AllTypes'
  BY ExecuteTypes DEF ApprovalsInv
<1>2. ASSUME NEW d \in Calls PROVE CallInv(d)'
  BY OwnCall, OthersQuiet, QuietCall DEF ApprovalsInv
<1>3. ASSUME NEW a \in Answers PROVE AnswerInv(a)'
  <2>1. answer[a].call \in Calls /\ answer' = answer
    BY AnswersUntouched DEF ApprovalsInv, AllTypes, AnswerType, AnswerRecord
  <2>. QED
    BY <2>1, OwnAnswers, OthersQuiet, QuietAnswer DEF ApprovalsInv
<1>4. OneAnswer'
  BY AnswersUntouched DEF ApprovalsInv, OneAnswer
<1>5. done' = cache'
  BY DEF ApprovalsInv, Execute, Begin, CheckPolicy, Hear, GiveUp, Expire, HandlerReturns, Recheck,
         Run, RunAgain, RunFails, RunSucceeds, Remember, history
<1>. QED
  BY <1>1, <1>2, <1>3, <1>4, <1>5 DEF ApprovalsInv

\* Steps that are quiet for every call, and change no answer but the one that
\* they belong to.
LEMMA QuietStep ==
    ASSUME ApprovalsInv, AllTypes', \A c \in Calls : Quiet(c), UNCHANGED <<cache, done>>,
           \A a \in Answers :
              \/ answer'[a] = answer[a]
              \/ /\ AnswerInv(a)'
                 /\ answer'[a].accepted = answer[a].accepted
                 /\ answer[a].accepted => answer'[a].call = answer[a].call
    PROVE  ApprovalsInv'
<1>1. ASSUME NEW c \in Calls PROVE CallInv(c)'
  BY QuietCall DEF ApprovalsInv
<1>2. ASSUME NEW a \in Answers PROVE AnswerInv(a)'
  <2>1. answer[a].call \in Calls
    BY DEF ApprovalsInv, AllTypes, AnswerType, AnswerRecord
  <2>. QED
    BY <2>1, QuietAnswer DEF ApprovalsInv
<1>3. OneAnswer'
  <2>1. \A a \in Answers : /\ answer'[a].accepted = answer[a].accepted
                           /\ answer[a].accepted => answer'[a].call = answer[a].call
    OBVIOUS
  <2>. QED
    BY <2>1 DEF ApprovalsInv, OneAnswer
<1>. QED
  BY <1>1, <1>2, <1>3 DEF ApprovalsInv

LEMMA LookUpInv ==
    ASSUME ApprovalsInv, NEW a \in Answers, NEW c \in Calls, LookUp(a, c)
    PROVE  ApprovalsInv'
<1>1. AllTypes'
  BY AnswerTypes DEF ApprovalsInv, ResolveApproval
<1>2. \A d \in Calls : Quiet(d)
  BY PrunedType DEF LookUp, Quiet, history, Denied, ApprovalsInv, AllTypes
<1>3. answer[a].at = "idle" /\ ~answer[a].accepted
  BY DEF LookUp, ApprovalsInv, AnswerInv
<1>4. answer'[a].accepted = answer[a].accepted /\ answer'[a].at \in {"done", "looked"}
  BY DEF LookUp, Moves, ApprovalsInv, AllTypes, AnswerType, AnswerRecord
<1>5. \A b \in Answers \ {a} : answer'[b] = answer[b]
  BY DEF LookUp, Moves, ApprovalsInv, AllTypes, AnswerType
<1>6. AnswerInv(a)'
  BY <1>3, <1>4 DEF AnswerInv
<1>7. UNCHANGED <<cache, done>>
  BY DEF LookUp, history
<1>. QED
  BY <1>1, <1>2, <1>3, <1>4, <1>5, <1>6, <1>7, QuietStep

LEMMA RefuseInv ==
    ASSUME ApprovalsInv, NEW a \in Answers, Refuse(a)
    PROVE  ApprovalsInv'
<1>1. AllTypes'
  BY AnswerTypes DEF ApprovalsInv, ResolveApproval
<1>2. \A d \in Calls : Quiet(d)
  BY DEF Refuse, Quiet, history, Denied, ApprovalsInv, AllTypes, PendingType, Entry
<1>3. answer[a].at = "looked" /\ ~answer[a].accepted
  BY DEF Refuse, ApprovalsInv, AnswerInv
<1>4. answer'[a].accepted = answer[a].accepted /\ answer'[a].at = "done"
  BY DEF Refuse, Moves, ApprovalsInv, AllTypes, AnswerType, AnswerRecord
<1>5. \A b \in Answers \ {a} : answer'[b] = answer[b]
  BY DEF Refuse, Moves, ApprovalsInv, AllTypes, AnswerType
<1>6. AnswerInv(a)'
  BY <1>3, <1>4 DEF AnswerInv
<1>7. UNCHANGED <<cache, done>>
  BY DEF Refuse, history
<1>. QED
  BY <1>1, <1>2, <1>3, <1>4, <1>5, <1>6, <1>7, QuietStep

\* ExecuteApproved up to the run, and its end.
LEMMA ApprovedInv ==
    ASSUME ApprovalsInv, NEW a \in Answers, RecheckApproved(a) \/ EndApproved(a)
    PROVE  ApprovalsInv'
<1>. DEFINE c == answer[a].call
<1>1. AllTypes'
  BY AnswerTypes DEF ApprovalsInv, ResolveApproval
<1>2. \A d \in Calls : Quiet(d)
  BY DEF RecheckApproved, EndApproved, Quiet, history, Denied
<1>3. /\ answer'[a].accepted = answer[a].accepted /\ answer'[a].call = c
      /\ answer'[a].says = answer[a].says
      /\ \A b \in Answers \ {a} : answer'[b] = answer[b]
  BY DEF RecheckApproved, EndApproved, Moves, ApprovalsInv, AllTypes, AnswerType, AnswerRecord
<1>4. UNCHANGED <<call, pending, decision, ran, barred, repeated, cache, done>>
  BY DEF RecheckApproved, EndApproved, history
<1>5. /\ answer[a].at \in {"recheck", "running"}
      /\ answer'[a].at = "done" \/ (answer[a].at = "recheck" /\ answer'[a].at = "ready" /\ ~Denied(c))
  BY DEF RecheckApproved, EndApproved, Moves, ApprovalsInv, AllTypes, AnswerType, AnswerRecord
<1>6. c \in Calls /\ CallInv(c) /\ AnswerInv(a)
  BY DEF ApprovalsInv, AllTypes, AnswerType, AnswerRecord
<1>7. AnswerInv(a)'
  BY <1>3, <1>4, <1>5, <1>6 DEF AnswerInv, CallInv, Settled
<1>. QED
  BY <1>1, <1>2, <1>3, <1>4, <1>7, QuietStep

\* The call is somebody else's no more: it has returned, and nothing ran for it.
LEMMA RunApprovedInv ==
    ASSUME ApprovalsInv, NEW a \in Answers, RunApproved(a)
    PROVE  ApprovalsInv'
<1>. DEFINE c == answer[a].call  says == answer[a].says
<1>1. AllTypes /\ AllTypes'
  BY AnswerTypes DEF ApprovalsInv, ResolveApproval
<1>2. c \in Calls /\ CallInv(c) /\ AnswerInv(a) /\ says \in Decisions
  BY <1>1 DEF ApprovalsInv, AllTypes, AnswerType, AnswerRecord
<1>3. answer[a].at = "ready" /\ answer[a].accepted /\ says.approved /\ ran[c] = <<>>
  BY <1>2 DEF RunApproved, AnswerInv
<1>4. UNCHANGED <<call, pending, decision, policy, cache, changes, done, repeated, barred>>
  BY DEF RunApproved
<1>5. /\ answer'[a].accepted = answer[a].accepted /\ answer'[a].call = c
      /\ answer'[a].says = says
      /\ \A b \in Answers \ {a} : answer'[b] = answer[b]
      /\ answer'[a].at \in {"done", "running"}
  BY <1>1 DEF RunApproved, Moves, AllTypes, AnswerType, AnswerRecord
<1>6. /\ \A d \in Calls \ {c} : ran'[d] = ran[d]
      /\ ran'[c] = <<>> \/ ran'[c] = <<says.arguments>>
  <2>1. CASE UNCHANGED ran
    BY <1>3, <2>1
  <2>2. CASE Runs(c, says.arguments)
    <3>1. ran' = [ran EXCEPT ![c] = Append(<<>>, says.arguments)]
      BY <1>3, <2>2, <1>1, <1>2 DEF Runs, AllTypes, RanType
    <3>2. Append(<<>>, says.arguments) = <<says.arguments>>
      OBVIOUS
    <3>. QED
      BY <3>1, <3>2, <1>1, <1>2 DEF AllTypes, RanType
  <2>. QED
    BY <2>1, <2>2 DEF RunApproved
<1>7. \A d \in Calls \ {c} : Quiet(d)
  BY <1>4, <1>6 DEF Quiet, Denied
<1>8. says = [approved |-> TRUE, arguments |-> says.arguments]
  BY <1>2, <1>3 DEF Decisions
<1>9. \A i \in 1 .. Len(ran'[c]) : says = [approved |-> TRUE, arguments |-> ran'[c][i]]
  <2>1. CASE ran'[c] = <<>>
    BY <2>1
  <2>2. CASE ran'[c] = <<says.arguments>>
    <3>1. Len(<<says.arguments>>) = 1 /\ <<says.arguments>>[1] = says.arguments
      OBVIOUS
    <3>2. \A i \in 1 .. 1 : i = 1
      OBVIOUS
    <3>3. \A i \in 1 .. Len(ran'[c]) : ran'[c][i] = says.arguments
      BY <2>2, <3>1, <3>2
    <3>. QED
      BY <3>3, <1>8
  <2>. QED
    BY <1>6, <2>1, <2>2
<1>10. Len(ran'[c]) <= 1
  <2>1. CASE ran'[c] = <<>>
    BY <2>1
  <2>2. CASE ran'[c] = <<says.arguments>>
    <3>1. Len(<<says.arguments>>) = 1
      OBVIOUS
    <3>. QED
      BY <2>2, <3>1
  <2>. QED
    BY <1>6, <2>1, <2>2
<1>11. ASSUME NEW d \in Calls PROVE CallInv(d)'
  <2>1. CASE d # c
    BY <2>1, <1>7, QuietCall DEF ApprovalsInv
  <2>2. CASE d = c
    <3>1. /\ call[c].at = "returned" /\ Settled(c) /\ c \notin barred
          /\ Tool[c] \in SideEffecting => c \notin repeated
      BY <1>2, <1>3 DEF AnswerInv
    <3>. QED
      BY <2>2, <3>1, <1>2, <1>4, <1>10 DEF CallInv, Settled, Places
  <2>. QED
    BY <2>1, <2>2
<1>12. ASSUME NEW b \in Answers PROVE AnswerInv(b)'
  <2>1. CASE b = a
    BY <2>1, <1>2, <1>3, <1>4, <1>5, <1>9 DEF AnswerInv, Settled
  <2>2. CASE b # a /\ answer[b].call # c
    <3>1. answer[b].call \in Calls
      BY <1>1 DEF AllTypes, AnswerType, AnswerRecord
    <3>. QED
      BY <2>2, <3>1, <1>5, <1>7, QuietAnswer DEF ApprovalsInv
  <2>3. CASE b # a /\ answer[b].call = c
    <3>1. ~answer[b].accepted
      BY <2>3, <1>3 DEF ApprovalsInv, OneAnswer
    <3>. QED
      BY <2>3, <3>1, <1>5, NotAccepted DEF ApprovalsInv
  <2>. QED
    BY <2>1, <2>2, <2>3
<1>13. OneAnswer'
  <2>1. \A b \in Answers : answer'[b].accepted = answer[b].accepted /\ answer'[b].call = answer[b].call
    BY <1>5
  <2>. QED
    BY <2>1 DEF ApprovalsInv, OneAnswer
<1>. QED
  BY <1>1, <1>4, <1>11, <1>12, <1>13 DEF ApprovalsInv

\* An open question has no answer yet and nothing ran for it.
LEMMA ResolveInv ==
    ASSUME ApprovalsInv, NEW a \in Answers, Resolve(a)
    PROVE  ApprovalsInv'
<1>. DEFINE c == answer[a].call  says == answer[a].says
<1>1. AllTypes /\ AllTypes'
  BY AnswerTypes DEF ApprovalsInv, ResolveApproval
<1>2. c \in Calls /\ CallInv(c) /\ says \in Decisions
  BY <1>1 DEF ApprovalsInv, AllTypes, AnswerType, AnswerRecord
<1>3. /\ pending[c].status = "pending" /\ ~Settled(c) /\ ran[c] = <<>>
      /\ call[c].at \notin {"new", "permitted", "recheck", "ready", "running"}
      /\ Mode[c] = "out_of_band" => call[c].at = "returned"
      /\ Mode[c] # "handler" /\ Mode[c] \in Modes
  BY <1>2, ApprovalsAssumption DEF Resolve, Open, CallInv, Settled
<1>4. \A b \in Answers : answer[b].call = c => ~answer[b].accepted
  BY <1>3 DEF ApprovalsInv, AnswerInv
<1>5. UNCHANGED <<call, policy, cache, changes, ran, done, repeated>>
  BY DEF Resolve
<1>6. /\ \A d \in Calls \ {c} : pending'[d] = pending[d] /\ decision'[d] = decision[d]
      /\ pending'[c].status = "resolved" /\ decision'[c] = says
  BY <1>1, <1>2 DEF Resolve, Send, AllTypes, PendingType, DecisionType
<1>7. barred' = barred \/ (Denied(c) /\ barred' = barred \union {c})
  BY DEF Resolve, Bars
<1>8. /\ \A b \in Answers \ {a} : answer'[b] = answer[b]
      /\ answer'[a].accepted = TRUE /\ answer'[a].call = c /\ answer'[a].says = says
      /\ \/ answer'[a].at = "done"
         \/ answer'[a].at = "recheck" /\ says.approved /\ Mode[c] # "inline"
  BY <1>1 DEF Resolve, Executes, AllTypes, AnswerType, AnswerRecord
<1>9. \A d \in Calls \ {c} : Quiet(d)
  BY <1>5, <1>6, <1>7 DEF Quiet, Denied
<1>10. ASSUME NEW d \in Calls PROVE CallInv(d)'
  <2>1. CASE d # c
    BY <2>1, <1>9, QuietCall DEF ApprovalsInv
  <2>2. CASE d = c
    <3>1. c \in repeated /\ Tool[c] \in SideEffecting => FALSE
      BY <1>2, <1>3 DEF CallInv
    <3>2. c \in barred' => Denied(c)
      BY <1>2, <1>7 DEF CallInv
    <3>. QED
      BY <2>2, <3>1, <3>2, <1>2, <1>3, <1>5, <1>6 DEF CallInv, Settled, Denied
  <2>. QED
    BY <2>1, <2>2
<1>11. ASSUME NEW b \in Answers PROVE AnswerInv(b)'
  <2>1. CASE b = a
    <3>1. c \in repeated /\ Tool[c] \in SideEffecting => FALSE
      BY <1>2, <1>3 DEF CallInv
    <3>2. \A i \in 1 .. Len(ran'[c]) : FALSE
      BY <1>3, <1>5
    <3>. QED
      BY <2>1, <3>1, <3>2, <1>3, <1>5, <1>6, <1>8 DEF AnswerInv, Settled, Modes
  <2>2. CASE b # a /\ answer[b].call # c
    <3>1. answer[b].call \in Calls
      BY <1>1 DEF AllTypes, AnswerType, AnswerRecord
    <3>. QED
      BY <2>2, <3>1, <1>8, <1>9, QuietAnswer DEF ApprovalsInv
  <2>3. CASE b # a /\ answer[b].call = c
    BY <2>3, <1>4, <1>8, NotAccepted DEF ApprovalsInv
  <2>. QED
    BY <2>1, <2>2, <2>3
<1>12. OneAnswer'
  BY <1>4, <1>8 DEF ApprovalsInv, OneAnswer
<1>. QED
  BY <1>1, <1>5, <1>10, <1>11, <1>12 DEF ApprovalsInv

LEMMA StepInv == ApprovalsInv /\ [Next]_vars => ApprovalsInv'
<1>. SUFFICES ASSUME ApprovalsInv, [Next]_vars PROVE ApprovalsInv'
  OBVIOUS
<1>0. AllTypes /\ AllTypes'
  BY StepTypes DEF ApprovalsInv
<1>1. CASE List
  <2>1. \A c \in Calls : Quiet(c)
    BY <1>0, <1>1, PrunedType DEF List, Quiet, history, Denied, AllTypes
  <2>. QED
    BY <1>0, <1>1, <2>1, QuietStep DEF List, history
<1>2. ASSUME NEW c \in Calls, TimeRunsOut(c) PROVE ApprovalsInv'
  <2>1. \A d \in Calls : Quiet(d)
    BY <1>0, <1>2 DEF TimeRunsOut, Quiet, history, Denied, AllTypes, PendingType, Entry
  <2>. QED
    BY <1>0, <1>2, <2>1, QuietStep DEF TimeRunsOut, history
<1>3. ASSUME NEW t \in Adjustable, NEW p \in Policies, SetPolicy(t, p) PROVE ApprovalsInv'
  <2>1. \A d \in Calls : Quiet(d)
    <3>1. UNCHANGED <<call, pending, decision, ran, repeated>>
      BY <1>3 DEF SetPolicy
    <3>2. ASSUME NEW d \in Calls, d \in barred', Denied(d) PROVE d \in barred /\ Denied(d)'
      <4>1. Tool[d] \in Tools /\ policy \in [Tools -> Policies]
        BY <1>0 DEF Tools, AllTypes, PolicyType
      <4>. QED
        BY <1>3, <3>2, <4>1 DEF SetPolicy, Denied
    <3>3. barred' \subseteq barred
      BY <1>3 DEF SetPolicy
    <3>. QED
      BY <3>1, <3>2, <3>3 DEF Quiet
  <2>. QED
    BY <1>0, <1>3, <2>1, QuietStep DEF SetPolicy
<1>4. CASE UNCHANGED vars
  <2>1. \A d \in Calls : Quiet(d)
    BY <1>4 DEF vars, Quiet, Denied
  <2>. QED
    BY <1>0, <1>4, <2>1, QuietStep DEF vars
<1>. QED
  BY <1>1, <1>2, <1>3, <1>4, ExecuteInv, LookUpInv, RefuseInv, ResolveInv, ApprovedInv,
     RunApprovedInv DEF Next, ResolveApproval

LEMMA InvHolds == ApprovalsSpec => []ApprovalsInv
BY InitInv, StepInv, PTL DEF ApprovalsSpec

-----------------------------------------------------------------------------
(***************************************************************************)
(* The promises.                                                           *)
(***************************************************************************)
\* One answer per request is accepted, and what ran was approved with the
\* arguments it ran with (ExecuteApproved, ApprovalBroker.Resolve).
THEOREM AnswersHold == ApprovalsSpec => []RunsAsAnswered
<1>1. ApprovalsInv => RunsAsAnswered
  <2>. SUFFICES ASSUME ApprovalsInv, NEW c \in Calls
                PROVE  LET accepted == {a \in Answers : answer[a].accepted /\ answer[a].call = c} IN
                       /\ Cardinality(accepted) <= 1
                       /\ pending[c].status \in {"pending", "expired"} => ran[c] = <<>>
                       /\ \A a \in accepted, i \in 1 .. Len(ran[c]) :
                            answer[a].says = [approved |-> TRUE, arguments |-> ran[c][i]]
    BY DEF RunsAsAnswered
  <2>. DEFINE accepted == {a \in Answers : answer[a].accepted /\ answer[a].call = c}
  <2>1. accepted = {} \/ \E a \in Answers : accepted = {a}
    BY DEF ApprovalsInv, OneAnswer
  <2>2. Cardinality(accepted) <= 1
    <3>. HIDE DEF accepted
    <3>1. CASE accepted = {}
      <4>1. Cardinality({}) = 0
        BY FS_EmptySet
      <4>. QED
        BY <3>1, <4>1
    <3>2. ASSUME NEW a \in Answers, accepted = {a} PROVE Cardinality(accepted) <= 1
      <4>1. Cardinality({a}) = 1
        BY FS_Singleton
      <4>. QED
        BY <3>2, <4>1
    <3>. QED
      BY <2>1, <3>1, <3>2
  <2>3. pending[c].status \in {"pending", "expired"} => ran[c] = <<>>
    BY DEF ApprovalsInv, CallInv, Settled
  <2>4. \A a \in accepted, i \in 1 .. Len(ran[c]) :
           answer[a].says = [approved |-> TRUE, arguments |-> ran[c][i]]
    <3>1. ASSUME NEW a \in Answers, answer[a].accepted, answer[a].call = c, NEW i \in 1 .. Len(ran[c])
          PROVE  answer[a].says = [approved |-> TRUE, arguments |-> ran[c][i]]
      <4>1. AnswerInv(a)
        BY DEF ApprovalsInv
      <4>. QED
        BY ONLY <3>1, <4>1 DEF AnswerInv
    <3>. QED
      BY <3>1
  <2>. QED
    BY <2>2, <2>3, <2>4
<1>. QED
  BY <1>1, InvHolds, PTL

\* No path runs a tool with side effects twice for one call.
THEOREM EffectsOnce == ApprovalsSpec => []SideEffectsOnce
<1>1. ApprovalsInv => SideEffectsOnce
  BY DEF ApprovalsInv, CallInv, SideEffectsOnce
<1>. QED
  BY <1>1, InvHolds, PTL

\* A call that the cache remembers is answered without a run.
THEOREM RepeatsReplayed == ApprovalsSpec => []RepeatsAreReplayed
<1>1. ApprovalsInv => RepeatsAreReplayed
  BY DEF ApprovalsInv, CallInv, RepeatsAreReplayed, AllTypes, HistoryType
<1>. QED
  BY <1>1, InvHolds, PTL

\* A denial that stands keeps the tool from running on every path.
THEOREM DenialsHold == ApprovalsSpec => DenialHolds
<1>1. ApprovalsInv /\ [Next]_vars => [\A c \in barred : ran'[c] = ran[c]]_vars
  <2>. SUFFICES ASSUME ApprovalsInv, Next, NEW c \in barred PROVE ran'[c] = ran[c]
    OBVIOUS
  <2>1. c \in Calls /\ CallInv(c) /\ AllTypes
    BY DEF ApprovalsInv, AllTypes, HistoryType
  <2>2. ASSUME NEW d \in Calls, Execute(d) PROVE ran'[c] = ran[c]
    <3>1. CASE d # c
      BY <2>1, <2>2, <3>1, OthersQuiet DEF Quiet
    <3>2. CASE d = c
      <4>1. ~Run(c) /\ ~RunAgain(c)
        BY <2>1 DEF CallInv, Run, RunAgain
      <4>. QED
        BY <2>2, <3>2, <4>1 DEF Execute, Begin, CheckPolicy, Hear, GiveUp, Expire, HandlerReturns,
           Recheck, RunFails, RunSucceeds, history
    <3>. QED
      BY <3>1, <3>2
  <2>3. ASSUME NEW a \in Answers, RunApproved(a) PROVE ran'[c] = ran[c]
    <3>1. answer[a].call # c
      BY <2>3 DEF RunApproved, ApprovalsInv, AnswerInv
    <3>. QED
      BY <2>1, <2>3, <3>1 DEF RunApproved, Runs, AllTypes, RanType
  <2>4. ASSUME NEW a \in Answers, ResolveApproval(a), ~RunApproved(a) PROVE ran'[c] = ran[c]
    BY <2>4 DEF ResolveApproval, LookUp, Refuse, Resolve, RecheckApproved, EndApproved, history
  <2>. QED
    BY <2>2, <2>3, <2>4 DEF Next, List, TimeRunsOut, SetPolicy, history
<1>. QED
  BY <1>1, InvHolds, PTL DEF ApprovalsSpec, DenialHolds

\* No answer is accepted for a chat call that has returned.
THEOREM NoLateAnswer == ApprovalsSpec => NoAnswerAfterReturn
<1>1. ApprovalsInv /\ [Next]_vars =>
        [\A c \in Calls :
           Mode[c] = "inline" /\ call[c].at = "returned" => decision'[c] = decision[c]]_vars
  <2>. SUFFICES ASSUME ApprovalsInv, Next, NEW c \in Calls, Mode[c] = "inline",
                       call[c].at = "returned"
                PROVE  decision'[c] = decision[c]
    OBVIOUS
  <2>1. pending[c].status # "pending" /\ DecisionType
    BY DEF ApprovalsInv, CallInv, AllTypes
  <2>2. ASSUME NEW a \in Answers, Resolve(a) PROVE decision'[c] = decision[c]
    <3>1. answer[a].call # c
      BY <2>1, <2>2 DEF Resolve, Open
    <3>. QED
      BY <2>1, <2>2, <3>1 DEF Resolve, Send, DecisionType
  <2>3. ASSUME NEW a \in Answers, ResolveApproval(a), ~Resolve(a) PROVE decision'[c] = decision[c]
    BY <2>3 DEF ResolveApproval, LookUp, Refuse, RecheckApproved, RunApproved, EndApproved, history
  <2>4. ASSUME NEW d \in Calls, Execute(d) PROVE decision'[c] = decision[c]
    BY <2>4 DEF Execute, Begin, CheckPolicy, Hear, GiveUp, Expire, HandlerReturns, Recheck, Run,
                RunAgain, RunFails, RunSucceeds, history
  <2>. QED
    BY <2>2, <2>3, <2>4 DEF Next, List, TimeRunsOut, SetPolicy, history
<1>. QED
  BY <1>1, InvHolds, PTL DEF ApprovalsSpec, NoAnswerAfterReturn
=============================================================================
