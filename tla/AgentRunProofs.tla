--------------------------- MODULE AgentRunProofs ---------------------------
(***************************************************************************)
(* The safety of agent runs, for any plans, repairs, executors, requests   *)
(* and restarts.  RunInv holds of every run; SoloInv, which says what is   *)
(* done and what is still to do, holds while no resume overlapped another  *)
(* call.                                                                   *)
(***************************************************************************)
EXTENDS AgentRun, FiniteSetTheorems, SequenceTheorems, TLAPS

\* The places in the middle of a step, those of the loop, and those with
\* statements to perform.
StepPlaces == {"waiting", "executing", "asking", "calling", "erred", "repairing", "grouped"}
LoopPlaces == StepPlaces \cup {"loop", "interrupted"}
WritePlaces == {"loading", "loop", "waiting", "executing", "asking", "calling", "grouped", "leaving"}

StepRows == [id : Nat \ {0}, pos : Nat \ {0}, kind : Kinds, status : StepStatuses]
RunWrites == [step : {0}, to : Statuses \ {"absent"}]
RowWrites == [step : Nat \ {0}, to : StepStatuses]
Writes == RunWrites \cup RowWrites
Executors ==
    [at : Places, todo : Seq(Writes), steps : Seq(StepRows), index : Nat \ {0},
     attempt : Nat, replanned : BOOLEAN, busy : SUBSET (Nat \ {0}), spoiled : BOOLEAN]

DbTypes ==
    /\ status \in Statuses /\ hasPlan \in BOOLEAN
    /\ rows \subseteq StepRows /\ IsFiniteSet(rows)
    /\ lastId \in Nat /\ stored \subseteq Nat
ExecTypes == exec \in [Slots -> Executors]
MemTypes ==
    /\ ctx \in [Slots -> {"live", "cancelled", "expired"}]
    /\ inbox \in [Slots -> {NoAnswer, "yes", "no"}]
    /\ registered \in Slots \cup {None}
    /\ user \in [Users -> [at : {"idle", "sending", "cancelling", "marking", "pausing", "stopping"},
                           yes : BOOLEAN]]
    /\ sessions \in Nat /\ requests \in Nat /\ restarts \in Nat /\ overlapped \in BOOLEAN

\* Ids are given out once.
IdInv ==
    /\ \A r \in rows : r.id <= lastId
    /\ \A r, s \in rows : r.id = s.id => r = s
    /\ \A id \in stored : id <= lastId

\* Of an executor: it knows no id before it is given out; it has a step where
\* it needs one, and something to write only where it may.
Knows(x) ==
    /\ \A i \in 1 .. Len(x.steps) : x.steps[i].id <= lastId
    /\ \A i \in 1 .. Len(x.todo) : x.todo[i].step <= lastId
    /\ \A id \in x.busy : id <= lastId
Placed(x) ==
    /\ x.at \in StepPlaces => x.index <= Len(x.steps)
    /\ x.todo # <<>> => x.at \in WritePlaces
    /\ x.at # "grouped" => x.busy = {}
    /\ x.at = "leaving" =>
         \A i \in 1 .. Len(x.todo) : x.todo[i].step = 0 => x.todo[i].to \notin {"planning", "running"}
Fit(x) == Knows(x) /\ Placed(x)

\* An executor that has still to write what becomes of the run.
Owes(x) ==
    \/ x.at \in LoopPlaces \cup {"created", "planning", "batching", "starting", "loading"}
    \/ x.at = "leaving" /\ \E i \in 1 .. Len(x.todo) : x.todo[i].step = 0
CarryInv == status \in {"planning", "running"} => \E e \in Slots : Owes(exec[e])

RunInv ==
    /\ DbTypes /\ ExecTypes /\ MemTypes /\ IdInv /\ CarryInv
    /\ \A e \in Slots : Fit(exec[e])

-----------------------------------------------------------------------------
(***************************************************************************)
(* One executor at a time.                                                 *)
(***************************************************************************)
Alone == \A e, f \in Slots : exec[e].at # "idle" /\ exec[f].at # "idle" => e = f

\* The steps are at the positions 1, 2, ...
PosInv ==
    /\ \A r \in rows : r.pos <= Cardinality(rows)
    /\ \A r, s \in rows : r.pos = s.pos => r = s

\* Before the first session there is nothing, and a plan is saved before its
\* steps are.
RowsInv ==
    /\ status = "absent" => ~hasPlan /\ \A e \in Slots : exec[e].at = "idle"
    /\ ~hasPlan => rows = {}
    /\ PosInv

\* An executor that makes a plan finds no steps; one in the loop has the rows
\* in the order of their positions, and those that it loaded as settled and
\* has still to pass are as they were.
Planned(x) ==
    /\ x.at \in {"created", "planning", "batching", "regenerating", "rebatching"} => rows = {}
    /\ x.at \in {"batching", "rebatching"} => hasPlan
Loaded(x) ==
    /\ x.at \notin LoopPlaces \cup {"loading", "leaving"} => x.index = 1
    /\ x.at = "loading" => x.index <= Cardinality(rows) + 1
    /\ x.at \in LoopPlaces =>
         /\ Len(x.steps) = Cardinality(rows)
         /\ x.index <= Cardinality(rows) + 1
         /\ \A r \in rows : x.steps[r.pos].id = r.id /\ x.steps[r.pos].kind = r.kind
         /\ \A r \in rows : r.pos >= x.index /\ x.steps[r.pos].status \in Settled =>
              r.status = x.steps[r.pos].status
    /\ x.at \in StepPlaces => x.steps[x.index].status \notin Settled

\* parallelGroupEnd
GroupOf(x) ==
    {i \in x.index .. Len(x.steps) :
        /\ i < x.index + MaxParallel
        /\ \A j \in x.index .. i : x.steps[j].kind = "read" /\ x.steps[j].status = "pending"}

\* What it will write: in the loop that the step behind it is done, in the
\* middle of a step nothing but the rows of that step.
Writing(x) ==
    \A i \in 1 .. Len(x.todo) : x.todo[i].step # 0 =>
        /\ x.at # "loading"
        /\ x.at = "loop" =>
             i = 1 /\ x.index > 1 /\ x.todo[i] = Row(x.steps[x.index - 1].id, "completed")
        /\ x.at \in StepPlaces => x.todo[i].to \in {"running", "awaiting_approval"}
        /\ x.at \in StepPlaces \ {"grouped"} => x.todo[i].step = x.steps[x.index].id
        /\ x.at = "grouped" => \E j \in GroupOf(x) : x.todo[i].step = x.steps[j].id

\* What it passed is settled, or about to be.
Passed(x) ==
    x.at \in LoopPlaces \cup {"loading"} =>
        \A r \in rows : r.pos < x.index =>
            \/ r.status \in Settled
            \/ x.at = "loop" /\ x.todo # <<>> /\ x.todo[1] = Row(r.id, "completed")

\* The steps of a group are busy or done, unless one of them failed.
InGroup(x) ==
    x.at = "grouped" =>
        /\ x.steps[x.index].kind = "read"
        /\ \A id \in x.busy : \E j \in GroupOf(x) : id = x.steps[j].id
        /\ ~x.spoiled =>
             \A r \in rows : r.pos \in GroupOf(x) =>
                 r.id \in x.busy \/ (x.todo = <<>> /\ r.status = "completed")

\* A run that is completed, or about to be, is settled and nobody is at work.
AllSettled == \A r \in rows : r.status \in Settled
Completing(x) ==
    /\ \A i \in 1 .. Len(x.todo) : x.todo[i] = Run("completed") =>
         x.at = "leaving" /\ Len(x.todo) = 1 /\ AllSettled
    /\ status = "completed" => x.at \in {"idle", "resuming", "leaving"} /\ x.todo = <<>>
CompletedInv == status = "completed" => AllSettled

\* A step that may have effects stays completed once its success was written;
\* an executor that has it before itself loaded it as such.
Spent(r) == r.kind # "read" /\ r.id \in stored
StoredInv == \A r \in rows : Spent(r) => r.status = "completed"
Storing(x) ==
    /\ x.at \in LoopPlaces =>
         \A r \in rows : r.pos >= x.index /\ Spent(r) => x.steps[r.pos].status \in Settled
    /\ x.at \in StepPlaces \ {"grouped"} =>
         x.steps[x.index].kind = "read" \/ x.steps[x.index].id \notin stored
    /\ x.at = "leaving" =>
         \A i \in 1 .. Len(x.todo) : \A r \in rows : x.todo[i].step = r.id => ~Spent(r)

\* In a process that never ended, what shows as completed was done, unless the
\* executor is about to write what became of it.
Undoing(x, id) ==
    x.at = "leaving" /\ x.todo # <<>> /\ x.todo[1].step = id /\ x.todo[1].to # "completed"
DoneInv == \A r \in rows : r.status = "completed" => r.id \in stored \/ \E e \in Slots : Undoing(exec[e], r.id)
Doing(x) ==
    /\ x.at \in LoopPlaces =>
         \A i \in 1 .. Len(x.steps) : i >= x.index /\ x.steps[i].status = "completed" => x.steps[i].id \in stored
    /\ x.at = "leaving" =>
         \A i \in 1 .. Len(x.todo) : x.todo[i].step # 0 /\ x.todo[i].to = "completed" =>
             i < Len(x.todo) /\ x.todo[i + 1].step = x.todo[i].step /\ x.todo[i + 1].to # "completed"

Ordered(x) ==
    /\ Planned(x) /\ Loaded(x) /\ Writing(x) /\ Passed(x) /\ InGroup(x) /\ Completing(x) /\ Storing(x)
    /\ restarts = 0 => Doing(x)

SoloInv ==
    ~overlapped =>
        /\ Alone /\ RowsInv /\ CompletedInv /\ StoredInv
        /\ restarts = 0 => DoneInv
        /\ \A e \in Slots : Ordered(exec[e])

-----------------------------------------------------------------------------
(***************************************************************************)
(* Sets of rows.                                                           *)
(***************************************************************************)

\* The rows before a row are as many as its place in the listing says: no two
\* rows have the same number of rows before them, and every number below that
\* of the rows occurs.
LEMMA RanksAreDistinct ==
    ASSUME DbTypes, IdInv,
           NEW r \in rows, NEW s \in rows, Before(r, s)
    PROVE  Cardinality({t \in rows : Before(t, r)}) < Cardinality({t \in rows : Before(t, s)})
<1> DEFINE R == {t \in rows : Before(t, r)}
           S == {t \in rows : Before(t, s)}
<1>1. R \in SUBSET S /\ r \in S /\ r \notin R
  BY DEF Before, DbTypes, StepRows
<1>2. IsFiniteSet(S)
  BY FS_Subset DEF DbTypes
<1>3. /\ IsFiniteSet(R) /\ Cardinality(R) <= Cardinality(S)
      /\ Cardinality(S) = Cardinality(R) => S = R
  BY <1>1, <1>2, FS_Subset
<1>4. Cardinality(R) \in Nat /\ Cardinality(S) \in Nat
  BY <1>2, <1>3, FS_CardinalityType
<1> QED
  BY <1>1, <1>3, <1>4

LEMMA RanksAreBounded ==
    ASSUME DbTypes, NEW r \in rows
    PROVE  Cardinality({t \in rows : Before(t, r)}) \in 0 .. Cardinality(rows) - 1
<1> DEFINE R == {t \in rows : Before(t, r)}
<1>1. R \in SUBSET rows /\ r \notin R
  BY DEF Before, DbTypes, StepRows
<1>2. /\ IsFiniteSet(R) /\ Cardinality(R) <= Cardinality(rows)
      /\ Cardinality(rows) = Cardinality(R) => rows = R
  BY <1>1, FS_Subset DEF DbTypes
<1>3. Cardinality(R) \in Nat /\ Cardinality(rows) \in Nat
  BY <1>2, FS_CardinalityType DEF DbTypes
<1> QED
  BY <1>1, <1>2, <1>3

LEMMA EveryRankOccurs ==
    ASSUME DbTypes, IdInv, NEW i \in 1 .. Cardinality(rows)
    PROVE  \E r \in rows : Cardinality({t \in rows : Before(t, r)}) = i - 1
<1> DEFINE N == Cardinality(rows)
           rank == [r \in rows |-> Cardinality({t \in rows : Before(t, r)})]
<1>1. N \in Nat
  BY FS_CardinalityType DEF DbTypes
<1>2. rank \in [rows -> 0 .. N - 1]
  BY RanksAreBounded
<1>3. ASSUME NEW r \in rows, NEW s \in rows, rank[r] = rank[s]
      PROVE  r = s
  <2>1. rank[r] \in Int /\ rank[s] \in Int
    BY <1>1, <1>2
  <2>2. ~Before(r, s) /\ ~Before(s, r)
    <3>1. Before(r, s) => rank[r] < rank[s]
      BY RanksAreDistinct
    <3>2. Before(s, r) => rank[s] < rank[r]
      BY RanksAreDistinct
    <3> QED
      BY <1>3, <2>1, <3>1, <3>2
  <2>3. r.id = s.id
    BY <2>2 DEF Before, DbTypes, StepRows
  <2> QED
    BY <2>3 DEF IdInv
<1>4. rank \in Injection(rows, 0 .. N - 1)
  BY <1>2, <1>3 DEF Injection, IsInjective
<1>5. IsFiniteSet(0 .. N - 1) /\ Cardinality(0 .. N - 1) = N
  <2> HIDE DEF N
  <2>1. 0 \in Int /\ N - 1 \in Int
    BY <1>1
  <2>2. /\ IsFiniteSet(0 .. N - 1)
        /\ Cardinality(0 .. N - 1) = IF 0 > N - 1 THEN 0 ELSE N - 1 - 0 + 1
    BY <2>1, FS_Interval
  <2> QED
    BY <1>1, <2>2
<1>6. rank \in Surjection(rows, 0 .. N - 1)
  BY <1>4, <1>5, FS_Injection
<1>7. i - 1 \in 0 .. N - 1
  BY <1>1
<1> QED
  BY <1>6, <1>7 DEF Surjection

LEMMA ListingIsRows ==
    ASSUME DbTypes, IdInv
    PROVE  /\ Listing \in Seq(rows) /\ Listing \in Seq(StepRows)
           /\ Len(Listing) = Cardinality(rows)
           /\ \A i \in 1 .. Cardinality(rows) : Listing[i] \in rows
<1>1. Cardinality(rows) \in Nat
  BY FS_CardinalityType DEF DbTypes
<1>2. Listing \in [1 .. Cardinality(rows) -> rows]
  BY EveryRankOccurs DEF Listing
<1>3. Listing \in Seq(rows) /\ Len(Listing) = Cardinality(rows)
  BY <1>1, <1>2
<1>4. Listing \in Seq(StepRows)
  BY <1>3, SeqMonotonic DEF DbTypes
<1> QED
  BY <1>2, <1>3, <1>4

\* The rows that CreateBatch and ReplaceFromIndex insert are new and pending,
\* one for each step of the plan, at successive positions.
LEMMA FreshRows ==
    ASSUME DbTypes, NEW kinds \in Seq(Kinds), NEW pos \in Nat \ {0}
    PROVE  /\ Fresh(kinds, pos) \subseteq StepRows /\ IsFiniteSet(Fresh(kinds, pos))
           /\ Cardinality(Fresh(kinds, pos)) = Len(kinds)
           /\ \A q \in Fresh(kinds, pos) :
                /\ q.id \in lastId + 1 .. lastId + Len(kinds)
                /\ q.pos \in pos .. pos + Len(kinds) - 1
                /\ q.status = "pending"
           /\ \A q, s \in Fresh(kinds, pos) : q.id = s.id \/ q.pos = s.pos => q = s
<1> DEFINE new == [i \in 1 .. Len(kinds) |->
                     [id |-> lastId + i, pos |-> pos + i - 1, kind |-> kinds[i], status |-> "pending"]]
           F == Fresh(kinds, pos)
<1>1. /\ Len(kinds) \in Nat /\ lastId \in Nat
      /\ \A i \in 1 .. Len(kinds) : kinds[i] \in Kinds
  BY DEF DbTypes
<1>2. F = {new[i] : i \in 1 .. Len(kinds)}
  BY DEF Fresh
<1>3. \A i \in 1 .. Len(kinds) : /\ new[i].id = lastId + i /\ new[i].pos = pos + i - 1
                                 /\ new[i].status = "pending" /\ new[i] \in StepRows
  BY <1>1 DEF StepRows, StepStatuses
<1> HIDE DEF F
<1>4. new \in Surjection(1 .. Len(kinds), F)
  BY <1>2 DEF Surjection
<1>5. new \in Injection(1 .. Len(kinds), F)
  <2>1. \A i, j \in 1 .. Len(kinds) : new[i] = new[j] => i = j
    BY <1>1, <1>3
  <2> QED
    BY <1>2, <2>1 DEF Injection, IsInjective
<1>6. IsFiniteSet(1 .. Len(kinds)) /\ Cardinality(1 .. Len(kinds)) = Len(kinds)
  <2>1. /\ IsFiniteSet(1 .. Len(kinds))
        /\ Cardinality(1 .. Len(kinds)) = IF 1 > Len(kinds) THEN 0 ELSE Len(kinds) - 1 + 1
    BY <1>1, FS_Interval
  <2> QED
    BY <1>1, <2>1
<1>7. IsFiniteSet(F) /\ Cardinality(F) = Len(kinds)
  BY <1>4, <1>5, <1>6, FS_Surjection
<1>8. \A q \in F : \E i \in 1 .. Len(kinds) : q = new[i]
  BY <1>2
<1> HIDE DEF new
<1>9. \A q, s \in F : q.id = s.id \/ q.pos = s.pos => q = s
  BY <1>1, <1>3, <1>8
<1>10. \A q \in F : /\ q \in StepRows /\ q.status = "pending"
                    /\ q.id \in lastId + 1 .. lastId + Len(kinds)
                    /\ q.pos \in pos .. pos + Len(kinds) - 1
  BY <1>1, <1>3, <1>8
<1> QED
  BY <1>7, <1>9, <1>10 DEF F

\* A set of rows that differs from the rows in nothing but their status.
Renews(q, r) == q.id = r.id /\ q.pos = r.pos /\ q.kind = r.kind
Renewed(R) ==
    /\ R \subseteq StepRows /\ IsFiniteSet(R) /\ Cardinality(R) = Cardinality(rows)
    /\ \A q, s \in R : q.id = s.id => q = s
    /\ \A q \in R : \E r \in rows : Renews(q, r)
    /\ \A r \in rows : \E q \in R : Renews(q, r)

\* UpdateStatus and UpdateOutput renew one row.
LEMMA SetRowRenews ==
    ASSUME DbTypes, IdInv, NEW id, NEW to \in StepStatuses
    PROVE  /\ Renewed(SetRow(id, to))
           /\ \A q \in SetRow(id, to) : \E r \in rows :
                Renews(q, r) /\ q.status = IF r.id = id THEN to ELSE r.status
<1> DEFINE new == [r \in rows |-> IF r.id = id THEN [r EXCEPT !.status = to] ELSE r]
           R == SetRow(id, to)
<1>1. R = {new[r] : r \in rows}
  BY DEF SetRow
<1>2. \A r \in rows : /\ new[r] \in StepRows /\ Renews(new[r], r)
                      /\ new[r].status = IF r.id = id THEN to ELSE r.status
  BY DEF DbTypes, StepRows, Renews
<1> HIDE DEF R
<1>3. new \in Surjection(rows, R)
  BY <1>1 DEF Surjection
<1>4. new \in Injection(rows, R)
  <2>1. \A r, s \in rows : new[r] = new[s] => r = s
    <3> HIDE DEF new
    <3> QED
      BY <1>2 DEF Renews, IdInv
  <2> QED
    BY <1>1, <2>1 DEF Injection, IsInjective
<1>5. IsFiniteSet(R) /\ Cardinality(R) = Cardinality(rows)
  BY <1>3, <1>4, FS_Surjection DEF DbTypes
<1>6. \A q \in R : \E r \in rows : q = new[r]
  BY <1>1
<1>7. \A r \in rows : new[r] \in R
  BY <1>1
<1> HIDE DEF new
<1>8. \A q, s \in R : q.id = s.id => q = s
  BY <1>2, <1>6 DEF Renews, IdInv
<1> QED
  BY <1>2, <1>5, <1>6, <1>7, <1>8 DEF R, Renewed

\* ResetInterrupted renews the rows that run and those that failed.
LEMMA ResetRowsRenews ==
    ASSUME DbTypes, IdInv
    PROVE  /\ Renewed(ResetRows)
           /\ \A q \in ResetRows : \E r \in rows :
                /\ Renews(q, r)
                /\ q.status = IF r.status \in {"running", "failed"} THEN "pending" ELSE r.status
<1> DEFINE new == [r \in rows |-> IF r.status \in {"running", "failed"}
                                  THEN [r EXCEPT !.status = "pending"] ELSE r]
           R == ResetRows
<1>1. R = {new[r] : r \in rows}
  BY DEF ResetRows
<1>2. \A r \in rows : /\ new[r] \in StepRows /\ Renews(new[r], r)
                      /\ new[r].status = IF r.status \in {"running", "failed"} THEN "pending" ELSE r.status
  BY DEF DbTypes, StepRows, StepStatuses, Renews
<1> HIDE DEF R
<1>3. new \in Surjection(rows, R)
  BY <1>1 DEF Surjection
<1>4. new \in Injection(rows, R)
  <2>1. \A r, s \in rows : new[r] = new[s] => r = s
    <3> HIDE DEF new
    <3> QED
      BY <1>2 DEF Renews, IdInv
  <2> QED
    BY <1>1, <2>1 DEF Injection, IsInjective
<1>5. IsFiniteSet(R) /\ Cardinality(R) = Cardinality(rows)
  BY <1>3, <1>4, FS_Surjection DEF DbTypes
<1>6. \A q \in R : \E r \in rows : q = new[r]
  BY <1>1
<1>7. \A r \in rows : new[r] \in R
  BY <1>1
<1> HIDE DEF new
<1>8. \A q, s \in R : q.id = s.id => q = s
  BY <1>2, <1>6 DEF Renews, IdInv
<1> QED
  BY <1>2, <1>5, <1>6, <1>7, <1>8 DEF R, Renewed

\* Renewed rows keep the invariant of the ids.
LEMMA RenewedRowsAreTyped ==
    ASSUME RunInv, Renewed(rows'), status' \in Statuses, UNCHANGED <<hasPlan, lastId>>,
           stored' \subseteq Nat, \A id \in stored' : id <= lastId
    PROVE  DbTypes' /\ IdInv'
<1>1. DbTypes'
  BY DEF RunInv, DbTypes, Renewed
<1>2. IdInv'
  BY DEF RunInv, DbTypes, IdInv, Renewed, Renews
<1> QED
  BY <1>1, <1>2

-----------------------------------------------------------------------------
(***************************************************************************)
(* Rows at successive positions.                                           *)
(***************************************************************************)
LEMMA EveryPositionOccurs ==
    ASSUME DbTypes, PosInv
    PROVE  \A i \in 1 .. Cardinality(rows) : \E r \in rows : r.pos = i
<1> DEFINE N == Cardinality(rows)
           pos == [r \in rows |-> r.pos]
<1>1. N \in Nat
  BY FS_CardinalityType DEF DbTypes
<1>2. pos \in [rows -> 1 .. N]
  BY <1>1 DEF PosInv, DbTypes, StepRows
<1>3. pos \in Injection(rows, 1 .. N)
  BY <1>2 DEF PosInv, Injection, IsInjective
<1>4. IsFiniteSet(1 .. N) /\ Cardinality(1 .. N) = N
  <2> HIDE DEF N
  <2>1. IsFiniteSet(1 .. N) /\ Cardinality(1 .. N) = IF 1 > N THEN 0 ELSE N - 1 + 1
    BY <1>1, FS_Interval
  <2> QED
    BY <1>1, <2>1
<1>5. pos \in Surjection(rows, 1 .. N)
  BY <1>3, <1>4, FS_Injection
<1> QED
  BY <1>5 DEF Surjection

LEMMA RowsBelow ==
    ASSUME DbTypes, PosInv, NEW p \in 1 .. Cardinality(rows) + 1
    PROVE  /\ IsFiniteSet({r \in rows : r.pos < p})
           /\ Cardinality({r \in rows : r.pos < p}) = p - 1
<1> DEFINE below == {r \in rows : r.pos < p}
           pos == [r \in below |-> r.pos]
<1>1. Cardinality(rows) \in Nat /\ p - 1 \in Int /\ 1 \in Int
  BY FS_CardinalityType DEF DbTypes
<1>2. pos \in [below -> 1 .. p - 1]
  BY <1>1 DEF DbTypes, StepRows
<1>3. pos \in Injection(below, 1 .. p - 1)
  BY <1>2 DEF PosInv, Injection, IsInjective
<1>4. \A i \in 1 .. p - 1 : \E r \in below : pos[r] = i
  BY <1>1, EveryPositionOccurs
<1>5. pos \in Surjection(below, 1 .. p - 1)
  BY <1>2, <1>4 DEF Surjection
<1>6. /\ IsFiniteSet(1 .. p - 1)
      /\ Cardinality(1 .. p - 1) = IF 1 > p - 1 THEN 0 ELSE (p - 1) - 1 + 1
  BY <1>1, FS_Interval
<1>7. Cardinality(1 .. p - 1) = p - 1
  BY <1>1, <1>6
<1>8. IsFiniteSet(below) /\ Cardinality(below) = Cardinality(1 .. p - 1)
  BY <1>3, <1>5, <1>6, FS_Injection
<1> QED
  BY <1>7, <1>8

\* The listing has every row at its position.
LEMMA ListingInOrder ==
    ASSUME DbTypes, IdInv, PosInv
    PROVE  \A r \in rows : r.pos \in 1 .. Cardinality(rows) /\ Listing[r.pos] = r
<1>1. Cardinality(rows) \in Nat
  BY FS_CardinalityType DEF DbTypes
<1>2. ASSUME NEW r \in rows
      PROVE  r.pos \in 1 .. Cardinality(rows) /\ Cardinality({t \in rows : Before(t, r)}) = r.pos - 1
  <2>1. r.pos \in 1 .. Cardinality(rows)
    BY <1>1 DEF DbTypes, StepRows, PosInv
  <2>2. {t \in rows : Before(t, r)} = {t \in rows : t.pos < r.pos}
    BY DEF Before, PosInv, DbTypes, StepRows
  <2>3. r.pos \in 1 .. Cardinality(rows) + 1
    BY <1>1, <2>1
  <2> QED
    BY <2>1, <2>2, <2>3, RowsBelow
<1>3. ASSUME NEW r \in rows
      PROVE  Listing[r.pos] = r
  <2> DEFINE rank(s) == Cardinality({t \in rows : Before(t, s)})
  <2>1. r.pos \in 1 .. Cardinality(rows)
    BY <1>2
  <2>2. Listing[r.pos] = CHOOSE s \in rows : rank(s) = r.pos - 1
    BY <2>1 DEF Listing
  <2>3. rank(r) = r.pos - 1 /\ \A s \in rows : rank(s) = s.pos - 1
    BY <1>2
  <2> HIDE DEF rank
  <2>4. Listing[r.pos] \in rows /\ rank(Listing[r.pos]) = r.pos - 1
    BY <2>2, <2>3
  <2>5. Listing[r.pos].pos = r.pos
    BY <2>1, <2>3, <2>4 DEF DbTypes, StepRows
  <2> QED
    BY <2>4, <2>5 DEF PosInv
<1> QED
  BY <1>2, <1>3

-----------------------------------------------------------------------------
(***************************************************************************)
(* Parallel groups.                                                        *)
(***************************************************************************)
LEMMA SetToSeqType ==
    ASSUME NEW S, IsFiniteSet(S)
    PROVE  /\ SetToSeq(S) \in Seq(S)
           /\ Len(SetToSeq(S)) = Cardinality(S)
           /\ \A i \in 1 .. Cardinality(S) : SetToSeq(S)[i] \in S
<1>1. Cardinality(S) \in Nat /\ ExistsBijection(1 .. Cardinality(S), S)
  BY FS_CardinalityType
<1>2. \E f \in [1 .. Cardinality(S) -> S] : IsInjective(f)
  BY <1>1 DEF ExistsBijection, Bijection, Injection
<1>3. SetToSeq(S) \in [1 .. Cardinality(S) -> S]
  BY <1>2 DEF SetToSeq
<1> QED
  BY <1>1, <1>3

\* The steps of a group follow each other.
LEMMA GroupsAreIntervals ==
    ASSUME NEW x \in Executors, MaxParallel \in Nat
    PROVE  /\ IsFiniteSet(GroupOf(x)) /\ Cardinality(GroupOf(x)) \in Nat
           /\ GroupOf(x) = x.index .. x.index + Cardinality(GroupOf(x)) - 1
<1> DEFINE G == GroupOf(x)
           a == x.index
           c == Cardinality(G)
<1>1. a \in Nat /\ Len(x.steps) \in Nat
  BY DEF Executors
<1>2. G \in SUBSET (a .. Len(x.steps)) /\ \A i \in G : i \in Nat /\ a <= i
  BY <1>1 DEF GroupOf
<1>3. \A k \in G : \A i \in a .. k : i \in G
  BY <1>1 DEF GroupOf
<1>4. IsFiniteSet(G) /\ c \in Nat
  <2>1. IsFiniteSet(a .. Len(x.steps))
    BY <1>1, FS_Interval
  <2> HIDE DEF G
  <2>2. IsFiniteSet(G)
    BY <1>2, <2>1, FS_Subset
  <2> QED
    BY <2>2, FS_CardinalityType
<1> HIDE DEF G, a
<1>5. ASSUME NEW k \in G
      PROVE  k - a + 1 <= c
  <2>1. a .. k \in SUBSET G /\ k \in Int /\ a \in Int
    BY <1>1, <1>2, <1>3
  <2>2. Cardinality(a .. k) <= c
    BY <1>4, <2>1, FS_Subset
  <2>3. Cardinality(a .. k) = IF a > k THEN 0 ELSE k - a + 1
    BY <2>1, FS_Interval
  <2> QED
    BY <1>1, <1>2, <2>2, <2>3
<1>6. ASSUME NEW i \in a .. a + c - 1, i \notin G
      PROVE  FALSE
  <2>1. i \in Int /\ a \in Int /\ i - 1 \in Int /\ a <= i /\ i < a + c
    BY <1>1, <1>4
  <2>2. \A k \in G : k < i
    BY <1>2, <1>3, <1>6, <2>1
  <2>3. G \in SUBSET (a .. i - 1)
    BY <1>2, <2>1, <2>2
  <2>4. IsFiniteSet(a .. i - 1) /\ Cardinality(a .. i - 1) = IF a > i - 1 THEN 0 ELSE (i - 1) - a + 1
    BY <2>1, FS_Interval
  <2>5. c <= Cardinality(a .. i - 1)
    BY <2>3, <2>4, FS_Subset
  <2> QED
    BY <1>4, <2>1, <2>4, <2>5
<1>7. G = a .. a + c - 1
  <2> HIDE DEF c
  <2>1. \A k \in G : k \in a .. a + c - 1
    BY <1>1, <1>2, <1>4, <1>5
  <2>2. \A i \in a .. a + c - 1 : i \in G
    BY <1>6
  <2> QED
    BY <2>1, <2>2
<1> QED
  BY <1>4, <1>7 DEF G, a

-----------------------------------------------------------------------------
(***************************************************************************)
(* Moves of one executor.                                                  *)
(***************************************************************************)
Moved(e, x) == exec' = [exec EXCEPT ![e] = x]
Quiet == MemTypes' /\ UNCHANGED <<dbVars, bounds, history>>
Kept(x, y) == x.steps = y.steps /\ x.index = y.index /\ x.busy = y.busy

LEMMA ExecutorParts ==
    ASSUME NEW x \in Executors
    PROVE  /\ Len(x.steps) \in Nat /\ Len(x.todo) \in Nat /\ x.index \in Nat \ {0}
           /\ \A i \in 1 .. Len(x.steps) : x.steps[i] \in StepRows /\ x.steps[i].id \in Nat \ {0}
           /\ \A i \in 1 .. Len(x.todo) : x.todo[i] \in Writes /\ x.todo[i].step \in Nat
           /\ \A id \in x.busy : id \in Nat \ {0}
<1>1. x.steps \in Seq(StepRows) /\ x.todo \in Seq(Writes)
  BY DEF Executors
<1>2. /\ Len(x.steps) \in Nat /\ \A i \in 1 .. Len(x.steps) : x.steps[i] \in StepRows
      /\ Len(x.todo) \in Nat /\ \A i \in 1 .. Len(x.todo) : x.todo[i] \in Writes
  BY <1>1
<1>3. \A r \in StepRows : r.id \in Nat \ {0}
  BY DEF StepRows
<1>4. \A w \in Writes : w.step \in Nat
  BY DEF Writes, RunWrites, RowWrites
<1>5. x.index \in Nat \ {0} /\ \A id \in x.busy : id \in Nat \ {0}
  BY DEF Executors
<1> QED
  BY <1>2, <1>3, <1>4, <1>5

LEMMA GoesMoves ==
    ASSUME ExecTypes, NEW e \in Slots, NEW at \in Places, NEW todo \in Seq(Writes),
           Goes(e, at, todo)
    PROVE  \E x \in Executors : Moved(e, x) /\ x.at = at /\ x.todo = todo /\ Kept(x, exec[e])
<1>1. PICK x : x = [exec[e] EXCEPT !.at = at, !.todo = todo]
  OBVIOUS
<1>2. exec[e] \in Executors
  BY DEF ExecTypes
<1>3. x \in Executors /\ x.at = at /\ x.todo = todo /\ Kept(x, exec[e])
  BY <1>1, <1>2 DEF Executors, Kept
<1>4. Moved(e, x)
  BY <1>1, <1>2 DEF Goes, Moved, ExecTypes, Executors
<1> QED
  BY <1>3, <1>4

LEMMA MoveKeepsRunInv ==
    ASSUME RunInv, NEW e \in Slots, NEW x \in Executors, Moved(e, x), Fit(x)',
           DbTypes', MemTypes', IdInv', lastId' >= lastId,
           status' \in {"planning", "running"} =>
               Owes(x) \/ (status' = status /\ (Owes(exec[e]) => Owes(x)))
    PROVE  RunInv'
<1>1. /\ exec \in [Slots -> Executors] /\ exec' \in [Slots -> Executors]
      /\ exec'[e] = x /\ \A f \in Slots \ {e} : exec'[f] = exec[f]
  BY DEF RunInv, ExecTypes, Moved
<1>2. CarryInv'
  BY <1>1 DEF RunInv, CarryInv
<1>3. ASSUME NEW f \in Slots
      PROVE  Fit(exec[f])'
  <2>1. CASE f = e
    <3>1. x = exec'[f]
      BY <1>1, <2>1
    <3> QED
      BY <3>1 DEF Fit, Knows, Placed
  <2>2. CASE f # e
    <3>1. exec'[f] = exec[f] /\ exec[f] \in Executors /\ Fit(exec[f])
      BY <1>1, <2>2 DEF RunInv
    <3>2. /\ lastId \in Nat /\ lastId' \in Nat
          /\ \A i \in 1 .. Len(exec[f].steps) : exec[f].steps[i].id \in Nat
          /\ \A i \in 1 .. Len(exec[f].todo) : exec[f].todo[i].step \in Nat
          /\ \A id \in exec[f].busy : id \in Nat
      BY <3>1, ExecutorParts DEF RunInv, DbTypes
    <3>3. Knows(exec[f])'
      BY <3>1, <3>2 DEF Fit, Knows
    <3>4. Placed(exec[f])'
      BY <3>1 DEF Fit, Placed
    <3> QED
      BY <3>3, <3>4 DEF Fit
  <2> QED
    BY <2>1, <2>2
<1> QED
  BY <1>1, <1>2, <1>3 DEF RunInv, ExecTypes

\* What is said of an executor depends on the tables only.
LEMMA OrderedStays ==
    ASSUME UNCHANGED <<status, hasPlan, rows, stored, restarts>>, NEW x, Ordered(x)
    PROVE  Ordered(x)'
<1>1. (Planned(x) /\ Loaded(x) /\ Writing(x) /\ Passed(x) /\ InGroup(x))'
  <2>1. Planned(x)' /\ Loaded(x)'
    BY DEF Ordered, Planned, Loaded
  <2>2. Writing(x)'
    BY DEF Ordered, Writing, GroupOf
  <2>3. Passed(x)'
    BY DEF Ordered, Passed
  <2>4. InGroup(x)'
    BY DEF Ordered, InGroup, GroupOf
  <2> QED
    BY <2>1, <2>2, <2>3, <2>4
<1>2. (Completing(x) /\ Storing(x))'
  BY DEF Ordered, Completing, AllSettled, Storing, Spent
<1>3. restarts' = 0 => Doing(x)'
  BY DEF Ordered, Doing
<1> QED
  BY <1>1, <1>2, <1>3 DEF Ordered

\* An executor that has nothing to write moves, and only it.
LEMMA QuietMove ==
    ASSUME RunInv, NEW e \in Slots, NEW x \in Executors, Moved(e, x), Fit(x),
           Quiet, exec[e].at # "idle", exec[e].todo = <<>>,
           status \in {"planning", "running"} => Owes(x) \/ ~Owes(exec[e]),
           SoloInv /\ ~overlapped => Ordered(x)
    PROVE  RunInv' /\ (SoloInv => SoloInv')
<1>1. UNCHANGED <<status, hasPlan, rows, lastId, restarts, stored, overlapped>>
  BY DEF Quiet, dbVars, bounds, history
<1>2. lastId' >= lastId
  BY <1>1 DEF RunInv, DbTypes
<1>3. Fit(x)' /\ DbTypes' /\ IdInv'
  BY <1>1 DEF RunInv, DbTypes, IdInv, Fit, Knows, Placed
<1>4. RunInv'
  BY <1>1, <1>2, <1>3, MoveKeepsRunInv DEF Quiet
<1>5. ASSUME SoloInv, ~overlapped
      PROVE  SoloInv'
  <2>1. /\ exec'[e] = x /\ \A f \in Slots \ {e} : exec'[f] = exec[f]
    BY DEF RunInv, ExecTypes, Moved
  <2>2. Alone' /\ \A f \in Slots \ {e} : exec[f].at = "idle"
    BY <1>5, <2>1 DEF SoloInv, Alone
  <2>3. RowsInv' /\ CompletedInv' /\ StoredInv'
    BY <1>1, <1>5, <2>2 DEF SoloInv, RowsInv, PosInv, CompletedInv, AllSettled, StoredInv, Spent
  <2>4. restarts' = 0 => DoneInv'
    BY <1>1, <1>5, <2>1 DEF SoloInv, DoneInv, Undoing
  <2>5. ASSUME NEW f \in Slots
        PROVE  Ordered(exec[f])'
    <3>1. PICK y : y = exec'[f]
      OBVIOUS
    <3>2. Ordered(y)
      BY <1>5, <2>1, <3>1 DEF SoloInv
    <3>3. Ordered(y)'
      BY <1>1, <3>2, OrderedStays
    <3> QED
      BY <3>1, <3>3
  <2> QED
    BY <2>2, <2>3, <2>4, <2>5 DEF SoloInv
<1> QED
  BY <1>1, <1>4, <1>5 DEF SoloInv

LEMMA LocalIsQuiet ==
    ASSUME RunInv, Local
    PROVE  Quiet
  BY DEF RunInv, MemTypes, Local, bounds, history, Quiet

\* An executor that keeps its steps is fit if what it is to write is.
LEMMA FitStays ==
    ASSUME RunInv, NEW e \in Slots, NEW x \in Executors, Kept(x, exec[e]),
           exec[e].at # "grouped" \/ exec[e].busy = {},
           \A i \in 1 .. Len(x.todo) : x.todo[i].step <= lastId,
           x.todo # <<>> => x.at \in WritePlaces,
           x.at \in StepPlaces => exec[e].index <= Len(exec[e].steps),
           x.at = "leaving" => \A i \in 1 .. Len(x.todo) :
               x.todo[i].step = 0 => x.todo[i].to \notin {"planning", "running"}
    PROVE  Fit(x)
<1>1. Fit(exec[e])
  BY DEF RunInv
<1>2. x.busy = {}
  BY <1>1 DEF Fit, Placed, Kept
<1>3. Knows(x)
  BY <1>1, <1>2 DEF Fit, Knows, Kept
<1>4. Placed(x)
  BY <1>2 DEF Placed, Kept
<1> QED
  BY <1>3, <1>4 DEF Fit

\* What is known of one executor, and of its steps in the loop.
LEMMA StepsAreRows ==
    ASSUME RunInv, SoloInv, ~overlapped, NEW e \in Slots, exec[e].at \in LoopPlaces
    PROVE  /\ Len(exec[e].steps) = Cardinality(rows) /\ Cardinality(rows) \in Nat
           /\ \A i \in 1 .. Len(exec[e].steps) : \E r \in rows :
                r.pos = i /\ r.id = exec[e].steps[i].id /\ r.kind = exec[e].steps[i].kind
<1>1. Len(exec[e].steps) = Cardinality(rows)
  BY DEF SoloInv, Ordered, Loaded
<1>2. Cardinality(rows) \in Nat
  BY FS_CardinalityType DEF RunInv, DbTypes
<1>3. \A i \in 1 .. Cardinality(rows) : \E r \in rows : r.pos = i
  BY EveryPositionOccurs DEF RunInv, SoloInv, RowsInv
<1> QED
  BY <1>1, <1>2, <1>3 DEF SoloInv, Ordered, Loaded

\* An executor outside the loop.
LEMMA OrderedOutside ==
    ASSUME NEW x \in Executors, x.at \notin LoopPlaces \cup {"loading", "leaving"},
           x.todo = <<>>, x.index = 1, Planned(x),
           status = "completed" => x.at \in {"idle", "resuming"}
    PROVE  Ordered(x)
<1>1. Loaded(x) /\ Passed(x)
  BY DEF Loaded, Passed, LoopPlaces
<1>2. Writing(x) /\ Completing(x)
  BY DEF Writing, Completing
<1>3. InGroup(x) /\ Storing(x) /\ Doing(x)
  BY DEF InGroup, Storing, Doing, LoopPlaces, StepPlaces
<1> QED
  BY <1>1, <1>2, <1>3 DEF Ordered

\* An executor that stays in the loop, at a single step or interrupted.
LEMMA OrderedInLoop ==
    ASSUME RunInv, SoloInv, ~overlapped, NEW e \in Slots,
           exec[e].at \in LoopPlaces, exec[e].todo = <<>>,
           NEW x \in Executors, Kept(x, exec[e]),
           x.at \in LoopPlaces \ {"loop", "grouped"},
           \A i \in 1 .. Len(x.todo) : x.todo[i].step # 0 =>
               x.todo[i].step = Current(e).id /\ x.todo[i].to \in {"running", "awaiting_approval"},
           \A i \in 1 .. Len(x.todo) : x.todo[i].to # "completed",
           x.at \in StepPlaces => Current(e).kind = "read" \/ Current(e).id \notin stored,
           x.at \in StepPlaces => Current(e).status \notin Settled
    PROVE  Ordered(x)
<1>1. Ordered(exec[e])
  BY DEF SoloInv
<1>2. /\ x.steps = exec[e].steps /\ x.index = exec[e].index
      /\ x.at \notin {"loop", "grouped", "loading", "leaving", "idle", "created", "planning",
                      "batching", "regenerating", "rebatching"}
  BY DEF Kept, LoopPlaces, StepPlaces
<1>3. Planned(x) /\ Loaded(x)
  BY <1>1, <1>2 DEF Ordered, Planned, Loaded, Current
<1>4. Writing(x)
  BY <1>2 DEF Writing, Current
<1>5. Passed(x) /\ InGroup(x)
  BY <1>1, <1>2 DEF Ordered, Passed, InGroup
<1>6. Completing(x)
  <2>1. status # "completed"
    BY <1>1 DEF Ordered, Completing, LoopPlaces, StepPlaces
  <2>2. \A i \in 1 .. Len(x.todo) : x.todo[i] # Run("completed")
    BY DEF Run
  <2> QED
    BY <2>1, <2>2 DEF Completing
<1>7. Storing(x)
  BY <1>1, <1>2 DEF Ordered, Storing, Current
<1>8. restarts = 0 => Doing(x)
  BY <1>1, <1>2 DEF Ordered, Doing
<1> QED
  BY <1>3, <1>4, <1>5, <1>6, <1>7, <1>8 DEF Ordered

\* An executor that goes to its deferred calls.
LEMMA OrderedLeaving ==
    ASSUME NEW x \in Executors, x.at = "leaving",
           \A i \in 1 .. Len(x.todo) : x.todo[i] = Run("completed") => Len(x.todo) = 1 /\ AllSettled,
           status = "completed" => x.todo = <<>>,
           \A i \in 1 .. Len(x.todo) : \A r \in rows : x.todo[i].step = r.id => ~Spent(r),
           \A i \in 1 .. Len(x.todo) : x.todo[i].step # 0 /\ x.todo[i].to = "completed" =>
               i < Len(x.todo) /\ x.todo[i + 1].step = x.todo[i].step /\ x.todo[i + 1].to # "completed"
    PROVE  Ordered(x)
<1>1. Planned(x) /\ Loaded(x)
  BY DEF Planned, Loaded, LoopPlaces, StepPlaces
<1>2. Writing(x)
  BY DEF Writing, StepPlaces
<1>3. Passed(x) /\ InGroup(x)
  BY DEF Passed, InGroup, LoopPlaces, StepPlaces
<1>4. Completing(x)
  BY DEF Completing
<1>5. Storing(x) /\ Doing(x)
  BY DEF Storing, Doing, LoopPlaces, StepPlaces
<1> QED
  BY <1>1, <1>2, <1>3, <1>4, <1>5 DEF Ordered

\* The step that an executor is at, or about to begin, may be executed.
LEMMA CurrentIsUnspent ==
    ASSUME RunInv, SoloInv, ~overlapped, NEW e \in Slots,
           \/ exec[e].at \in StepPlaces
           \/ exec[e].at = "loop" /\ More(e) /\ Current(e).status \notin Settled
    PROVE  /\ Current(e).kind = "read" \/ Current(e).id \notin stored
           /\ Current(e).status \notin Settled
           /\ \A r \in rows : r.id = Current(e).id => ~Spent(r)
<1>1. Ordered(exec[e]) /\ Fit(exec[e]) /\ exec[e] \in Executors /\ exec[e].at \in LoopPlaces
  BY DEF SoloInv, RunInv, ExecTypes, LoopPlaces
<1>2. exec[e].index \in 1 .. Len(exec[e].steps)
  BY <1>1, ExecutorParts DEF Fit, Placed, More
<1>3. PICK s \in rows : s.pos = exec[e].index /\ s.id = Current(e).id /\ s.kind = Current(e).kind
  BY <1>1, <1>2, StepsAreRows DEF Current
<1>4. \A r \in rows : r.id = Current(e).id => r = s
  BY <1>3 DEF RunInv, IdInv
<1>5. s.kind = "read" \/ s.id \notin stored
  <2>1. CASE exec[e].at = "grouped"
    BY <1>1, <1>3, <2>1 DEF Ordered, InGroup, Current
  <2>2. CASE exec[e].at \in StepPlaces \ {"grouped"}
    BY <1>1, <1>3, <2>2 DEF Ordered, Storing, Current
  <2>3. CASE exec[e].at = "loop" /\ Current(e).status \notin Settled
    <3>1. s.pos >= exec[e].index
      BY <1>2, <1>3
    <3> QED
      BY <1>1, <1>3, <2>3, <3>1 DEF Ordered, Storing, Spent, Current
  <2> QED
    BY <2>1, <2>2, <2>3
<1>6. Current(e).status \notin Settled
  BY <1>1 DEF Ordered, Loaded, Current
<1> QED
  BY <1>3, <1>4, <1>5, <1>6 DEF Spent

-----------------------------------------------------------------------------
(***************************************************************************)
(* Steps that only move the executor.                                      *)
(***************************************************************************)

LEMMA OtherWrites ==
    ASSUME NEW w, w.step # 0 \/ w.to # "completed"
    PROVE  w # Run("completed")
  BY DEF Run

\* Sequences of writes.
LEMMA Singles ==
    ASSUME NEW w \in Writes
    PROVE  /\ <<w>> \in Seq(Writes) /\ <<w>> # <<>> /\ Len(<<w>>) = 1
           /\ \A i \in 1 .. Len(<<w>>) : i = 1 /\ <<w>>[i] = w
  OBVIOUS

LEMMA ReadRunKeeps ==
    ASSUME RunInv, NEW e \in Slots, ReadRun(e)
    PROVE  RunInv' /\ (SoloInv => SoloInv')
<1>0. PICK todo : todo = <<>>
  OBVIOUS
<1>1. PICK at \in {"idle", "resetting", "regenerating"} :
        /\ Goes(e, at, todo) /\ (at = "regenerating" => ~hasPlan)
        /\ status = "completed" => at = "idle"
  BY <1>0 DEF ReadRun, Terminal, Goes
<1>2. /\ exec[e].at = "resuming" /\ exec[e].todo = <<>>
      /\ Quiet
  BY LocalIsQuiet DEF ReadRun, At, Local
<1>3. at \in Places /\ todo \in Seq(Writes) /\ ExecTypes /\ Len(<<>>) = 0
  BY <1>0 DEF Places, RunInv
<1>4. PICK x \in Executors : Moved(e, x) /\ x.at = at /\ x.todo = todo /\ Kept(x, exec[e])
  BY <1>1, <1>3, GoesMoves
<1>5. Fit(x)
  BY <1>0, <1>1, <1>2, <1>3, <1>4, FitStays DEF StepPlaces
<1>6. ~Owes(exec[e])
  BY <1>2 DEF Owes, LoopPlaces, StepPlaces
<1>7. ASSUME SoloInv, ~overlapped
      PROVE  Ordered(x)
  <2>1. Ordered(exec[e])
    BY <1>7 DEF SoloInv
  <2>2. x.index = 1
    BY <1>2, <1>4, <2>1 DEF Ordered, Loaded, LoopPlaces, StepPlaces, Kept
  <2>3. Planned(x)
    BY <1>1, <1>4, <1>7 DEF Planned, SoloInv, RowsInv
  <2> QED
    BY <1>0, <1>1, <1>4, <2>2, <2>3, OrderedOutside DEF LoopPlaces, StepPlaces
<1> QED
  BY <1>2, <1>4, <1>5, <1>6, <1>7, QuietMove

\* registerRun
LEMMA RegisterKeeps ==
    ASSUME RunInv, NEW e \in Slots, Register(e)
    PROVE  RunInv' /\ (SoloInv => SoloInv')
<1>0. PICK todo : todo = <<>>
  OBVIOUS
<1>1. PICK at \in {"planning", "starting"} :
        Goes(e, at, todo) /\ (at = "planning" => exec[e].at = "created")
  BY <1>0 DEF Register, At, Goes
<1>2. exec[e].at \in {"created", "registering"} /\ exec[e].todo = <<>>
  BY DEF Register, At
<1>3. Quiet
  BY DEF Register, RunInv, MemTypes, NoAnswer, bounds, history, Quiet
<1>4. at \in Places /\ todo \in Seq(Writes) /\ ExecTypes /\ Len(<<>>) = 0
  BY <1>0 DEF Places, RunInv
<1>5. PICK x \in Executors : Moved(e, x) /\ x.at = at /\ x.todo = todo /\ Kept(x, exec[e])
  BY <1>1, <1>4, GoesMoves
<1>6. Fit(x)
  BY <1>0, <1>1, <1>2, <1>4, <1>5, FitStays DEF StepPlaces
<1>7. Owes(x)
  BY <1>1, <1>5 DEF Owes
<1>8. ASSUME SoloInv, ~overlapped
      PROVE  Ordered(x)
  <2>1. Ordered(exec[e])
    BY <1>8 DEF SoloInv
  <2>2. x.index = 1
    BY <1>2, <1>5, <2>1 DEF Ordered, Loaded, LoopPlaces, StepPlaces, Kept
  <2>3. Planned(x)
    BY <1>1, <1>5, <2>1 DEF Ordered, Planned
  <2>4. status # "completed"
    BY <1>2, <2>1 DEF Ordered, Completing
  <2> QED
    BY <1>0, <1>1, <1>5, <2>2, <2>3, <2>4, OrderedOutside DEF LoopPlaces, StepPlaces
<1> QED
  BY <1>2, <1>3, <1>5, <1>6, <1>7, <1>8, QuietMove

\* The run is about to show as running.
LEMMA BeginKeeps ==
    ASSUME RunInv, NEW e \in Slots, Begin(e)
    PROVE  RunInv' /\ (SoloInv => SoloInv')
<1>1. PICK todo : todo = <<Run("running")>>
  OBVIOUS
<1>2. /\ Goes(e, "loading", todo) /\ exec[e].at = "starting" /\ exec[e].todo = <<>>
      /\ Quiet /\ ExecTypes /\ lastId \in Nat
  BY <1>1, LocalIsQuiet DEF Begin, At, Goes, RunInv, DbTypes
<1>3. /\ todo \in Seq(Writes) /\ Len(todo) = 1
      /\ \A i \in 1 .. Len(todo) : todo[i] = Run("running") /\ todo[i].step = 0 /\ todo[i].to = "running"
  BY <1>1, Singles DEF Run, Writes, RunWrites, Statuses
<1>4. PICK x \in Executors : Moved(e, x) /\ x.at = "loading" /\ x.todo = todo /\ Kept(x, exec[e])
  BY <1>2, <1>3, GoesMoves DEF Places
<1>5. Fit(x)
  <2>1. ASSUME NEW i \in 1 .. Len(x.todo)
        PROVE  x.todo[i].step <= lastId
    <3>1. x.todo[i].step = 0
      BY <1>3, <1>4
    <3> QED
      BY <1>2, <3>1
  <2> QED
    BY <1>2, <1>4, <2>1, FitStays DEF StepPlaces, WritePlaces
<1>6. Owes(x)
  BY <1>4 DEF Owes
<1>7. ASSUME SoloInv, ~overlapped
      PROVE  Ordered(x)
  <2>1. Ordered(exec[e])
    BY <1>7 DEF SoloInv
  <2>2. Cardinality(rows) \in Nat /\ \A r \in rows : r.pos \in Nat \ {0}
    BY FS_CardinalityType DEF RunInv, DbTypes, StepRows
  <2>3. x.index = 1
    BY <1>2, <1>4, <2>1 DEF Ordered, Loaded, LoopPlaces, StepPlaces, Kept
  <2>4. Planned(x) /\ Loaded(x)
    BY <1>4, <2>2, <2>3 DEF Planned, Loaded, LoopPlaces, StepPlaces
  <2>5. Writing(x)
    BY <1>3, <1>4 DEF Writing
  <2>6. Passed(x) /\ InGroup(x)
    BY <1>4, <2>2, <2>3 DEF Passed, InGroup
  <2>7. Completing(x)
    <3>1. status # "completed"
      BY <1>2, <2>1 DEF Ordered, Completing
    <3>2. ASSUME NEW i \in 1 .. Len(x.todo)
          PROVE  x.todo[i] # Run("completed")
      <4>1. x.todo[i].to = "running"
        BY <1>3, <1>4
      <4> QED
        BY <4>1, OtherWrites
    <3> QED
      BY <3>1, <3>2 DEF Completing
  <2>8. Storing(x) /\ Doing(x)
    BY <1>4 DEF Storing, Doing, LoopPlaces, StepPlaces
  <2> QED
    BY <2>4, <2>5, <2>6, <2>7, <2>8 DEF Ordered
<1> QED
  BY <1>2, <1>4, <1>5, <1>6, <1>7, QuietMove

\* The executor stays in the loop with nothing to write.
LEMMA LoopMove ==
    ASSUME RunInv, NEW e \in Slots, Quiet, NEW x \in Executors, Moved(e, x), Kept(x, exec[e]),
           x.at \in {"interrupted", "erred", "repairing"}, x.todo = <<>>,
           exec[e].at \in LoopPlaces, exec[e].todo = <<>>,
           exec[e].at \in StepPlaces \/ x.at = "interrupted",
           exec[e].at = "grouped" => exec[e].busy = {}
    PROVE  RunInv' /\ (SoloInv => SoloInv')
<1>1. Fit(exec[e])
  BY DEF RunInv
<1>2. Len(x.todo) = 0 /\ x.at \in LoopPlaces \ {"loop", "grouped"}
  BY DEF LoopPlaces, StepPlaces
<1>3. Fit(x)
  BY <1>1, <1>2, FitStays DEF Fit, Placed, StepPlaces
<1>4. Owes(x)
  BY <1>2 DEF Owes
<1>5. ASSUME SoloInv, ~overlapped
      PROVE  Ordered(x)
  <2>1. x.at \in StepPlaces =>
          /\ Current(e).kind = "read" \/ Current(e).id \notin stored
          /\ Current(e).status \notin Settled
    BY <1>5, CurrentIsUnspent DEF StepPlaces
  <2> QED
    BY <1>2, <1>5, <2>1, OrderedInLoop
<1>6. exec[e].at # "idle"
  BY DEF LoopPlaces, StepPlaces
<1> QED
  BY <1>3, <1>4, <1>5, <1>6, QuietMove

\* The executor goes to its deferred calls, after what it still has to write.
LEMMA LeavingGoes ==
    ASSUME RunInv, NEW e \in Slots, Quiet, NEW todo \in Seq(Writes), Goes(e, "leaving", todo),
           exec[e].at \notin {"idle", "resuming", "leaving"}, exec[e].todo = <<>>,
           exec[e].at = "grouped" => exec[e].busy = {},
           \A i \in 1 .. Len(todo) : todo[i].step <= lastId,
           \A i \in 1 .. Len(todo) : todo[i].step = 0 => todo[i].to \notin {"planning", "running"},
           status \in {"planning", "running"} => \E i \in 1 .. Len(todo) : todo[i].step = 0,
           SoloInv /\ ~overlapped =>
               /\ \A i \in 1 .. Len(todo) : todo[i] = Run("completed") => Len(todo) = 1 /\ AllSettled
               /\ \A i \in 1 .. Len(todo) : \A r \in rows : todo[i].step = r.id => ~Spent(r)
               /\ \A i \in 1 .. Len(todo) : todo[i].step # 0 /\ todo[i].to = "completed" =>
                    i < Len(todo) /\ todo[i + 1].step = todo[i].step /\ todo[i + 1].to # "completed"
    PROVE  RunInv' /\ (SoloInv => SoloInv')
<1>1. "leaving" \in Places /\ ExecTypes
  BY DEF Places, RunInv
<1>2. PICK x \in Executors : Moved(e, x) /\ x.at = "leaving" /\ x.todo = todo /\ Kept(x, exec[e])
  BY <1>1, GoesMoves
<1>3. Fit(x)
  <2>1. "leaving" \notin StepPlaces /\ "leaving" \in WritePlaces
    BY DEF StepPlaces, WritePlaces
  <2> QED
    BY <1>2, <2>1, FitStays
<1>4. status \in {"planning", "running"} => Owes(x)
  BY <1>2 DEF Owes
<1>5. ASSUME SoloInv, ~overlapped
      PROVE  Ordered(x)
  <2>1. status # "completed"
    BY <1>5 DEF SoloInv, Ordered, Completing
  <2> QED
    BY <1>2, <1>5, <2>1, OrderedLeaving
<1> QED
  BY <1>2, <1>3, <1>4, <1>5, QuietMove

LEMMA LoopInterruptedKeeps ==
    ASSUME RunInv, NEW e \in Slots, LoopInterrupted(e)
    PROVE  RunInv' /\ (SoloInv => SoloInv')
<1>1. PICK todo \in Seq(Writes) : todo = <<>>
  BY EmptySeq
<1>2. PICK at \in {"interrupted"} : Goes(e, at, todo)
  BY <1>1 DEF LoopInterrupted, At, Goes
<1>3. Quiet /\ exec[e].at \in {"loop"} /\ exec[e].todo = <<>> /\ ExecTypes
  BY LocalIsQuiet DEF LoopInterrupted, At, Goes, RunInv
<1>4. at \in Places
  BY DEF Places
<1>5. PICK x \in Executors : Moved(e, x) /\ x.at = at /\ x.todo = todo /\ Kept(x, exec[e])
  BY <1>2, <1>3, <1>4, GoesMoves
<1> QED
  BY <1>1, <1>3, <1>5, LoopMove DEF LoopPlaces, StepPlaces

LEMMA WaitEndsKeeps ==
    ASSUME RunInv, NEW e \in Slots, WaitEnds(e)
    PROVE  RunInv' /\ (SoloInv => SoloInv')
<1>1. PICK todo \in Seq(Writes) : todo = <<>>
  BY EmptySeq
<1>2. PICK at \in {"interrupted", "erred"} : Goes(e, at, todo)
  BY <1>1 DEF WaitEnds, At, Goes
<1>3. Quiet /\ exec[e].at \in {"waiting", "asking"} /\ exec[e].todo = <<>> /\ ExecTypes
  BY LocalIsQuiet DEF WaitEnds, At, Goes, RunInv
<1>4. at \in Places
  BY DEF Places
<1>5. PICK x \in Executors : Moved(e, x) /\ x.at = at /\ x.todo = todo /\ Kept(x, exec[e])
  BY <1>2, <1>3, <1>4, GoesMoves
<1> QED
  BY <1>1, <1>3, <1>5, LoopMove DEF LoopPlaces, StepPlaces

LEMMA ErrKeeps ==
    ASSUME RunInv, NEW e \in Slots, Err(e)
    PROVE  RunInv' /\ (SoloInv => SoloInv')
<1>1. PICK todo \in Seq(Writes) : todo = <<>>
  BY EmptySeq
<1>2. PICK at \in {"erred"} : Goes(e, at, todo)
  BY <1>1 DEF Err, Working, At, Goes
<1>3. Quiet /\ exec[e].at \in {"executing", "calling"} /\ exec[e].todo = <<>> /\ ExecTypes
  BY LocalIsQuiet DEF Err, Working, At, Goes, RunInv
<1>4. at \in Places
  BY DEF Places
<1>5. PICK x \in Executors : Moved(e, x) /\ x.at = at /\ x.todo = todo /\ Kept(x, exec[e])
  BY <1>2, <1>3, <1>4, GoesMoves
<1> QED
  BY <1>1, <1>3, <1>5, LoopMove DEF LoopPlaces, StepPlaces

LEMMA AskRepairKeeps ==
    ASSUME RunInv, NEW e \in Slots, AskRepair(e)
    PROVE  RunInv' /\ (SoloInv => SoloInv')
<1>1. PICK todo \in Seq(Writes) : todo = <<>>
  BY EmptySeq
<1>2. PICK at \in {"repairing"} : Goes(e, at, todo)
  BY <1>1 DEF AskRepair, At, Goes
<1>3. Quiet /\ exec[e].at \in {"erred"} /\ exec[e].todo = <<>> /\ ExecTypes
  BY LocalIsQuiet DEF AskRepair, At, Goes, RunInv
<1>4. at \in Places
  BY DEF Places
<1>5. PICK x \in Executors : Moved(e, x) /\ x.at = at /\ x.todo = todo /\ Kept(x, exec[e])
  BY <1>2, <1>3, <1>4, GoesMoves
<1> QED
  BY <1>1, <1>3, <1>5, LoopMove DEF LoopPlaces, StepPlaces

\* failStepAndRun, from a single step or from a group.
LEMMA FailureKeeps ==
    ASSUME RunInv, NEW e \in Slots, Quiet, NEW todo, todo = Failure(Current(e).id),
           Goes(e, "leaving", todo),
           exec[e].at \in StepPlaces, exec[e].todo = <<>>,
           exec[e].at = "grouped" => exec[e].busy = {}
    PROVE  RunInv' /\ (SoloInv => SoloInv')
<1>1. PICK id : id = Current(e).id
  OBVIOUS
<1>2. /\ exec[e] \in Executors /\ Fit(exec[e]) /\ exec[e].at \in LoopPlaces
      /\ exec[e].index \in 1 .. Len(exec[e].steps)
  <2>1. exec[e] \in Executors /\ Fit(exec[e]) /\ exec[e].at \in LoopPlaces
    BY DEF RunInv, ExecTypes, LoopPlaces
  <2> QED
    BY <2>1, ExecutorParts DEF Fit, Placed
<1>3. id \in Nat \ {0} /\ id <= lastId /\ lastId \in Nat
  BY <1>1, <1>2, ExecutorParts DEF Fit, Knows, Current, RunInv, DbTypes
<1>4. todo = <<Row(id, "completed"), Row(id, "failed"), Run("failed")>>
  BY <1>1 DEF Failure
<1>5. /\ Row(id, "completed") \in Writes /\ Row(id, "failed") \in Writes /\ Run("failed") \in Writes
      /\ Row(id, "completed").step = id /\ Row(id, "failed").step = id /\ Run("failed").step = 0
      /\ Row(id, "completed").to = "completed" /\ Row(id, "failed").to = "failed"
      /\ Run("failed").to = "failed"
  BY <1>3 DEF Row, Run, Writes, RowWrites, RunWrites, StepStatuses, Settled, Statuses, Terminal
<1>6. /\ todo \in Seq(Writes) /\ Len(todo) = 3
      /\ todo[1] = Row(id, "completed") /\ todo[2] = Row(id, "failed") /\ todo[3] = Run("failed")
  BY <1>4, <1>5
<1>7. ASSUME NEW i \in 1 .. Len(todo)
      PROVE  /\ \/ i \in {1, 2} /\ todo[i].step = id
                \/ i = 3 /\ todo[i].step = 0 /\ todo[i].to = "failed"
             /\ todo[i].to = "completed" => i = 1
  <2>1. i = 1 \/ i = 2 \/ i = 3
    BY <1>6
  <2>2. CASE i = 1
    BY <1>5, <1>6, <2>2
  <2>3. CASE i = 2
    BY <1>5, <1>6, <2>3
  <2>4. CASE i = 3
    BY <1>5, <1>6, <2>4
  <2> QED
    BY <2>1, <2>2, <2>3, <2>4
<1>8. \A i \in 1 .. Len(todo) : todo[i] # Run("completed")
  BY <1>3, <1>7, OtherWrites
<1>9. ASSUME SoloInv, ~overlapped, NEW i \in 1 .. Len(todo), NEW r \in rows, todo[i].step = r.id
      PROVE  ~Spent(r)
  <2>1. r.id # 0
    BY DEF RunInv, DbTypes, StepRows
  <2>2. r.id = Current(e).id
    BY <1>1, <1>7, <1>9, <2>1
  <2> QED
    BY <1>9, <2>2, CurrentIsUnspent
<1>10. todo[2].step = todo[1].step /\ todo[2].to # "completed"
  BY <1>5, <1>6
<1>11. \A i \in 1 .. Len(todo) : todo[i].to = "completed" =>
         i < Len(todo) /\ todo[i + 1].step = todo[i].step /\ todo[i + 1].to # "completed"
  BY <1>6, <1>7, <1>10
<1>12. \A i \in 1 .. Len(todo) : todo[i].step <= lastId
  BY <1>3, <1>7
<1>13. /\ \A i \in 1 .. Len(todo) : todo[i].step = 0 => todo[i].to \notin {"planning", "running"}
       /\ \E i \in 1 .. Len(todo) : todo[i].step = 0
  BY <1>3, <1>5, <1>6, <1>7
<1> QED
  BY <1>2, <1>6, <1>8, <1>9, <1>11, <1>12, <1>13, LeavingGoes DEF LoopPlaces, StepPlaces

LEMMA FailStepAndRunKeeps ==
    ASSUME RunInv, NEW e \in Slots, FailStepAndRun(e)
    PROVE  RunInv' /\ (SoloInv => SoloInv')
<1>1. PICK todo : todo = Failure(Current(e).id)
  OBVIOUS
<1>2. Quiet /\ Goes(e, "leaving", todo) /\ exec[e].at \in {"erred", "repairing"} /\ exec[e].todo = <<>>
  BY <1>1, LocalIsQuiet DEF FailStepAndRun, At, Goes
<1> QED
  BY <1>1, <1>2, FailureKeeps DEF StepPlaces

\* Two writes.
LEMMA Pairs ==
    ASSUME NEW v \in Writes, NEW w \in Writes
    PROVE  /\ <<v, w>> \in Seq(Writes) /\ <<v, w>> # <<>> /\ Len(<<v, w>>) = 2
           /\ \A i \in 1 .. Len(<<v, w>>) : (i = 1 /\ <<v, w>>[i] = v) \/ (i = 2 /\ <<v, w>>[i] = w)
<1>1. <<v, w>>[1] = v /\ <<v, w>>[2] = w /\ Len(<<v, w>>) = 2
  OBVIOUS
<1>2. \A i \in 1 .. 2 : i = 1 \/ i = 2
  OBVIOUS
<1> QED
  BY <1>1, <1>2

\* What is written of a step and of the run.
LEMMA RowWrite ==
    ASSUME NEW id \in Nat \ {0}, NEW to \in StepStatuses
    PROVE  /\ Row(id, to) \in Writes /\ Row(id, to).step = id /\ Row(id, to).to = to
           /\ Row(id, to) # Run("completed")
  BY DEF Row, Run, Writes, RowWrites

LEMMA RunWrite ==
    ASSUME NEW to \in Statuses \ {"absent"}
    PROVE  /\ Run(to) \in Writes /\ Run(to).step = 0 /\ Run(to).to = to
           /\ to # "completed" => Run(to) # Run("completed")
  BY DEF Run, Writes, RunWrites

\* The step that an executor is at.
LEMMA CurrentStep ==
    ASSUME RunInv, NEW e \in Slots, exec[e].at \in StepPlaces \/ More(e)
    PROVE  /\ exec[e] \in Executors /\ Fit(exec[e]) /\ lastId \in Nat
           /\ exec[e].index \in 1 .. Len(exec[e].steps) /\ Current(e) \in StepRows
           /\ Current(e).id \in Nat \ {0} /\ Current(e).id <= lastId
<1>1. exec[e] \in Executors /\ Fit(exec[e]) /\ lastId \in Nat
  BY DEF RunInv, ExecTypes, DbTypes
<1>2. exec[e].index \in 1 .. Len(exec[e].steps)
  BY <1>1, ExecutorParts DEF Fit, Placed, More
<1> QED
  BY <1>1, <1>2, ExecutorParts DEF Fit, Knows, Current

\* The executor begins a single step, or goes on with it.
LEMMA StepMove ==
    ASSUME RunInv, NEW e \in Slots, Quiet, NEW x \in Executors, Moved(e, x), Kept(x, exec[e]),
           x.at \in {"waiting", "executing", "asking", "calling"},
           \A i \in 1 .. Len(x.todo) :
               \/ x.todo[i].step = Current(e).id /\ x.todo[i].to \in {"running", "awaiting_approval"}
               \/ x.todo[i].step = 0 /\ x.todo[i].to # "completed",
           exec[e].todo = <<>>, exec[e].at # "grouped",
           \/ exec[e].at \in StepPlaces
           \/ exec[e].at = "loop" /\ More(e) /\ Current(e).status \notin Settled
    PROVE  RunInv' /\ (SoloInv => SoloInv')
<1>1. /\ x.at \in LoopPlaces \ {"loop", "grouped"} /\ x.at # "leaving"
      /\ x.at \in WritePlaces /\ exec[e].at # "idle" /\ exec[e].at \in LoopPlaces
  BY DEF LoopPlaces, StepPlaces, WritePlaces
<1>2. /\ lastId \in Nat /\ Current(e).id <= lastId /\ Current(e).id # 0
      /\ exec[e].index <= Len(exec[e].steps)
  BY CurrentStep
<1>3. Fit(x)
  BY <1>1, <1>2, FitStays
<1>4. Owes(x)
  BY <1>1 DEF Owes
<1>5. ASSUME SoloInv, ~overlapped
      PROVE  Ordered(x)
  <2>1. /\ Current(e).kind = "read" \/ Current(e).id \notin stored
        /\ Current(e).status \notin Settled
    BY <1>5, CurrentIsUnspent
  <2>2. \A i \in 1 .. Len(x.todo) : x.todo[i].to # "completed"
    OBVIOUS
  <2>3. \A i \in 1 .. Len(x.todo) : x.todo[i].step # 0 =>
          x.todo[i].step = Current(e).id /\ x.todo[i].to \in {"running", "awaiting_approval"}
    OBVIOUS
  <2> QED
    BY <1>1, <1>5, <2>1, <2>2, <2>3, OrderedInLoop
<1> QED
  BY <1>1, <1>3, <1>4, <1>5, QuietMove

LEMMA BeginStepKeeps ==
    ASSUME RunInv, NEW e \in Slots, BeginStep(e)
    PROVE  RunInv' /\ (SoloInv => SoloInv')
<1>1. /\ Quiet /\ exec[e].at = "loop" /\ exec[e].todo = <<>> /\ More(e)
      /\ Current(e).status \notin Settled /\ exec \in [Slots -> Executors]
  BY LocalIsQuiet DEF BeginStep, Ready, At, RunInv, ExecTypes
<1>2. exec[e] \in Executors /\ Current(e).id \in Nat \ {0}
  BY <1>1, CurrentStep
<1>3. PICK todo : todo = <<Row(Current(e).id, "running")>>
  OBVIOUS
<1>4. "running" \in StepStatuses /\ "executing" \in Places
  BY DEF StepStatuses, Places
<1>5. /\ todo \in Seq(Writes)
      /\ \A i \in 1 .. Len(todo) : todo[i].step = Current(e).id /\ todo[i].to = "running"
  BY <1>2, <1>3, <1>4, RowWrite, Singles
<1>6. PICK x : x = [exec[e] EXCEPT !.at = "executing", !.attempt = 0, !.todo = todo]
  OBVIOUS
<1>7. /\ x \in Executors /\ x.at = "executing" /\ x.todo = todo /\ Kept(x, exec[e])
  BY <1>2, <1>4, <1>5, <1>6 DEF Executors, Kept
<1>8. Moved(e, x)
  BY <1>1, <1>2, <1>3, <1>6 DEF BeginStep, Moved, Executors
<1> QED
  BY <1>1, <1>5, <1>7, <1>8, StepMove

LEMMA RetryKeeps ==
    ASSUME RunInv, NEW e \in Slots, Retry(e)
    PROVE  RunInv' /\ (SoloInv => SoloInv')
<1>1. Quiet /\ exec[e].at = "erred" /\ exec[e].todo = <<>> /\ exec \in [Slots -> Executors]
  BY LocalIsQuiet DEF Retry, At, RunInv, ExecTypes
<1>2. "executing" \in Places /\ exec[e] \in Executors
  BY <1>1 DEF Places
<1>3. PICK n \in Nat : n = exec[e].attempt + 1
  BY <1>2 DEF Executors
<1>4. PICK x : x = [exec[e] EXCEPT !.at = "executing", !.attempt = n]
  OBVIOUS
<1>5. x \in Executors /\ x.at = "executing" /\ x.todo = <<>> /\ Kept(x, exec[e])
  <2>1. x \in Executors
    BY <1>2, <1>4 DEF Executors
  <2>2. x.at = "executing" /\ x.todo = exec[e].todo /\ Kept(x, exec[e])
    BY <1>2, <1>4 DEF Executors, Kept
  <2> QED
    BY <1>1, <2>1, <2>2
<1>6. Moved(e, x)
  BY <1>1, <1>2, <1>3, <1>4 DEF Retry, Moved, Executors
<1>7. Len(x.todo) = 0
  BY <1>5
<1> QED
  BY <1>1, <1>5, <1>6, <1>7, StepMove DEF StepPlaces

LEMMA AskKeeps ==
    ASSUME RunInv, NEW e \in Slots, Ask(e)
    PROVE  RunInv' /\ (SoloInv => SoloInv')
<1>1. PICK todo : todo = <<Row(Current(e).id, "awaiting_approval"), Run("awaiting_approval")>>
  OBVIOUS
<1>2. PICK at \in {"waiting", "asking"} : Goes(e, at, todo)
  BY <1>1 DEF Ask, Goes
<1>3. /\ Quiet /\ exec[e].todo = <<>> /\ ExecTypes
      /\ \/ exec[e].at = "executing"
         \/ exec[e].at = "loop" /\ More(e) /\ Current(e).status \notin Settled
  BY LocalIsQuiet DEF Ask, Ready, At, RunInv
<1>4. exec[e].at \in StepPlaces \/ (exec[e].at = "loop" /\ More(e) /\ Current(e).status \notin Settled)
  BY <1>3 DEF StepPlaces
<1>5. Current(e).id \in Nat \ {0}
  BY <1>4, CurrentStep
<1>6. /\ "awaiting_approval" \in StepStatuses /\ "awaiting_approval" \in Statuses \ {"absent"}
      /\ at \in Places
  BY DEF StepStatuses, Statuses, Places
<1>7. /\ todo \in Seq(Writes)
      /\ \A i \in 1 .. Len(todo) :
           \/ todo[i].step = Current(e).id /\ todo[i].to = "awaiting_approval"
           \/ todo[i].step = 0 /\ todo[i].to # "completed"
  BY <1>1, <1>5, <1>6, RowWrite, RunWrite, Pairs
<1>8. PICK x \in Executors : Moved(e, x) /\ x.at = at /\ x.todo = todo /\ Kept(x, exec[e])
  BY <1>2, <1>3, <1>6, <1>7, GoesMoves
<1> QED
  BY <1>3, <1>4, <1>7, <1>8, StepMove

\* The executor passes its step, which it skips or which is done.
LEMMA PassMove ==
    ASSUME RunInv, NEW e \in Slots, Quiet, NEW x \in Executors, Moved(e, x),
           x.at = "loop", x.steps = exec[e].steps, x.index = exec[e].index + 1,
           x.busy = exec[e].busy, exec[e].todo = <<>>,
           exec[e].at \in (StepPlaces \ {"grouped"}) \cup {"loop"}, More(e),
           \A i \in 1 .. Len(x.todo) :
               \/ i = 1 /\ x.todo[i] = Row(Current(e).id, "completed")
               \/ x.todo[i].step = 0 /\ x.todo[i].to # "completed",
           \/ exec[e].at = "loop" /\ Current(e).status \in Settled
           \/ x.todo # <<>> /\ x.todo[1] = Row(Current(e).id, "completed")
    PROVE  RunInv' /\ (SoloInv => SoloInv')
<1>1. /\ exec[e] \in Executors /\ Fit(exec[e]) /\ lastId \in Nat
      /\ exec[e].index \in 1 .. Len(exec[e].steps)
      /\ Current(e).id \in Nat \ {0} /\ Current(e).id <= lastId
  BY CurrentStep
<1>2. /\ exec[e].at \in LoopPlaces /\ exec[e].at # "grouped" /\ exec[e].at # "idle"
      /\ exec[e].at # "leaving" /\ exec[e].at # "loading"
  BY DEF LoopPlaces, StepPlaces
<1>3. /\ Row(Current(e).id, "completed").step = Current(e).id
      /\ Row(Current(e).id, "completed") # Run("completed")
  BY <1>1, RowWrite DEF StepStatuses, Settled
<1>4. Fit(x)
  <2>1. Knows(x)
    BY <1>1, <1>3 DEF Fit, Knows
  <2>2. Placed(x)
    BY <1>1, <1>2 DEF Fit, Placed, StepPlaces, WritePlaces
  <2> QED
    BY <2>1, <2>2 DEF Fit
<1>5. Owes(x)
  BY DEF Owes, LoopPlaces
<1>6. ASSUME SoloInv, ~overlapped
      PROVE  Ordered(x)
  <2>1. Ordered(exec[e]) /\ Len(exec[e].steps) = Cardinality(rows)
    BY <1>2, <1>6, StepsAreRows DEF SoloInv
  <2>2. \A r \in rows : r.pos \in Nat /\ exec[e].index \in Nat /\ Cardinality(rows) \in Nat
    BY <1>1, FS_CardinalityType DEF RunInv, DbTypes, StepRows
  <2>3. Planned(x)
    BY DEF Planned
  <2>4. Loaded(x)
    <3>1. x.at \notin StepPlaces /\ x.at \in LoopPlaces
      BY DEF StepPlaces, LoopPlaces
    <3>2. /\ Len(x.steps) = Cardinality(rows) /\ x.index <= Cardinality(rows) + 1
          /\ \A r \in rows : x.steps[r.pos].id = r.id /\ x.steps[r.pos].kind = r.kind
      <4>1. exec[e].index <= Cardinality(rows) /\ exec[e].index \in Nat /\ Cardinality(rows) \in Nat
        BY <1>1, <2>1, FS_CardinalityType DEF RunInv, DbTypes
      <4> QED
        BY <1>2, <2>1, <4>1 DEF Ordered, Loaded
    <3>3. \A r \in rows : r.pos >= x.index /\ x.steps[r.pos].status \in Settled =>
            r.status = x.steps[r.pos].status
      BY <1>2, <2>1, <2>2 DEF Ordered, Loaded
    <3> QED
      BY <3>1, <3>2, <3>3 DEF Loaded
  <2>5. Writing(x)
    <3>1. ASSUME NEW i \in 1 .. Len(x.todo), x.todo[i].step # 0
          PROVE  i = 1 /\ x.index > 1 /\ x.todo[i] = Row(x.steps[x.index - 1].id, "completed")
      <4>1. x.index - 1 = exec[e].index /\ x.index > 1
        BY <1>1
      <4> QED
        BY <3>1, <4>1 DEF Current
    <3> QED
      BY <3>1 DEF Writing, StepPlaces
  <2>6. Passed(x)
    <3>1. ASSUME NEW r \in rows, r.pos < x.index
          PROVE  r.status \in Settled \/ (x.todo # <<>> /\ x.todo[1] = Row(r.id, "completed"))
      <4>1. CASE r.pos < exec[e].index
        BY <1>2, <2>1, <4>1 DEF Ordered, Passed
      <4>2. CASE r.pos = exec[e].index
        <5>1. r.id = Current(e).id
          BY <1>2, <2>1, <4>2 DEF Ordered, Loaded, Current
        <5>2. Current(e).status \in Settled => r.status \in Settled
          BY <1>1, <1>2, <2>1, <4>2 DEF Ordered, Loaded, Current
        <5> QED
          BY <5>1, <5>2
      <4> QED
        BY <1>1, <2>2, <3>1, <4>1, <4>2
    <3> QED
      BY <3>1 DEF Passed
  <2>7. InGroup(x)
    BY DEF InGroup
  <2>8. Completing(x)
    <3>1. status # "completed"
      BY <1>2, <2>1 DEF Ordered, Completing, LoopPlaces, StepPlaces
    <3>2. ASSUME NEW i \in 1 .. Len(x.todo)
          PROVE  x.todo[i] # Run("completed")
      BY <1>3, OtherWrites
    <3> QED
      BY <3>1, <3>2 DEF Completing
  <2>9. Storing(x)
    BY <1>1, <1>2, <2>1, <2>2 DEF Ordered, Storing, StepPlaces
  <2>10. restarts = 0 => Doing(x)
    BY <1>1, <1>2, <2>1, <2>2 DEF Ordered, Doing
  <2> QED
    BY <2>3, <2>4, <2>5, <2>6, <2>7, <2>8, <2>9, <2>10 DEF Ordered
<1> QED
  BY <1>2, <1>4, <1>5, <1>6, QuietMove

LEMMA SkipKeeps ==
    ASSUME RunInv, NEW e \in Slots, Skip(e)
    PROVE  RunInv' /\ (SoloInv => SoloInv')
<1>1. /\ Quiet /\ exec[e].at = "loop" /\ exec[e].todo = <<>> /\ More(e)
      /\ Current(e).status \in Settled /\ exec \in [Slots -> Executors] /\ exec[e] \in Executors
  BY LocalIsQuiet DEF Skip, Ready, At, RunInv, ExecTypes
<1>2. PICK n \in Nat \ {0} : n = exec[e].index + 1
  BY <1>1 DEF Executors
<1>3. PICK x : x = [exec[e] EXCEPT !.index = n]
  OBVIOUS
<1>4. /\ x \in Executors /\ x.at = exec[e].at /\ x.steps = exec[e].steps /\ x.index = n
      /\ x.busy = exec[e].busy /\ x.todo = exec[e].todo
  BY <1>1, <1>3 DEF Executors
<1>5. Moved(e, x)
  BY <1>1, <1>2, <1>3 DEF Skip, Moved, Executors
<1>6. Len(x.todo) = 0
  BY <1>1, <1>4
<1> QED
  BY <1>1, <1>2, <1>4, <1>5, <1>6, PassMove

LEMMA SucceedKeeps ==
    ASSUME RunInv, NEW e \in Slots, Succeed(e)
    PROVE  RunInv' /\ (SoloInv => SoloInv')
<1>1. /\ Quiet /\ exec[e].at \in {"calling", "executing"} /\ exec[e].todo = <<>>
      /\ exec \in [Slots -> Executors] /\ exec[e] \in Executors
  BY LocalIsQuiet DEF Succeed, Working, At, RunInv, ExecTypes
<1>2. exec[e].at \in StepPlaces \ {"grouped"}
  BY <1>1 DEF StepPlaces
<1>3. More(e) /\ Current(e).id \in Nat \ {0}
  BY <1>2, CurrentStep DEF More
<1>4. PICK n \in Nat \ {0} : n = exec[e].index + 1
  BY <1>1 DEF Executors
<1>5. PICK todo : todo = <<Row(Current(e).id, "completed")>>
  OBVIOUS
<1>6. "completed" \in StepStatuses /\ "loop" \in Places
  BY DEF StepStatuses, Settled, Places
<1>7. /\ todo \in Seq(Writes) /\ todo # <<>> /\ Len(todo) = 1
      /\ \A i \in 1 .. Len(todo) : i = 1 /\ todo[i] = Row(Current(e).id, "completed")
  BY <1>3, <1>5, <1>6, RowWrite, Singles
<1>8. PICK x : x = [exec[e] EXCEPT !.at = "loop", !.index = n, !.todo = todo]
  OBVIOUS
<1>9. /\ x \in Executors /\ x.at = "loop" /\ x.steps = exec[e].steps /\ x.index = n
      /\ x.busy = exec[e].busy /\ x.todo = todo
  BY <1>1, <1>6, <1>7, <1>8 DEF Executors
<1>10. Moved(e, x)
  BY <1>1, <1>4, <1>5, <1>8 DEF Succeed, Moved, Executors
<1>11. todo[1] = Row(Current(e).id, "completed")
  BY <1>7
<1> QED
  BY <1>1, <1>2, <1>3, <1>4, <1>7, <1>9, <1>10, <1>11, PassMove

LEMMA FinishKeeps ==
    ASSUME RunInv, NEW e \in Slots, Finish(e)
    PROVE  RunInv' /\ (SoloInv => SoloInv')
<1>1. PICK todo : todo = <<Run("completed")>>
  OBVIOUS
<1>2. Quiet /\ Goes(e, "leaving", todo) /\ exec[e].at = "loop" /\ exec[e].todo = <<>> /\ ~More(e)
  BY <1>1, LocalIsQuiet DEF Finish, At, Goes
<1>3. "completed" \in Statuses \ {"absent"} /\ lastId \in Nat /\ exec[e] \in Executors
  BY DEF Statuses, Terminal, RunInv, DbTypes, ExecTypes
<1>4. Run("completed") \in Writes /\ Run("completed").step = 0 /\ Run("completed").to = "completed"
  BY <1>3, RunWrite
<1>5. /\ todo \in Seq(Writes) /\ Len(todo) = 1
      /\ \A i \in 1 .. Len(todo) : i = 1 /\ todo[i] = Run("completed")
  BY <1>1, <1>4, Singles
<1>6. /\ \A i \in 1 .. Len(todo) : todo[i].step = 0 /\ todo[i].step <= lastId /\ todo[i].to = "completed"
      /\ \E i \in 1 .. Len(todo) : todo[i].step = 0
  BY <1>3, <1>4, <1>5
<1>7. ASSUME SoloInv, ~overlapped
      PROVE  AllSettled
  <2>1. Ordered(exec[e]) /\ Len(exec[e].steps) = Cardinality(rows) /\ exec[e].at \in LoopPlaces
    BY <1>2, <1>7, StepsAreRows DEF SoloInv, LoopPlaces
  <2>2. exec[e].index > Cardinality(rows) /\ exec[e].index \in Nat /\ Cardinality(rows) \in Nat
    BY <1>2, <1>3, <2>1, ExecutorParts, FS_CardinalityType DEF More, RunInv, DbTypes
  <2>3. \A r \in rows : r.pos < exec[e].index
    BY <1>7, <2>2 DEF SoloInv, RowsInv, PosInv, RunInv, DbTypes, StepRows
  <2> QED
    BY <1>2, <2>1, <2>3 DEF Ordered, Passed, AllSettled
<1>8. \A r \in rows : r.id # 0
  BY DEF RunInv, DbTypes, StepRows
<1>9. exec[e].at \in LoopPlaces
  BY <1>2 DEF LoopPlaces
<1> QED
  BY <1>2, <1>5, <1>6, <1>7, <1>8, <1>9, LeavingGoes DEF LoopPlaces, StepPlaces

LEMMA FinishInterruptedKeeps ==
    ASSUME RunInv, NEW e \in Slots, FinishInterrupted(e)
    PROVE  RunInv' /\ (SoloInv => SoloInv')
<1>1. Quiet /\ exec[e].at = "interrupted" /\ exec[e].todo = <<>> /\ lastId \in Nat
  BY LocalIsQuiet DEF FinishInterrupted, At, RunInv, DbTypes
<1>2. exec[e].at \in LoopPlaces
  BY <1>1 DEF LoopPlaces
<1>3. CASE status \in {"paused", "cancelled"}
  <2>1. PICK todo \in Seq(Writes) : todo = <<>> /\ Goes(e, "leaving", todo)
    BY <1>3, EmptySeq DEF FinishInterrupted, Goes
  <2>2. Goes(e, "leaving", todo) /\ \A i \in 1 .. Len(todo) : FALSE
    BY <2>1
  <2> QED
    BY <1>1, <1>2, <1>3, <2>2, LeavingGoes DEF LoopPlaces, StepPlaces
<1>4. CASE status \notin {"paused", "cancelled"}
  <2>1. PICK to \in {"failed", "paused"} : to = IF ctx[e] = "expired" THEN "failed" ELSE "paused"
    OBVIOUS
  <2>2. PICK todo : todo = <<Run(to)>>
    OBVIOUS
  <2>3. Goes(e, "leaving", todo)
    BY <1>4, <2>1, <2>2 DEF FinishInterrupted, Goes
  <2>4. to \in Statuses \ {"absent"}
    BY DEF Statuses, Terminal
  <2>5. Run(to) \in Writes /\ Run(to).step = 0 /\ Run(to).to = to /\ Run(to) # Run("completed")
    BY <2>4, RunWrite
  <2>6. /\ todo \in Seq(Writes) /\ Len(todo) = 1
        /\ \A i \in 1 .. Len(todo) : i = 1 /\ todo[i] = Run(to)
    BY <2>2, <2>5, Singles
  <2>7. /\ \A i \in 1 .. Len(todo) : /\ todo[i].step = 0 /\ todo[i].step <= lastId
                                     /\ todo[i].to = to /\ todo[i] # Run("completed")
        /\ \E i \in 1 .. Len(todo) : todo[i].step = 0
    BY <1>1, <2>5, <2>6
  <2>8. \A r \in rows : r.id # 0
    BY DEF RunInv, DbTypes, StepRows
  <2> QED
    BY <1>1, <1>2, <2>3, <2>6, <2>7, <2>8, LeavingGoes DEF LoopPlaces, StepPlaces
<1> QED
  BY <1>3, <1>4

\* The deferred calls.
LEMMA LeaveKeeps ==
    ASSUME RunInv, NEW e \in Slots, Leave(e)
    PROVE  RunInv' /\ (SoloInv => SoloInv')
<1>1. PICK x : x = NoExecutor
  OBVIOUS
<1>2. x \in Executors /\ x.at = "idle" /\ x.todo = <<>> /\ x.steps = <<>> /\ x.index = 1 /\ x.busy = {}
  BY <1>1 DEF NoExecutor, Executors, Places
<1>3. Moved(e, x) /\ exec[e].at = "leaving" /\ exec[e].todo = <<>>
  BY <1>1 DEF Leave, Moved, At
<1>4. Quiet
  BY DEF Leave, RunInv, MemTypes, NoAnswer, Quiet, bounds, history
<1>5. Len(x.todo) = 0 /\ Len(x.steps) = 0 /\ Len(exec[e].todo) = 0
  BY <1>2, <1>3
<1>6. Fit(x)
  BY <1>2, <1>5 DEF Fit, Knows, Placed, StepPlaces
<1>7. ~Owes(exec[e])
  BY <1>3, <1>5 DEF Owes, LoopPlaces, StepPlaces
<1>8. Ordered(x)
  BY <1>2, OrderedOutside DEF LoopPlaces, StepPlaces, Planned
<1> QED
  BY <1>2, <1>3, <1>4, <1>6, <1>7, <1>8, QuietMove

\* waitForApproval receives an answer.
LEMMA AnsweredKeeps ==
    ASSUME RunInv, NEW e \in Slots, Answered(e)
    PROVE  RunInv' /\ (SoloInv => SoloInv')
<1>1. /\ exec[e].at \in {"waiting", "asking"} /\ exec[e].todo = <<>>
      /\ exec \in [Slots -> Executors] /\ exec[e] \in Executors /\ ExecTypes
  BY DEF Answered, At, RunInv, ExecTypes
<1>2. Quiet
  BY DEF Answered, RunInv, MemTypes, NoAnswer, Quiet, bounds, history
<1>3. exec[e].at \in StepPlaces \ {"grouped"} /\ exec[e].at \in LoopPlaces
  BY <1>1 DEF StepPlaces, LoopPlaces
<1>4. PICK id : id = Current(e).id
  OBVIOUS
<1>5. /\ id \in Nat \ {0} /\ id <= lastId /\ lastId \in Nat /\ More(e)
      /\ exec[e].index \in Nat
  BY <1>3, <1>4, CurrentStep DEF More
<1>6. /\ {"completed", "skipped", "running"} \subseteq StepStatuses
      /\ {"running", "cancelled"} \subseteq Statuses \ {"absent"}
      /\ {"loop", "leaving", "calling"} \subseteq Places
  BY DEF StepStatuses, Settled, Statuses, Terminal, Places
<1>7. /\ \A to \in {"completed", "skipped", "running"} :
           Row(id, to) \in Writes /\ Row(id, to).step = id /\ Row(id, to).to = to
      /\ \A to \in {"running", "cancelled"} :
           Run(to) \in Writes /\ Run(to).step = 0 /\ Run(to).to = to
  BY <1>5, <1>6, RowWrite, RunWrite
<1>8. \A r \in rows : r.id # 0
  BY DEF RunInv, DbTypes, StepRows
<1>9. SoloInv /\ ~overlapped => \A r \in rows : r.id = id => ~Spent(r)
  BY <1>3, <1>4, CurrentIsUnspent
<1>10. \/ exec' = [exec EXCEPT ![e].at = "loop", ![e].index = @ + 1,
                               ![e].todo = <<Row(id, "completed"), Run("running")>>]
       \/ Goes(e, "leaving", <<Row(id, "skipped"), Run("cancelled")>>)
       \/ Goes(e, "calling", <<Row(id, "running"), Run("running")>>)
       \/ Goes(e, "leaving", Rejection(id))
  BY <1>4 DEF Answered, Goes
<1>11. CASE exec' = [exec EXCEPT ![e].at = "loop", ![e].index = @ + 1,
                                 ![e].todo = <<Row(id, "completed"), Run("running")>>]
  <2>1. PICK n \in Nat \ {0} : n = exec[e].index + 1
    BY <1>5
  <2>2. PICK todo : todo = <<Row(id, "completed"), Run("running")>>
    OBVIOUS
  <2>3. /\ todo \in Seq(Writes) /\ todo # <<>> /\ Len(todo) = 2
        /\ todo[1] = Row(id, "completed") /\ todo[2] = Run("running")
        /\ \A i \in 1 .. Len(todo) :
             \/ i = 1 /\ todo[i] = Row(id, "completed")
             \/ todo[i].step = 0 /\ todo[i].to # "completed"
    BY <1>7, <2>2, Pairs
  <2>4. PICK x : x = [exec[e] EXCEPT !.at = "loop", !.index = n, !.todo = todo]
    OBVIOUS
  <2>5. /\ x \in Executors /\ x.at = "loop" /\ x.steps = exec[e].steps /\ x.index = n
        /\ x.busy = exec[e].busy /\ x.todo = todo
    BY <1>1, <1>6, <2>3, <2>4 DEF Executors
  <2>6. Moved(e, x)
    BY <1>1, <1>11, <2>1, <2>2, <2>4 DEF Moved, Executors
  <2> QED
    BY <1>1, <1>2, <1>3, <1>4, <1>5, <2>1, <2>3, <2>5, <2>6, PassMove
<1>12. CASE Goes(e, "calling", <<Row(id, "running"), Run("running")>>)
  <2>1. PICK todo : todo = <<Row(id, "running"), Run("running")>>
    OBVIOUS
  <2>2. Goes(e, "calling", todo)
    BY <1>12, <2>1
  <2>3. /\ todo \in Seq(Writes)
        /\ \A i \in 1 .. Len(todo) :
             \/ todo[i].step = id /\ todo[i].to = "running"
             \/ todo[i].step = 0 /\ todo[i].to # "completed"
    BY <1>7, <2>1, Pairs
  <2>4. PICK x \in Executors : Moved(e, x) /\ x.at = "calling" /\ x.todo = todo /\ Kept(x, exec[e])
    BY <1>1, <1>6, <2>2, <2>3, GoesMoves
  <2> QED
    BY <1>1, <1>2, <1>3, <1>4, <2>3, <2>4, StepMove
<1>13. CASE Goes(e, "leaving", <<Row(id, "skipped"), Run("cancelled")>>)
  <2>1. PICK todo : todo = <<Row(id, "skipped"), Run("cancelled")>>
    OBVIOUS
  <2>2. Goes(e, "leaving", todo)
    BY <1>13, <2>1
  <2>3. /\ todo \in Seq(Writes) /\ Len(todo) = 2 /\ todo[2] = Run("cancelled")
        /\ \A i \in 1 .. Len(todo) :
             \/ todo[i].step = id /\ todo[i].to = "skipped"
             \/ todo[i].step = 0 /\ todo[i].to = "cancelled"
    BY <1>7, <2>1, Pairs
  <2>4. \A i \in 1 .. Len(todo) : todo[i] # Run("completed") /\ todo[i].to # "completed"
    BY <2>3, OtherWrites
  <2>5. /\ \A i \in 1 .. Len(todo) : todo[i].step <= lastId
        /\ \A i \in 1 .. Len(todo) : todo[i].step = 0 => todo[i].to \notin {"planning", "running"}
        /\ \E i \in 1 .. Len(todo) : todo[i].step = 0
    BY <1>5, <1>7, <2>3
  <2>6. SoloInv /\ ~overlapped =>
          \A i \in 1 .. Len(todo) : \A r \in rows : todo[i].step = r.id => ~Spent(r)
    BY <1>8, <1>9, <2>3
  <2> QED
    BY <1>1, <1>2, <1>3, <2>2, <2>3, <2>4, <2>5, <2>6, LeavingGoes DEF LoopPlaces, StepPlaces
<1>14. CASE Goes(e, "leaving", Rejection(id))
  <2>1. PICK todo : todo = Rejection(id)
    OBVIOUS
  <2>2. Goes(e, "leaving", todo)
    BY <1>14, <2>1
  <2>3. /\ todo \in Seq(Writes) /\ Len(todo) = 5
        /\ todo[1] = Row(id, "skipped") /\ todo[2] = Run("cancelled") /\ todo[3] = Row(id, "completed")
        /\ todo[4] = Row(id, "skipped") /\ todo[5] = Run("cancelled")
    BY <1>7, <2>1 DEF Rejection
  <2>4. ASSUME NEW i \in 1 .. Len(todo)
        PROVE  \/ todo[i].step = id /\ (todo[i].to = "skipped" \/ i = 3)
               \/ todo[i].step = 0 /\ todo[i].to = "cancelled"
    <3>1. i = 1 \/ i = 2 \/ i = 3 \/ i = 4 \/ i = 5
      BY <2>3
    <3> QED
      BY <1>7, <2>3, <3>1
  <2>5. \A i \in 1 .. Len(todo) : todo[i] # Run("completed")
    BY <1>5, <2>4, OtherWrites
  <2>6. /\ \A i \in 1 .. Len(todo) : todo[i].step <= lastId
        /\ \A i \in 1 .. Len(todo) : todo[i].step = 0 => todo[i].to \notin {"planning", "running"}
        /\ \E i \in 1 .. Len(todo) : todo[i].step = 0
    BY <1>5, <1>7, <2>3, <2>4
  <2>7. SoloInv /\ ~overlapped =>
          \A i \in 1 .. Len(todo) : \A r \in rows : todo[i].step = r.id => ~Spent(r)
    BY <1>8, <1>9, <2>4
  <2>8. \A i \in 1 .. Len(todo) : todo[i].to = "completed" =>
          i < Len(todo) /\ todo[i + 1].step = todo[i].step /\ todo[i + 1].to # "completed"
    <3>1. \A i \in 1 .. Len(todo) : todo[i].to = "completed" => i = 3
      BY <2>4
    <3>2. todo[4].step = id /\ todo[3].step = id /\ todo[4].to # "completed"
      BY <1>7, <2>3
    <3> QED
      BY <2>3, <3>1, <3>2
  <2> QED
    BY <1>1, <1>2, <1>3, <2>2, <2>3, <2>5, <2>6, <2>7, <2>8, LeavingGoes DEF LoopPlaces, StepPlaces
<1> QED
  BY <1>10, <1>11, <1>12, <1>13, <1>14

\* ListByRun: the executor has the rows before it, in the order of their
\* positions if they have successive ones.
LEMMA LoadKeeps ==
    ASSUME RunInv, NEW e \in Slots, Load(e)
    PROVE  RunInv' /\ (SoloInv => SoloInv')
<1>1. /\ Quiet /\ exec[e].at = "loading" /\ exec[e].todo = <<>>
      /\ exec \in [Slots -> Executors] /\ exec[e] \in Executors /\ Fit(exec[e])
      /\ DbTypes /\ IdInv
  BY LocalIsQuiet DEF Load, At, RunInv, ExecTypes
<1>2. PICK steps : steps = Listing
  OBVIOUS
<1>3. /\ steps \in Seq(StepRows) /\ Len(steps) = Cardinality(rows) /\ Cardinality(rows) \in Nat
      /\ \A i \in 1 .. Len(steps) : steps[i] \in rows
  BY <1>1, <1>2, ListingIsRows, FS_CardinalityType DEF DbTypes
<1>4. PICK x : x = [exec[e] EXCEPT !.at = "loop", !.steps = steps]
  OBVIOUS
<1>5. /\ x \in Executors /\ x.at = "loop" /\ x.steps = steps /\ x.index = exec[e].index
      /\ x.busy = exec[e].busy /\ x.todo = <<>>
  <2>1. "loop" \in Places
    BY DEF Places
  <2>2. x \in Executors /\ x.todo = exec[e].todo
    BY <1>1, <1>3, <1>4, <2>1 DEF Executors
  <2>3. x.at = "loop" /\ x.steps = steps /\ x.index = exec[e].index /\ x.busy = exec[e].busy
    BY <1>1, <1>4 DEF Executors
  <2> QED
    BY <1>1, <2>2, <2>3
<1>6. Moved(e, x)
  BY <1>1, <1>2, <1>4 DEF Load, Moved, Executors
<1>7. Len(x.todo) = 0
  BY <1>5
<1>8. Fit(x)
  <2>1. Knows(x)
    BY <1>1, <1>3, <1>5, <1>7 DEF Fit, Knows, IdInv
  <2>2. Placed(x)
    BY <1>1, <1>5 DEF Fit, Placed, StepPlaces
  <2> QED
    BY <2>1, <2>2 DEF Fit
<1>9. Owes(x)
  BY <1>5 DEF Owes, LoopPlaces
<1>10. ASSUME SoloInv, ~overlapped
       PROVE  Ordered(x)
  <2>1. Ordered(exec[e]) /\ PosInv /\ StoredInv
    BY <1>10 DEF SoloInv, RowsInv
  <2>2. \A r \in rows : r.pos \in 1 .. Cardinality(rows) /\ steps[r.pos] = r
    BY <1>1, <1>2, <2>1, ListingInOrder
  <2>3. x.at \notin StepPlaces /\ x.at \in LoopPlaces
    BY <1>5 DEF StepPlaces, LoopPlaces
  <2>4. Planned(x)
    BY <1>5 DEF Planned
  <2>5. Loaded(x)
    <3>1. x.index <= Cardinality(rows) + 1
      BY <1>1, <1>5, <2>1 DEF Ordered, Loaded
    <3> QED
      BY <1>3, <1>5, <2>2, <2>3, <3>1 DEF Loaded
  <2>6. Writing(x) /\ InGroup(x)
    BY <1>5, <1>7 DEF Writing, InGroup
  <2>7. Passed(x)
    BY <1>1, <1>5, <2>1 DEF Ordered, Passed
  <2>8. Completing(x)
    BY <1>1, <1>5, <1>7, <2>1 DEF Ordered, Completing
  <2>9. Storing(x)
    BY <1>5, <2>1, <2>2, <2>3 DEF Storing, StoredInv, Settled
  <2>10. ASSUME restarts = 0
         PROVE  Doing(x)
    <3>1. \A f \in Slots : \A id : ~Undoing(exec[f], id)
      BY <1>1, <1>10 DEF SoloInv, Alone, Undoing
    <3>2. \A r \in rows : r.status = "completed" => r.id \in stored
      BY <1>10, <2>10, <3>1 DEF SoloInv, DoneInv
    <3> QED
      BY <1>3, <1>5, <3>2 DEF Doing
  <2> QED
    BY <2>4, <2>5, <2>6, <2>7, <2>8, <2>9, <2>10 DEF Ordered
<1>11. exec[e].at # "idle"
  BY <1>1
<1> QED
  BY <1>1, <1>5, <1>6, <1>8, <1>9, <1>10, <1>11, QuietMove

\* The steps of a group that is at least one step large.
LEMMA GroupSteps ==
    ASSUME RunInv, NEW e \in Slots, Grouped(e) \/ exec[e].at = "grouped"
    PROVE  /\ exec[e] \in Executors /\ Fit(exec[e]) /\ lastId \in Nat
           /\ Group(e) = GroupOf(exec[e]) /\ IsFiniteSet(Group(e)) /\ Cardinality(Group(e)) \in Nat
           /\ Group(e) = exec[e].index .. exec[e].index + Cardinality(Group(e)) - 1
           /\ Group(e) \subseteq 1 .. Len(exec[e].steps)
           /\ \A i \in Group(e) :
                /\ exec[e].steps[i] \in StepRows /\ exec[e].steps[i].id <= lastId
                /\ exec[e].steps[i].kind = "read" /\ exec[e].steps[i].status = "pending"
           /\ Grouped(e) => exec[e].index \in Group(e)
<1>1. exec[e] \in Executors /\ Fit(exec[e]) /\ lastId \in Nat /\ MaxParallel \in Nat
  BY AgentAssumption DEF RunInv, ExecTypes, DbTypes
<1>2. Group(e) = GroupOf(exec[e])
  BY DEF Group, GroupOf
<1>3. /\ IsFiniteSet(Group(e)) /\ Cardinality(Group(e)) \in Nat
      /\ Group(e) = exec[e].index .. exec[e].index + Cardinality(Group(e)) - 1
  BY <1>1, <1>2, GroupsAreIntervals
<1>4. exec[e].index \in Nat \ {0} /\ Len(exec[e].steps) \in Nat
  BY <1>1, ExecutorParts
<1>5. Group(e) \subseteq 1 .. Len(exec[e].steps)
  BY <1>4 DEF Group
<1>6. \A i \in Group(e) : exec[e].steps[i].kind = "read" /\ exec[e].steps[i].status = "pending"
  BY <1>4 DEF Group
<1>7. \A i \in Group(e) : exec[e].steps[i] \in StepRows /\ exec[e].steps[i].id <= lastId
  BY <1>1, <1>5, ExecutorParts DEF Fit, Knows
<1>8. Grouped(e) => exec[e].index \in Group(e)
  <2>1. Grouped(e) => exec[e].index \in exec[e].index .. exec[e].index + Cardinality(Group(e)) - 1
    BY <1>3, <1>4 DEF Grouped
  <2> QED
    BY <1>3, <2>1
<1> QED
  BY <1>1, <1>2, <1>3, <1>5, <1>6, <1>7, <1>8

\* What an executor writes when its group begins.
MemberIds(e) == {exec[e].steps[i].id : i \in Group(e)}
MemberWrites(e) == SetToSeq({Row(id, "running") : id \in MemberIds(e)})

LEMMA GroupWrites ==
    ASSUME RunInv, NEW e \in Slots, Grouped(e)
    PROVE  /\ \A id \in MemberIds(e) : id \in Nat \ {0} /\ id <= lastId
           /\ MemberWrites(e) \in Seq(Writes)
           /\ \A i \in 1 .. Len(MemberWrites(e)) : \E id \in MemberIds(e) :
                MemberWrites(e)[i] = Row(id, "running")
<1> DEFINE ids == MemberIds(e)
           W == {Row(id, "running") : id \in ids}
           f == [i \in Group(e) |-> Row(exec[e].steps[i].id, "running")]
<1>1. /\ IsFiniteSet(Group(e)) /\ \A i \in Group(e) : exec[e].steps[i] \in StepRows
      /\ \A i \in Group(e) : exec[e].steps[i].id <= lastId
  BY GroupSteps
<1>2. \A id \in ids : id \in Nat \ {0} /\ id <= lastId
  BY <1>1 DEF StepRows, MemberIds
<1>3. f \in Surjection(Group(e), W)
  BY DEF Surjection, MemberIds
<1>4. IsFiniteSet(W)
  BY <1>1, <1>3, FS_Surjection
<1>5. \A w \in W : w \in Writes /\ \E id \in ids : w = Row(id, "running")
  BY <1>2, RowWrite DEF StepStatuses
<1> HIDE DEF W
<1>6. /\ SetToSeq(W) \in Seq(W) /\ Len(SetToSeq(W)) = Cardinality(W)
      /\ \A i \in 1 .. Cardinality(W) : SetToSeq(W)[i] \in W
  BY <1>4, SetToSeqType
<1>7. MemberWrites(e) = SetToSeq(W)
  BY DEF W, MemberWrites
<1>8. MemberWrites(e) \in Seq(Writes)
  <2>1. W \subseteq Writes
    BY <1>5
  <2> QED
    BY <1>6, <1>7, <2>1, SeqMonotonic
<1>9. \A i \in 1 .. Len(MemberWrites(e)) : \E id \in ids : MemberWrites(e)[i] = Row(id, "running")
  BY <1>5, <1>6, <1>7
<1> QED
  BY <1>2, <1>8, <1>9

LEMMA BeginGroupKeeps ==
    ASSUME RunInv, NEW e \in Slots, BeginGroup(e)
    PROVE  RunInv' /\ (SoloInv => SoloInv')
<1>1. /\ Quiet /\ exec[e].at = "loop" /\ exec[e].todo = <<>> /\ More(e) /\ Grouped(e)
      /\ exec \in [Slots -> Executors]
  BY LocalIsQuiet DEF BeginGroup, Ready, At, RunInv, ExecTypes
<1>2. /\ exec[e] \in Executors /\ Fit(exec[e]) /\ lastId \in Nat
      /\ Group(e) = GroupOf(exec[e]) /\ exec[e].index \in Group(e)
      /\ Group(e) \subseteq 1 .. Len(exec[e].steps)
      /\ \A i \in Group(e) :
           exec[e].steps[i].kind = "read" /\ exec[e].steps[i].status = "pending"
  BY <1>1, GroupSteps
<1>3. PICK ids, todo : ids = MemberIds(e) /\ todo = MemberWrites(e)
  OBVIOUS
<1>4. ids = {exec[e].steps[i].id : i \in Group(e)} /\ todo = SetToSeq({Row(id, "running") : id \in ids})
  BY <1>3 DEF MemberIds, MemberWrites
<1>5. /\ \A id \in ids : id \in Nat \ {0} /\ id <= lastId
      /\ todo \in Seq(Writes)
      /\ \A i \in 1 .. Len(todo) : \E id \in ids : todo[i] = Row(id, "running")
  BY <1>1, <1>3, GroupWrites
<1>6. \A id \in ids : Row(id, "running").step = id /\ Row(id, "running").to = "running"
  BY DEF Row
<1>7. \E x \in Executors :
        /\ Moved(e, x) /\ x.at = "grouped" /\ x.steps = exec[e].steps /\ x.index = exec[e].index
        /\ \/ x.busy = ids /\ x.todo = todo
           \/ x.busy = exec[e].busy /\ x.todo = exec[e].todo /\ x.spoiled
  <2>1. "grouped" \in Places
    BY DEF Places
  <2>2. CASE exec' = [exec EXCEPT ![e].at = "grouped", ![e].busy = ids, ![e].spoiled = FALSE,
                                  ![e].todo = todo]
    <3>1. PICK x : x = [exec[e] EXCEPT !.at = "grouped", !.busy = ids, !.spoiled = FALSE, !.todo = todo]
      OBVIOUS
    <3>2. x \in Executors
      BY <1>2, <1>5, <2>1, <3>1 DEF Executors
    <3>3. /\ x.at = "grouped" /\ x.steps = exec[e].steps /\ x.index = exec[e].index
          /\ x.busy = ids /\ x.todo = todo
      BY <1>2, <3>1 DEF Executors
    <3>4. Moved(e, x)
      BY <1>1, <2>2, <3>1 DEF Moved, Executors
    <3> QED
      BY <3>2, <3>3, <3>4
  <2>3. CASE exec' = [exec EXCEPT ![e].at = "grouped", ![e].spoiled = TRUE]
    <3>1. PICK x : x = [exec[e] EXCEPT !.at = "grouped", !.spoiled = TRUE]
      OBVIOUS
    <3>2. x \in Executors
      BY <1>2, <2>1, <3>1 DEF Executors
    <3>3. /\ x.at = "grouped" /\ x.steps = exec[e].steps /\ x.index = exec[e].index
          /\ x.busy = exec[e].busy /\ x.todo = exec[e].todo /\ x.spoiled
      BY <1>2, <3>1 DEF Executors
    <3>4. Moved(e, x)
      BY <1>1, <2>3, <3>1 DEF Moved, Executors
    <3> QED
      BY <3>2, <3>3, <3>4
  <2> QED
    BY <1>4, <2>2, <2>3 DEF BeginGroup
<1>8. PICK x \in Executors :
        /\ Moved(e, x) /\ x.at = "grouped" /\ x.steps = exec[e].steps /\ x.index = exec[e].index
        /\ \/ x.busy = ids /\ x.todo = todo
           \/ x.busy = exec[e].busy /\ x.todo = exec[e].todo /\ x.spoiled
  BY <1>7
<1>9. \A i \in 1 .. Len(x.todo) : \E id \in ids : x.todo[i].step = id /\ x.todo[i].to = "running"
  <2>1. CASE x.todo = todo
    BY <1>5, <1>6, <2>1
  <2>2. CASE x.todo = exec[e].todo
    BY <1>1, <2>2
  <2> QED
    BY <1>8, <2>1, <2>2
<1>10. \A id \in x.busy : id \in ids
  BY <1>1, <1>2, <1>8 DEF Fit, Placed
<1>11. Fit(x)
  <2>1. Knows(x)
    BY <1>2, <1>5, <1>8, <1>9, <1>10 DEF Fit, Knows
  <2>2. Placed(x)
    BY <1>1, <1>8 DEF Placed, WritePlaces, More
  <2> QED
    BY <2>1, <2>2 DEF Fit
<1>12. Owes(x)
  BY <1>8 DEF Owes, LoopPlaces, StepPlaces
<1>13. ASSUME SoloInv, ~overlapped
       PROVE  Ordered(x)
  <2>1. Ordered(exec[e]) /\ exec[e].at \in LoopPlaces
    BY <1>1, <1>13 DEF SoloInv, LoopPlaces
  <2>2. GroupOf(x) = Group(e)
    BY <1>2, <1>8 DEF GroupOf
  <2>3. x.at \in StepPlaces /\ x.at \in LoopPlaces
    BY <1>8 DEF StepPlaces, LoopPlaces
  <2>4. Planned(x)
    BY <1>8 DEF Planned
  <2>5. Loaded(x)
    BY <1>2, <1>8, <2>1, <2>3 DEF Ordered, Loaded, Settled
  <2>6. Writing(x)
    <3>1. \A i \in 1 .. Len(x.todo) :
            x.todo[i].to = "running" /\ \E j \in GroupOf(x) : x.todo[i].step = x.steps[j].id
      BY <1>4, <1>8, <1>9, <2>2
    <3> QED
      BY <1>8, <3>1 DEF Writing
  <2>7. Passed(x)
    BY <1>1, <1>8, <2>1 DEF Ordered, Passed
  <2>8. InGroup(x)
    <3>1. \A id \in x.busy : \E j \in GroupOf(x) : id = x.steps[j].id
      BY <1>4, <1>8, <1>10, <2>2
    <3>2. ASSUME ~x.spoiled, NEW r \in rows, r.pos \in GroupOf(x)
          PROVE  r.id \in x.busy
      <4>1. r.id = exec[e].steps[r.pos].id
        BY <2>1 DEF Ordered, Loaded
      <4> QED
        BY <1>4, <1>8, <2>2, <3>2, <4>1
    <3> QED
      BY <1>2, <1>8, <3>1, <3>2 DEF InGroup
  <2>9. Completing(x)
    <3>1. status # "completed"
      BY <1>1, <2>1 DEF Ordered, Completing
    <3>2. ASSUME NEW i \in 1 .. Len(x.todo)
          PROVE  x.todo[i] # Run("completed")
      <4>1. x.todo[i].to = "running"
        BY <1>9
      <4> QED
        BY <4>1, OtherWrites
    <3> QED
      BY <3>1, <3>2 DEF Completing
  <2>10. Storing(x)
    BY <1>8, <2>1 DEF Ordered, Storing
  <2>11. restarts = 0 => Doing(x)
    BY <1>8, <2>1 DEF Ordered, Doing
  <2> QED
    BY <2>4, <2>5, <2>6, <2>7, <2>8, <2>9, <2>10, <2>11 DEF Ordered
<1> QED
  BY <1>1, <1>8, <1>11, <1>12, <1>13, QuietMove

LEMMA GroupEndsKeeps ==
    ASSUME RunInv, NEW e \in Slots, GroupEnds(e)
    PROVE  RunInv' /\ (SoloInv => SoloInv')
<1>1. /\ Quiet /\ exec[e].at = "grouped" /\ exec[e].todo = <<>> /\ exec[e].busy = {}
      /\ exec \in [Slots -> Executors] /\ ExecTypes
  BY LocalIsQuiet DEF GroupEnds, At, RunInv, ExecTypes
<1>2. /\ exec[e] \in Executors /\ Fit(exec[e]) /\ Cardinality(Group(e)) \in Nat
      /\ Group(e) = GroupOf(exec[e]) /\ Group(e) \subseteq 1 .. Len(exec[e].steps)
      /\ Group(e) = exec[e].index .. exec[e].index + Cardinality(Group(e)) - 1
  BY <1>1, GroupSteps
<1>3. exec[e].at \in StepPlaces /\ exec[e].at \in LoopPlaces
  BY <1>1 DEF StepPlaces, LoopPlaces
<1>4. CASE /\ ~exec[e].spoiled
           /\ exec' = [exec EXCEPT ![e].at = "loop", ![e].index = @ + Cardinality(Group(e))]
  <2>1. exec[e].index \in 1 .. Len(exec[e].steps) /\ Len(exec[e].steps) \in Nat
    BY <1>2, <1>3, CurrentStep, ExecutorParts
  <2>2. PICK n \in Nat \ {0} : n = exec[e].index + Cardinality(Group(e))
    BY <1>2, <2>1
  <2>3. PICK x : x = [exec[e] EXCEPT !.at = "loop", !.index = n]
    OBVIOUS
  <2>4. /\ x \in Executors /\ x.at = "loop" /\ x.steps = exec[e].steps /\ x.index = n
        /\ x.busy = exec[e].busy /\ x.todo = exec[e].todo
    BY <1>2, <2>3 DEF Executors, Places
  <2>5. Moved(e, x)
    BY <1>1, <1>4, <2>2, <2>3 DEF Moved, Executors
  <2>6. Len(x.todo) = 0
    BY <1>1, <2>4
  <2>7. Fit(x)
    <3>1. Knows(x)
      BY <1>2, <2>4, <2>6 DEF Fit, Knows
    <3>2. Placed(x)
      BY <1>1, <2>4 DEF Placed, StepPlaces
    <3> QED
      BY <3>1, <3>2 DEF Fit
  <2>8. Owes(x)
    BY <2>4 DEF Owes, LoopPlaces
  <2>9. ASSUME SoloInv, ~overlapped
        PROVE  Ordered(x)
    <3>1. /\ Ordered(exec[e]) /\ Len(exec[e].steps) = Cardinality(rows)
          /\ \A r \in rows : r.pos \in Nat \ {0}
      BY <1>3, <2>9, StepsAreRows DEF SoloInv, RunInv, DbTypes, StepRows
    <3>2. n <= Cardinality(rows) + 1 /\ n >= exec[e].index
      <4>1. CASE Cardinality(Group(e)) = 0
        BY <2>1, <2>2, <3>1, <4>1
      <4>2. CASE Cardinality(Group(e)) > 0
        <5>1. n - 1 \in exec[e].index .. exec[e].index + Cardinality(Group(e)) - 1
          BY <1>2, <2>1, <2>2, <4>2
        <5>2. n - 1 \in 1 .. Len(exec[e].steps)
          BY <1>2, <5>1
        <5> QED
          BY <1>2, <2>1, <2>2, <3>1, <5>2
      <4> QED
        BY <1>2, <4>1, <4>2
    <3>3. x.at \notin StepPlaces /\ x.at \in LoopPlaces
      BY <2>4 DEF StepPlaces, LoopPlaces
    <3>4. Planned(x)
      BY <2>4 DEF Planned
    <3>5. Loaded(x)
      <4>1. /\ Len(x.steps) = Cardinality(rows) /\ x.index <= Cardinality(rows) + 1
            /\ \A r \in rows : x.steps[r.pos].id = r.id /\ x.steps[r.pos].kind = r.kind
        BY <1>3, <2>4, <3>1, <3>2 DEF Ordered, Loaded
      <4>2. \A r \in rows : r.pos >= x.index /\ x.steps[r.pos].status \in Settled =>
              r.status = x.steps[r.pos].status
        BY <1>3, <2>1, <2>4, <3>1, <3>2 DEF Ordered, Loaded
      <4> QED
        BY <2>4, <3>3, <4>1, <4>2 DEF Loaded
    <3>6. Writing(x) /\ InGroup(x)
      BY <2>4, <2>6 DEF Writing, InGroup
    <3>7. Passed(x)
      <4>1. ASSUME NEW r \in rows, r.pos < n
            PROVE  r.status \in Settled
        <5>1. CASE r.pos < exec[e].index
          BY <1>1, <1>3, <3>1, <5>1 DEF Ordered, Passed
        <5>2. CASE r.pos >= exec[e].index
          <6>1. r.pos \in GroupOf(exec[e])
            BY <1>2, <2>1, <2>2, <3>1, <4>1, <5>2
          <6> QED
            BY <1>1, <1>4, <3>1, <6>1 DEF Ordered, InGroup, Settled
        <5> QED
          BY <2>1, <3>1, <5>1, <5>2
      <4> QED
        BY <2>4, <4>1 DEF Passed
    <3>8. Completing(x)
      <4>1. status # "completed"
        BY <1>1, <3>1 DEF Ordered, Completing
      <4> QED
        BY <2>6, <4>1 DEF Completing
    <3>9. Storing(x)
      <4>1. \A r \in rows : r.pos >= x.index => r.pos >= exec[e].index
        BY <2>1, <2>4, <3>1, <3>2
      <4> QED
        BY <1>3, <2>4, <3>1, <3>3, <4>1 DEF Ordered, Storing
    <3>10. restarts = 0 => Doing(x)
      <4>1. \A i \in 1 .. Len(x.steps) : i >= x.index => i >= exec[e].index
        BY <2>1, <2>4, <3>2
      <4> QED
        BY <1>3, <2>4, <3>1, <4>1 DEF Ordered, Doing
    <3> QED
      BY <3>4, <3>5, <3>6, <3>7, <3>8, <3>9, <3>10 DEF Ordered
  <2> QED
    BY <1>1, <2>4, <2>5, <2>7, <2>8, <2>9, QuietMove
<1>5. CASE Goes(e, "repairing", <<>>)
  <2>1. PICK todo \in Seq(Writes) : todo = <<>>
    BY EmptySeq
  <2>2. Goes(e, "repairing", todo) /\ "repairing" \in Places
    BY <1>5, <2>1 DEF Places
  <2>3. PICK x \in Executors : Moved(e, x) /\ x.at = "repairing" /\ x.todo = todo /\ Kept(x, exec[e])
    BY <1>1, <2>2, GoesMoves
  <2> QED
    BY <1>1, <1>3, <2>1, <2>3, LoopMove
<1>6. CASE Goes(e, "leaving", Failure(Current(e).id))
  <2>1. PICK todo : todo = Failure(Current(e).id)
    OBVIOUS
  <2>2. Goes(e, "leaving", todo)
    BY <1>6, <2>1
  <2> QED
    BY <1>1, <1>3, <2>1, <2>2, FailureKeeps
<1> QED
  BY <1>4, <1>5, <1>6 DEF GroupEnds

-----------------------------------------------------------------------------
(***************************************************************************)
(* Moves that change the tables.                                           *)
(***************************************************************************)
LEMMA IdleIsOrdered ==
    ASSUME NEW y, y.at = "idle", y.todo = <<>>, y.index = 1
    PROVE  Ordered(y)'
<1>1. (Planned(y) /\ Loaded(y) /\ Passed(y) /\ InGroup(y))'
  BY DEF Planned, Loaded, Passed, InGroup, LoopPlaces, StepPlaces
<1>2. Len(y.todo) = 0
  OBVIOUS
<1>3. (Writing(y) /\ Completing(y))'
  BY <1>2 DEF Writing, Completing
<1>4. (Storing(y) /\ Doing(y))'
  BY DEF Storing, Doing, LoopPlaces, StepPlaces
<1> QED
  BY <1>1, <1>3, <1>4 DEF Ordered

\* Only one executor is at work, and it moves.
LEMMA SoloMove ==
    ASSUME RunInv, SoloInv, ~overlapped, NEW e \in Slots, NEW x \in Executors, Moved(e, x),
           \A f \in Slots \ {e} : exec[f].at = "idle",
           RowsInv', CompletedInv', StoredInv', restarts' = 0 => DoneInv', Ordered(x)'
    PROVE  SoloInv'
<1>1. exec'[e] = x /\ \A f \in Slots \ {e} : exec'[f] = exec[f]
  BY DEF RunInv, ExecTypes, Moved
<1>2. Alone'
  BY <1>1 DEF Alone
<1>3. ASSUME NEW f \in Slots
      PROVE  Ordered(exec[f])'
  <2>1. PICK y : y = exec'[f]
    OBVIOUS
  <2>2. CASE f = e
    <3>1. y = x
      BY <1>1, <2>1, <2>2
    <3> QED
      BY <2>1, <3>1
  <2>3. CASE f # e
    <3>1. y = exec[f] /\ exec[f].at = "idle" /\ Fit(exec[f]) /\ Ordered(exec[f])
      BY <1>1, <2>1, <2>3 DEF RunInv, SoloInv
    <3>2. y.at = "idle" /\ y.todo = <<>> /\ y.index = 1
      BY <3>1 DEF Fit, Placed, WritePlaces, Ordered, Loaded, LoopPlaces, StepPlaces
    <3>3. Ordered(y)'
      BY <3>2, IdleIsOrdered
    <3> QED
      BY <2>1, <3>3
  <2> QED
    BY <2>2, <2>3
<1> QED
  BY <1>2, <1>3 DEF SoloInv

\* The one executor at work, if there is one.
LEMMA OthersAreIdle ==
    ASSUME SoloInv, ~overlapped, NEW e \in Slots, exec[e].at # "idle"
    PROVE  /\ \A f \in Slots \ {e} : exec[f].at = "idle"
           /\ \A f \in Slots : \A id : Undoing(exec[f], id) => f = e
           /\ status # "absent" /\ Ordered(exec[e])
  BY DEF SoloInv, Alone, RowsInv, Undoing

\* Renewed rows are at the positions of the rows.
LEMMA RenewedPositions ==
    ASSUME RunInv, PosInv, Renewed(rows')
    PROVE  PosInv'
<1>1. \A q \in rows' : q.pos <= Cardinality(rows')
  BY DEF PosInv, Renewed, Renews
<1>2. ASSUME NEW p \in rows', NEW q \in rows', p.pos = q.pos
      PROVE  p = q
  <2>1. PICK r \in rows : Renews(p, r)
    BY DEF Renewed
  <2>2. PICK s \in rows : Renews(q, s)
    BY DEF Renewed
  <2>3. r = s
    BY <1>2, <2>1, <2>2 DEF PosInv, Renews
  <2>4. p.id = q.id
    BY <2>1, <2>2, <2>3 DEF Renews
  <2> QED
    BY <2>4 DEF Renewed
<1> QED
  BY <1>1, <1>2 DEF PosInv

LEMMA RenewedRowsInv ==
    ASSUME RunInv, RowsInv, Renewed(rows'), UNCHANGED hasPlan, status' # "absent"
    PROVE  RowsInv'
<1>1. PosInv'
  BY RenewedPositions DEF RowsInv
<1>2. ~hasPlan' => rows' = {}
  BY DEF RowsInv, Renewed
<1> QED
  BY <1>1, <1>2 DEF RowsInv

\* In the loop an id tells the position.
LEMMA PositionOfStep ==
    ASSUME RunInv, SoloInv, ~overlapped, NEW e \in Slots, exec[e].at \in LoopPlaces
    PROVE  \A i \in 1 .. Len(exec[e].steps) : \A r \in rows :
             r.id = exec[e].steps[i].id => r.pos = i /\ r.kind = exec[e].steps[i].kind
<1>1. \A i \in 1 .. Len(exec[e].steps) : \E r \in rows :
        r.pos = i /\ r.id = exec[e].steps[i].id /\ r.kind = exec[e].steps[i].kind
  BY StepsAreRows
<1> QED
  BY <1>1 DEF RunInv, IdInv

\* GeneratePlan and UpdatePlan.
LEMMA MakePlanKeeps ==
    ASSUME RunInv, NEW e \in Slots, MakePlan(e)
    PROVE  RunInv' /\ (SoloInv => SoloInv')
<1>1. /\ exec[e].at \in {"planning", "regenerating"} /\ exec[e].todo = <<>> /\ ExecTypes
      /\ exec[e] \in Executors /\ Fit(exec[e]) /\ lastId \in Nat
  BY DEF MakePlan, At, RunInv, ExecTypes, DbTypes
<1>2. PICK none \in Seq(Writes) : none = <<>>
  BY EmptySeq
<1>3. CASE hasPlan' = TRUE /\ \/ exec[e].at = "planning" /\ Goes(e, "batching", none)
                              \/ exec[e].at = "regenerating" /\ Goes(e, "rebatching", none)
  <2>1. PICK at \in {"batching", "rebatching"} :
          Goes(e, at, none) /\ (exec[e].at = "planning" => at = "batching")
    BY <1>1, <1>3
  <2>2. at \in Places
    BY DEF Places
  <2>3. PICK x \in Executors : Moved(e, x) /\ x.at = at /\ x.todo = none /\ Kept(x, exec[e])
    BY <1>1, <2>1, <2>2, GoesMoves
  <2>4. Len(x.todo) = 0 /\ x.todo = <<>>
    BY <1>2, <2>3
  <2>5. UNCHANGED <<status, rows, lastId, stored, overlapped, restarts>> /\ MemTypes'
    BY DEF MakePlan, RunInv, MemTypes, bounds, history
  <2>6. Fit(x)
    BY <1>1, <2>3, <2>4, FitStays DEF StepPlaces
  <2>7. Fit(x)' /\ DbTypes' /\ IdInv'
    BY <1>3, <2>5, <2>6 DEF RunInv, DbTypes, IdInv, Fit, Knows, Placed
  <2>8. Owes(exec[e]) => Owes(x)
    BY <1>1, <2>1, <2>3 DEF Owes, LoopPlaces, StepPlaces
  <2>9. lastId' >= lastId
    BY <1>1, <2>5
  <2>10. RunInv'
    BY <2>3, <2>5, <2>7, <2>8, <2>9, MoveKeepsRunInv
  <2>11. ASSUME SoloInv, ~overlapped
         PROVE  SoloInv'
    <3>1. /\ \A f \in Slots \ {e} : exec[f].at = "idle"
          /\ \A f \in Slots : \A id : Undoing(exec[f], id) => f = e
          /\ status # "absent" /\ Ordered(exec[e])
      BY <1>1, <2>11, OthersAreIdle
    <3>2. rows = {} /\ x.index = 1 /\ status # "completed"
      BY <1>1, <2>3, <3>1 DEF Ordered, Planned, Loaded, Completing, Kept, LoopPlaces, StepPlaces
    <3>3. RowsInv'
      BY <1>3, <2>5, <2>11, <3>1, <3>2 DEF SoloInv, RowsInv, PosInv
    <3>4. CompletedInv' /\ StoredInv' /\ DoneInv'
      BY <2>5, <3>2 DEF CompletedInv, StoredInv, DoneInv
    <3>5. Ordered(x)'
      <4>1. (Planned(x) /\ Loaded(x) /\ Passed(x) /\ InGroup(x))'
        BY <1>3, <2>1, <2>3, <2>5, <3>2 DEF Planned, Loaded, Passed, InGroup, LoopPlaces, StepPlaces
      <4>2. (Writing(x) /\ Completing(x))'
        BY <2>4, <2>5, <3>2 DEF Writing, Completing
      <4>3. (Storing(x) /\ Doing(x))'
        BY <2>1, <2>3 DEF Storing, Doing, LoopPlaces, StepPlaces
      <4> QED
        BY <4>1, <4>2, <4>3 DEF Ordered
    <3> QED
      BY <2>3, <2>11, <3>1, <3>3, <3>4, <3>5, SoloMove
  <2> QED
    BY <2>5, <2>10, <2>11 DEF SoloInv
<1>4. CASE hasPlan' = hasPlan /\ exec[e].at = "planning" /\ Goes(e, "leaving", <<Run("failed")>>)
  <2>1. Quiet
    BY <1>4 DEF MakePlan, RunInv, MemTypes, Quiet, dbVars, bounds, history
  <2>2. PICK todo : todo = <<Run("failed")>>
    OBVIOUS
  <2>3. Goes(e, "leaving", todo)
    BY <1>4, <2>2
  <2>4. "failed" \in Statuses \ {"absent"}
    BY DEF Statuses, Terminal
  <2>5. Run("failed") \in Writes /\ Run("failed").step = 0 /\ Run("failed").to = "failed"
        /\ Run("failed") # Run("completed")
    BY <2>4, RunWrite
  <2>6. /\ todo \in Seq(Writes) /\ Len(todo) = 1
        /\ \A i \in 1 .. Len(todo) : i = 1 /\ todo[i] = Run("failed")
    BY <2>2, <2>5, Singles
  <2>7. /\ \A i \in 1 .. Len(todo) : /\ todo[i].step = 0 /\ todo[i].step <= lastId
                                     /\ todo[i].to = "failed" /\ todo[i] # Run("completed")
        /\ \E i \in 1 .. Len(todo) : todo[i].step = 0
    BY <1>1, <2>5, <2>6
  <2>8. \A r \in rows : r.id # 0
    BY DEF RunInv, DbTypes, StepRows
  <2> QED
    BY <1>1, <1>4, <2>1, <2>3, <2>6, <2>7, <2>8, LeavingGoes
<1>5. CASE hasPlan' = hasPlan /\ exec[e].at = "regenerating" /\ Goes(e, "idle", none)
  <2>1. Quiet
    BY <1>5 DEF MakePlan, RunInv, MemTypes, Quiet, dbVars, bounds, history
  <2>2. PICK x \in Executors : Moved(e, x) /\ x.at = "idle" /\ x.todo = none /\ Kept(x, exec[e])
    BY <1>1, <1>5, GoesMoves DEF Places
  <2>3. Len(x.todo) = 0 /\ x.todo = <<>>
    BY <1>2, <2>2
  <2>4. Fit(x)
    BY <1>1, <2>2, <2>3, FitStays DEF StepPlaces
  <2>5. ~Owes(exec[e])
    BY <1>5 DEF Owes, LoopPlaces, StepPlaces
  <2>6. ASSUME SoloInv, ~overlapped
        PROVE  Ordered(x)
    <3>1. x.index = 1
      BY <1>5, <2>2, <2>6 DEF SoloInv, Ordered, Loaded, Kept, LoopPlaces, StepPlaces
    <3> QED
      BY <2>2, <2>3, <3>1, OrderedOutside DEF Planned, LoopPlaces, StepPlaces
  <2> QED
    BY <1>1, <2>1, <2>2, <2>4, <2>5, <2>6, QuietMove
<1> QED
  BY <1>2, <1>3, <1>4, <1>5 DEF MakePlan, At

\* CreateBatch: the rows of the plan.
LEMMA CreateBatchKeeps ==
    ASSUME RunInv, NEW e \in Slots, CreateBatch(e)
    PROVE  RunInv' /\ (SoloInv => SoloInv')
<1>1. /\ exec[e].at \in {"batching", "rebatching"} /\ exec[e].todo = <<>> /\ ExecTypes
      /\ exec[e] \in Executors /\ Fit(exec[e]) /\ lastId \in Nat /\ DbTypes /\ IdInv
  BY DEF CreateBatch, At, RunInv, ExecTypes, DbTypes
<1>2. PICK none \in Seq(Writes) : none = <<>>
  BY EmptySeq
<1>3. PICK at \in {"starting", "resetting"} :
        Goes(e, at, none) /\ (exec[e].at = "batching" => at = "starting")
  BY <1>1, <1>2 DEF CreateBatch, At
<1>4. at \in Places
  BY DEF Places
<1>5. PICK x \in Executors : Moved(e, x) /\ x.at = at /\ x.todo = none /\ Kept(x, exec[e])
  BY <1>1, <1>3, <1>4, GoesMoves
<1>6. Len(x.todo) = 0 /\ x.todo = <<>>
  BY <1>2, <1>5
<1>7. PICK plan \in Seq(Kinds) : rows' = rows \cup Fresh(plan, 1) /\ lastId' = lastId + Len(plan)
  BY AgentAssumption DEF CreateBatch
<1>8. PICK F : F = Fresh(plan, 1)
  OBVIOUS
<1>9. /\ F \subseteq StepRows /\ IsFiniteSet(F) /\ Cardinality(F) = Len(plan) /\ Len(plan) \in Nat
      /\ \A q \in F : /\ q.id \in lastId + 1 .. lastId + Len(plan)
                      /\ q.pos \in 1 .. 1 + Len(plan) - 1
                      /\ q.status = "pending"
      /\ \A q, s \in F : q.id = s.id \/ q.pos = s.pos => q = s
  BY <1>1, <1>8, FreshRows
<1>10. UNCHANGED <<status, hasPlan, stored, overlapped, restarts>> /\ MemTypes' /\ rows' = rows \cup F
  BY <1>7, <1>8 DEF CreateBatch, RunInv, MemTypes, bounds, history
<1>11. lastId' >= lastId /\ lastId' \in Nat
  BY <1>1, <1>7, <1>9
<1>12. DbTypes'
  BY <1>1, <1>9, <1>10, <1>11, FS_Union DEF DbTypes
<1>13. IdInv'
  <2>1. \A q \in F : q.id > lastId /\ q.id <= lastId' /\ q.id \in Nat
    BY <1>1, <1>7, <1>9
  <2>2. \A r \in rows : r.id <= lastId /\ r.id \in Nat
    BY <1>1 DEF IdInv, DbTypes, StepRows
  <2>3. \A id \in stored : id <= lastId /\ id \in Nat
    BY <1>1 DEF IdInv, DbTypes
  <2>4. \A r \in rows' : r.id <= lastId'
    BY <1>1, <1>10, <1>11, <2>1, <2>2
  <2>5. \A r, s \in rows' : r.id = s.id => r = s
    BY <1>1, <1>9, <1>10, <2>1, <2>2 DEF IdInv
  <2>6. \A id \in stored' : id <= lastId'
    BY <1>1, <1>10, <1>11, <2>3
  <2> QED
    BY <2>4, <2>5, <2>6 DEF IdInv
<1>14. Fit(x)'
  <2>1. Fit(x)
    BY <1>1, <1>5, <1>6, FitStays DEF StepPlaces
  <2>2. /\ \A i \in 1 .. Len(x.steps) : x.steps[i].id \in Nat
        /\ \A id \in x.busy : id \in Nat
    BY ExecutorParts
  <2>3. Knows(x)'
    BY <1>1, <1>6, <1>11, <2>1, <2>2 DEF Fit, Knows
  <2> QED
    BY <2>1, <2>3 DEF Fit, Placed
<1>15. Owes(exec[e]) => Owes(x)
  BY <1>1, <1>3, <1>5 DEF Owes, LoopPlaces, StepPlaces
<1>16. RunInv'
  BY <1>5, <1>10, <1>11, <1>12, <1>13, <1>14, <1>15, MoveKeepsRunInv
<1>17. ASSUME SoloInv, ~overlapped
       PROVE  SoloInv'
  <2>1. /\ \A f \in Slots \ {e} : exec[f].at = "idle"
        /\ status # "absent" /\ Ordered(exec[e])
    BY <1>1, <1>17, OthersAreIdle
  <2>2. rows = {} /\ hasPlan /\ x.index = 1 /\ status # "completed"
    BY <1>1, <1>5, <2>1 DEF Ordered, Planned, Loaded, Completing, Kept, LoopPlaces, StepPlaces
  <2>3. rows' = F
    BY <1>10, <2>2
  <2>4. RowsInv'
    <3>1. PosInv'
      BY <1>9, <2>3 DEF PosInv
    <3> QED
      BY <1>10, <2>1, <2>2, <3>1 DEF RowsInv
  <2>5. CompletedInv'
    BY <1>10, <2>2 DEF CompletedInv
  <2>6. StoredInv'
    <3>1. \A q \in F : q.id \notin stored
      BY <1>1, <1>9 DEF IdInv, DbTypes
    <3> QED
      BY <1>10, <2>3, <3>1 DEF StoredInv, Spent
  <2>7. DoneInv'
    BY <1>9, <2>3 DEF DoneInv
  <2>8. Ordered(x)'
    <3>1. (Planned(x) /\ Loaded(x) /\ Passed(x) /\ InGroup(x))'
      BY <1>5, <2>2 DEF Planned, Loaded, Passed, InGroup, LoopPlaces, StepPlaces
    <3>2. (Writing(x) /\ Completing(x))'
      BY <1>6, <1>10, <2>2 DEF Writing, Completing
    <3>3. (Storing(x) /\ Doing(x))'
      BY <1>5 DEF Storing, Doing, LoopPlaces, StepPlaces
    <3> QED
      BY <3>1, <3>2, <3>3 DEF Ordered
  <2> QED
    BY <1>5, <1>17, <2>1, <2>4, <2>5, <2>6, <2>7, <2>8, SoloMove
<1> QED
  BY <1>10, <1>16, <1>17 DEF SoloInv

\* ResetInterrupted, before a resumed run goes on.
LEMMA ResetKeeps ==
    ASSUME RunInv, NEW e \in Slots, Reset(e)
    PROVE  RunInv' /\ (SoloInv => SoloInv')
<1>1. /\ exec[e].at = "resetting" /\ exec[e].todo = <<>> /\ ExecTypes
      /\ exec[e] \in Executors /\ Fit(exec[e]) /\ lastId \in Nat /\ DbTypes /\ IdInv
  BY DEF Reset, At, RunInv, ExecTypes, DbTypes
<1>2. PICK none \in Seq(Writes) : none = <<>>
  BY EmptySeq
<1>3. Goes(e, "registering", none) /\ rows' = ResetRows
  BY <1>2 DEF Reset
<1>4. PICK x \in Executors : Moved(e, x) /\ x.at = "registering" /\ x.todo = none /\ Kept(x, exec[e])
  BY <1>1, <1>3, GoesMoves DEF Places
<1>5. Len(x.todo) = 0 /\ x.todo = <<>>
  BY <1>2, <1>4
<1>6. UNCHANGED <<status, hasPlan, lastId, stored, overlapped, restarts>> /\ MemTypes'
  BY DEF Reset, RunInv, MemTypes, bounds, history
<1>7. /\ Renewed(rows')
      /\ \A q \in rows' : \E r \in rows :
           /\ Renews(q, r)
           /\ q.status = IF r.status \in {"running", "failed"} THEN "pending" ELSE r.status
  BY <1>1, <1>3, ResetRowsRenews
<1>8. DbTypes' /\ IdInv'
  BY <1>1, <1>6, <1>7, RenewedRowsAreTyped DEF DbTypes, IdInv
<1>9. Fit(x)' /\ lastId' >= lastId
  <2>1. Fit(x)
    BY <1>1, <1>4, <1>5, FitStays DEF StepPlaces
  <2> QED
    BY <1>1, <1>6, <2>1 DEF Fit, Knows, Placed
<1>10. ~Owes(exec[e])
  BY <1>1 DEF Owes, LoopPlaces, StepPlaces
<1>11. RunInv'
  BY <1>4, <1>6, <1>8, <1>9, <1>10, MoveKeepsRunInv
<1>12. ASSUME SoloInv, ~overlapped
       PROVE  SoloInv'
  <2>1. /\ \A f \in Slots \ {e} : exec[f].at = "idle"
        /\ \A f \in Slots : \A id : Undoing(exec[f], id) => f = e
        /\ status # "absent" /\ Ordered(exec[e])
    BY <1>1, <1>12, OthersAreIdle
  <2>2. x.index = 1 /\ status # "completed"
    BY <1>1, <1>4, <2>1 DEF Ordered, Loaded, Completing, Kept, LoopPlaces, StepPlaces
  <2>3. RowsInv'
    BY <1>6, <1>7, <1>12, <2>1, RenewedRowsInv DEF SoloInv
  <2>4. CompletedInv'
    BY <1>6, <2>2 DEF CompletedInv
  <2>5. StoredInv'
    BY <1>6, <1>7, <1>12 DEF SoloInv, StoredInv, Spent, Renews
  <2>6. restarts' = 0 => DoneInv'
    <3>1. \A f \in Slots : \A id : ~Undoing(exec[f], id)
      BY <1>1, <2>1 DEF Undoing
    <3>2. restarts = 0 => \A r \in rows : r.status = "completed" => r.id \in stored
      BY <1>12, <3>1 DEF SoloInv, DoneInv
    <3> QED
      BY <1>6, <1>7, <3>2 DEF DoneInv, Renews
  <2>7. Ordered(x)'
    <3>1. (Planned(x) /\ Loaded(x) /\ Passed(x) /\ InGroup(x))'
      BY <1>4, <2>2 DEF Planned, Loaded, Passed, InGroup, LoopPlaces, StepPlaces
    <3>2. (Writing(x) /\ Completing(x))'
      BY <1>5, <1>6, <2>2 DEF Writing, Completing
    <3>3. (Storing(x) /\ Doing(x))'
      BY <1>4 DEF Storing, Doing, LoopPlaces, StepPlaces
    <3> QED
      BY <3>1, <3>2, <3>3 DEF Ordered
  <2> QED
    BY <1>4, <1>12, <2>1, <2>3, <2>4, <2>5, <2>6, <2>7, SoloMove
<1> QED
  BY <1>6, <1>11, <1>12 DEF SoloInv

\* replanFromFailure: the rows from the failed step on give way to new ones.
LEMMA ReplanKeeps ==
    ASSUME RunInv, NEW e \in Slots, Replan(e)
    PROVE  RunInv' /\ (SoloInv => SoloInv')
<1>1. /\ exec[e].at = "repairing" /\ exec[e].todo = <<>> /\ exec \in [Slots -> Executors]
      /\ exec[e] \in Executors /\ Fit(exec[e]) /\ lastId \in Nat /\ DbTypes /\ IdInv
  BY DEF Replan, At, RunInv, ExecTypes, DbTypes
<1>2. PICK p \in Nat \ {0} : p = exec[e].index /\ p <= Len(exec[e].steps) /\ Len(exec[e].steps) \in Nat
  BY <1>1, ExecutorParts DEF Fit, Placed, StepPlaces
<1>3. PICK plan \in Seq(Kinds) :
        rows' = {r \in rows : r.pos < p} \cup Fresh(plan, p) /\ lastId' = lastId + Len(plan)
  BY <1>2, AgentAssumption DEF Replan
<1>4. PICK K : K = {r \in rows : r.pos < p}
  OBVIOUS
<1>5. PICK F : F = Fresh(plan, p)
  OBVIOUS
<1>6. /\ F \subseteq StepRows /\ IsFiniteSet(F) /\ Cardinality(F) = Len(plan) /\ Len(plan) \in Nat
      /\ \A q \in F : /\ q.id \in lastId + 1 .. lastId + Len(plan)
                      /\ q.pos \in p .. p + Len(plan) - 1
                      /\ q.status = "pending"
      /\ \A q, s \in F : q.id = s.id \/ q.pos = s.pos => q = s
  BY <1>1, <1>5, FreshRows
<1>7. K \in SUBSET rows /\ IsFiniteSet(K) /\ \A r \in K : r.pos < p /\ r.pos \in Nat \ {0}
  BY <1>1, <1>4, FS_Subset DEF DbTypes, StepRows
<1>8. UNCHANGED <<status, hasPlan, stored, overlapped, restarts>> /\ MemTypes' /\ rows' = K \cup F
  BY <1>3, <1>4, <1>5 DEF Replan, RunInv, MemTypes, bounds, history
<1>9. lastId' >= lastId /\ lastId' \in Nat
  BY <1>1, <1>3, <1>6
<1>10. DbTypes'
  <2>1. IsFiniteSet(rows')
    BY <1>6, <1>7, <1>8, FS_Union
  <2>2. rows' \subseteq StepRows
    BY <1>1, <1>6, <1>7, <1>8 DEF DbTypes
  <2> QED
    BY <1>1, <1>8, <1>9, <2>1, <2>2 DEF DbTypes
<1>11. IdInv'
  <2>1. \A q \in F : q.id > lastId /\ q.id <= lastId' /\ q.id \in Nat
    BY <1>1, <1>3, <1>6
  <2>2. \A r \in K : r.id <= lastId /\ r.id \in Nat
    BY <1>1, <1>7 DEF IdInv, DbTypes, StepRows
  <2>3. \A id \in stored : id <= lastId /\ id \in Nat
    BY <1>1 DEF IdInv, DbTypes
  <2>4. \A r \in rows' : r.id <= lastId'
    BY <1>1, <1>8, <1>9, <2>1, <2>2
  <2>5. \A r, s \in K : r.id = s.id => r = s
    BY <1>1, <1>7 DEF IdInv
  <2>6. \A r, s \in rows' : r.id = s.id => r = s
    BY <1>1, <1>6, <1>8, <2>1, <2>2, <2>5
  <2>7. \A id \in stored' : id <= lastId'
    BY <1>1, <1>8, <1>9, <2>3
  <2> QED
    BY <2>4, <2>6, <2>7 DEF IdInv
<1>12. PICK x : x = [exec[e] EXCEPT !.at = "loading", !.replanned = TRUE]
  OBVIOUS
<1>13. /\ x \in Executors /\ x.at = "loading" /\ x.steps = exec[e].steps /\ x.index = p
       /\ x.busy = exec[e].busy /\ x.todo = exec[e].todo
  BY <1>1, <1>2, <1>12 DEF Executors, Places
<1>14. Moved(e, x)
  BY <1>1, <1>12 DEF Replan, Moved, Executors
<1>15. Len(x.todo) = 0 /\ x.todo = <<>>
  BY <1>1, <1>13
<1>16. Fit(x)'
  <2>1. /\ \A i \in 1 .. Len(x.steps) : x.steps[i].id \in Nat /\ x.steps[i].id <= lastId
        /\ x.busy = {}
    BY <1>1, <1>13, ExecutorParts DEF Fit, Knows, Placed
  <2>2. Knows(x)'
    BY <1>1, <1>9, <1>15, <2>1 DEF Knows
  <2>3. Placed(x)'
    BY <1>13, <1>15, <2>1 DEF Placed, StepPlaces
  <2> QED
    BY <2>2, <2>3 DEF Fit
<1>17. Owes(x)
  BY <1>13 DEF Owes
<1>18. RunInv'
  BY <1>8, <1>9, <1>10, <1>11, <1>13, <1>14, <1>16, <1>17, MoveKeepsRunInv
<1>19. ASSUME SoloInv, ~overlapped
       PROVE  SoloInv'
  <2>1. exec[e].at # "idle" /\ exec[e].at \in LoopPlaces
    BY <1>1 DEF LoopPlaces, StepPlaces
  <2>2. /\ \A f \in Slots \ {e} : exec[f].at = "idle"
        /\ \A f \in Slots : \A id : Undoing(exec[f], id) => f = e
        /\ status # "absent" /\ Ordered(exec[e]) /\ PosInv
    BY <1>19, <2>1, OthersAreIdle DEF SoloInv, RowsInv
  <2>3. p <= Cardinality(rows) /\ Cardinality(rows) \in Nat /\ status # "completed"
    BY <1>1, <1>2, <1>19, <2>1, <2>2, StepsAreRows DEF Ordered, Completing
  <2>4. Cardinality(K) = p - 1
    <3>1. p \in 1 .. Cardinality(rows) + 1
      BY <1>2, <2>3
    <3> QED
      BY <1>1, <1>4, <2>2, <3>1, RowsBelow
  <2>5. Cardinality(rows') = p - 1 + Len(plan)
    <3>1. K \cap F = {}
      BY <1>2, <1>6, <1>7
    <3>2. Cardinality(K \cup F) = Cardinality(K) + Cardinality(F) - Cardinality(K \cap F)
      BY <1>6, <1>7, FS_Union
    <3>3. Cardinality(K \cap F) = 0
      BY <3>1, FS_EmptySet
    <3> QED
      BY <1>2, <1>6, <1>8, <2>4, <3>2, <3>3
  <2>6. \A q \in F : q.pos \in Nat /\ q.pos >= p /\ q.pos <= p - 1 + Len(plan)
    BY <1>2, <1>6
  <2>7. RowsInv'
    <3>1. \A r \in rows' : r.pos <= Cardinality(rows')
      BY <1>2, <1>6, <1>7, <1>8, <2>5, <2>6
    <3>2. \A r, s \in rows' : r.pos = s.pos => r = s
      <4>1. \A r, s \in K : r.pos = s.pos => r = s
        BY <1>7, <2>2 DEF PosInv
      <4> QED
        BY <1>2, <1>6, <1>7, <1>8, <2>6, <4>1
    <3>3. hasPlan
      <4>1. Cardinality(rows) # 0
        BY <1>2, <2>3
      <4>2. rows # {}
        BY <4>1, FS_EmptySet
      <4> QED
        BY <1>19, <4>2 DEF SoloInv, RowsInv
    <3> QED
      BY <1>8, <2>2, <3>1, <3>2, <3>3 DEF RowsInv, PosInv
  <2>8. CompletedInv'
    BY <1>8, <2>3 DEF CompletedInv
  <2>9. StoredInv'
    <3>1. \A q \in F : q.id \notin stored
      BY <1>1, <1>6 DEF IdInv, DbTypes
    <3> QED
      BY <1>7, <1>8, <1>19, <3>1 DEF SoloInv, StoredInv, Spent
  <2>10. restarts' = 0 => DoneInv'
    <3>1. \A f \in Slots : \A id : ~Undoing(exec[f], id)
      BY <1>1, <2>2 DEF Undoing
    <3>2. restarts = 0 => \A r \in rows : r.status = "completed" => r.id \in stored
      BY <1>19, <3>1 DEF SoloInv, DoneInv
    <3> QED
      BY <1>6, <1>7, <1>8, <3>2 DEF DoneInv
  <2>11. Ordered(x)'
    <3>1. (Planned(x) /\ InGroup(x))'
      BY <1>13 DEF Planned, InGroup
    <3>2. Loaded(x)'
      BY <1>2, <1>6, <1>13, <2>5 DEF Loaded, LoopPlaces, StepPlaces
    <3>3. Passed(x)'
      <4>1. \A r \in K : r.status \in Settled
        BY <1>1, <1>2, <1>7, <2>1, <2>2 DEF Ordered, Passed
      <4>2. \A r \in rows' : r.pos < x.index => r.status \in Settled
        BY <1>2, <1>8, <1>13, <2>6, <4>1
      <4> QED
        BY <1>13, <4>2 DEF Passed
    <3>4. (Writing(x) /\ Completing(x))'
      BY <1>8, <1>15, <2>3 DEF Writing, Completing
    <3>5. (Storing(x) /\ Doing(x))'
      BY <1>13 DEF Storing, Doing, LoopPlaces, StepPlaces
    <3> QED
      BY <3>1, <3>2, <3>3, <3>4, <3>5 DEF Ordered
  <2> QED
    BY <1>13, <1>14, <1>19, <2>2, <2>7, <2>8, <2>9, <2>10, <2>11, SoloMove
<1> QED
  BY <1>8, <1>18, <1>19 DEF SoloInv

\* The executor's next statement: the rest stays to be written.
LEMMA RestOfWrites ==
    ASSUME RunInv, NEW e \in Slots, Write(e)
    PROVE  \E x \in Executors :
             /\ Moved(e, x) /\ Kept(x, exec[e]) /\ x.at = exec[e].at /\ x.spoiled = exec[e].spoiled
             /\ Len(exec[e].todo) \in Nat \ {0} /\ Len(x.todo) = Len(exec[e].todo) - 1
             /\ \A i \in 1 .. Len(x.todo) : i + 1 \in 1 .. Len(exec[e].todo) /\ x.todo[i] = exec[e].todo[i + 1]
             /\ Head(exec[e].todo) = exec[e].todo[1] /\ exec[e].todo[1] \in Writes
<1>1. /\ exec[e] \in Executors /\ exec \in [Slots -> Executors]
      /\ exec[e].todo \in Seq(Writes) /\ exec[e].todo # <<>>
  BY DEF RunInv, ExecTypes, Executors, Write
<1>2. PICK x : x = [exec[e] EXCEPT !.todo = Tail(@)]
  OBVIOUS
<1>3. PICK todo \in Seq(Writes) : todo = exec[e].todo
  BY <1>1
<1>4. /\ Len(todo) \in Nat \ {0} /\ Tail(todo) \in Seq(Writes) /\ Len(Tail(todo)) = Len(todo) - 1
      /\ \A i \in 1 .. Len(Tail(todo)) : Tail(todo)[i] = todo[i + 1]
      /\ Head(todo) = todo[1] /\ todo[1] \in Writes
  BY <1>1, <1>3, HeadTailProperties
<1>5. \A i \in 1 .. Len(Tail(todo)) : i + 1 \in 1 .. Len(todo)
  BY <1>4
<1>6. x \in Executors
  BY <1>1, <1>2, <1>3, <1>4 DEF Executors
<1>7. /\ x.todo = Tail(todo) /\ x.at = exec[e].at /\ x.spoiled = exec[e].spoiled /\ Kept(x, exec[e])
  BY <1>1, <1>2, <1>3 DEF Executors, Kept
<1>8. Moved(e, x)
  BY <1>1, <1>2 DEF Write, Moved
<1> QED
  BY <1>3, <1>4, <1>5, <1>6, <1>7, <1>8

\* Of the statements to come nothing changes.
LEMMA RestStays ==
    ASSUME RunInv, SoloInv, ~overlapped, NEW e \in Slots, exec[e].todo # <<>>,
           NEW x \in Executors, Kept(x, exec[e]), x.at = exec[e].at,
           Len(exec[e].todo) \in Nat \ {0}, Len(x.todo) = Len(exec[e].todo) - 1,
           \A i \in 1 .. Len(x.todo) : i + 1 \in 1 .. Len(exec[e].todo) /\ x.todo[i] = exec[e].todo[i + 1]
    PROVE  /\ Writing(x) /\ \A i \in 1 .. Len(x.todo) : x.todo[i] # Run("completed")
           /\ restarts = 0 => Doing(x)
           /\ x.at = "leaving" =>
                \A i \in 1 .. Len(x.todo) : \A r \in rows : x.todo[i].step = r.id => ~Spent(r)
           /\ \A i \in 1 .. Len(x.todo) : i \in Nat \ {0} /\ i + 1 # 1
<1>1. /\ x.steps = exec[e].steps /\ x.index = exec[e].index /\ Ordered(exec[e])
      /\ GroupOf(x) = GroupOf(exec[e])
  BY DEF Kept, SoloInv, GroupOf
<1>2. \A i \in 1 .. Len(x.todo) : i \in Nat \ {0} /\ i + 1 # 1
  OBVIOUS
<1>3. Writing(x)
  BY <1>1, <1>2 DEF Ordered, Writing
<1>4. \A i \in 1 .. Len(x.todo) : x.todo[i] # Run("completed")
  BY <1>1, <1>2 DEF Ordered, Completing
<1>5. ASSUME restarts = 0
      PROVE  Doing(x)
  <2>1. Doing(exec[e])
    BY <1>1, <1>5 DEF Ordered
  <2>2. ASSUME x.at = "leaving", NEW i \in 1 .. Len(x.todo), x.todo[i].step # 0, x.todo[i].to = "completed"
        PROVE  i < Len(x.todo) /\ x.todo[i + 1].step = x.todo[i].step /\ x.todo[i + 1].to # "completed"
    <3>1. PICK n \in 1 .. Len(exec[e].todo) : n = i + 1 /\ x.todo[i] = exec[e].todo[n]
      OBVIOUS
    <3>2. /\ n < Len(exec[e].todo) /\ exec[e].todo[n + 1].step = exec[e].todo[n].step
          /\ exec[e].todo[n + 1].to # "completed"
      BY <2>1, <2>2, <3>1 DEF Doing
    <3>3. i < Len(x.todo) /\ i + 1 \in 1 .. Len(x.todo)
      BY <3>1, <3>2
    <3>4. x.todo[i + 1] = exec[e].todo[n + 1]
      BY <3>1, <3>3
    <3> QED
      BY <3>1, <3>2, <3>3, <3>4
  <2> QED
    BY <1>1, <2>1, <2>2 DEF Doing
<1>6. x.at = "leaving" =>
        \A i \in 1 .. Len(x.todo) : \A r \in rows : x.todo[i].step = r.id => ~Spent(r)
  BY <1>1 DEF Ordered, Storing
<1> QED
  BY <1>2, <1>3, <1>4, <1>5, <1>6

\* The row that is written: done behind the executor, or at a step that it has
\* not spent.
LEMMA WrittenRow ==
    ASSUME RunInv, SoloInv, ~overlapped, NEW e \in Slots, exec[e].todo # <<>>,
           Len(exec[e].todo) \in Nat \ {0}, exec[e].todo[1].step # 0,
           NEW r \in rows, r.id = exec[e].todo[1].step
    PROVE  \/ /\ exec[e].at = "loop" /\ exec[e].todo[1].to = "completed"
              /\ r.pos < exec[e].index
           \/ /\ exec[e].at \in StepPlaces /\ ~Spent(r) /\ exec[e].todo[1].to # "completed"
              /\ r.pos >= exec[e].index /\ exec[e].steps[r.pos].status \notin Settled
           \/ exec[e].at = "leaving" /\ ~Spent(r)
<1>1. /\ Ordered(exec[e]) /\ Fit(exec[e]) /\ exec[e] \in Executors
      /\ 1 \in 1 .. Len(exec[e].todo)
  BY DEF SoloInv, RunInv, ExecTypes
<1>2. Len(exec[e].steps) \in Nat /\ exec[e].index \in Nat \ {0}
  BY <1>1, ExecutorParts
<1>3. PICK w : w = exec[e].todo[1]
  OBVIOUS
<1>4. /\ exec[e].at # "loading" /\ w.step # 0 /\ r.id = w.step
      /\ exec[e].at = "loop" => exec[e].index > 1 /\ w = Row(exec[e].steps[exec[e].index - 1].id, "completed")
      /\ exec[e].at \in StepPlaces => w.to \in {"running", "awaiting_approval"}
      /\ exec[e].at \in StepPlaces \ {"grouped"} => w.step = exec[e].steps[exec[e].index].id
      /\ exec[e].at = "grouped" => \E j \in GroupOf(exec[e]) : w.step = exec[e].steps[j].id
  BY <1>1, <1>3 DEF Ordered, Writing
<1>5. exec[e].at \in WritePlaces
  BY <1>1 DEF Fit, Placed
<1>6. CASE exec[e].at = "loop"
  <2>1. exec[e].index <= Len(exec[e].steps) + 1 /\ exec[e].at \in LoopPlaces
    BY <1>1, <1>6 DEF Ordered, Loaded, LoopPlaces
  <2>2. PICK k \in 1 .. Len(exec[e].steps) : k = exec[e].index - 1
    <3>1. exec[e].index > 1
      BY <1>4, <1>6
    <3>2. exec[e].index - 1 \in 1 .. Len(exec[e].steps)
      BY <1>2, <2>1, <3>1
    <3> QED
      BY <3>2
  <2>3. w.to = "completed" /\ w.step = exec[e].steps[k].id
    BY <1>4, <1>6, <2>2 DEF Row
  <2>4. r.pos = k
    BY <1>4, <2>1, <2>3, PositionOfStep
  <2> QED
    BY <1>2, <1>3, <1>6, <2>2, <2>3, <2>4
<1>7. CASE exec[e].at \in StepPlaces \ {"grouped"}
  <2>1. exec[e].at \in LoopPlaces /\ exec[e].index \in 1 .. Len(exec[e].steps)
    BY <1>1, <1>2, <1>7 DEF LoopPlaces, Fit, Placed
  <2>2. r.pos = exec[e].index
    BY <1>4, <1>7, <2>1, PositionOfStep
  <2>3. ~Spent(r) /\ Current(e).status \notin Settled
    BY <1>4, <1>7, CurrentIsUnspent DEF Current
  <2> QED
    BY <1>2, <1>3, <1>4, <1>7, <2>2, <2>3 DEF Current
<1>8. CASE exec[e].at = "grouped"
  <2>1. exec[e].at \in StepPlaces /\ exec[e].at \in LoopPlaces
    BY <1>8 DEF LoopPlaces, StepPlaces
  <2>2. PICK j \in GroupOf(exec[e]) : w.step = exec[e].steps[j].id
    BY <1>4, <1>8
  <2>3. /\ j \in exec[e].index .. Len(exec[e].steps) /\ j \in exec[e].index .. j
        /\ exec[e].steps[j].kind = "read" /\ exec[e].steps[j].status = "pending"
    BY <1>2, <2>2 DEF GroupOf
  <2>4. j \in 1 .. Len(exec[e].steps)
    BY <1>2, <2>3
  <2>5. r.pos = j /\ r.kind = "read"
    BY <1>4, <2>1, <2>2, <2>3, <2>4, PositionOfStep
  <2>6. ~Spent(r) /\ exec[e].steps[r.pos].status \notin Settled
    BY <2>3, <2>5 DEF Spent, Settled
  <2> QED
    BY <1>2, <1>3, <1>4, <2>1, <2>3, <2>5, <2>6
<1>9. CASE exec[e].at = "leaving"
  BY <1>1, <1>3, <1>4, <1>9 DEF Ordered, Storing
<1> QED
  BY <1>4, <1>5, <1>6, <1>7, <1>8, <1>9 DEF WritePlaces, StepPlaces

LEMMA WriteKeeps ==
    ASSUME RunInv, NEW e \in Slots, Write(e)
    PROVE  RunInv' /\ (SoloInv => SoloInv')
<1>1. PICK x \in Executors :
        /\ Moved(e, x) /\ Kept(x, exec[e]) /\ x.at = exec[e].at /\ x.spoiled = exec[e].spoiled
        /\ Len(exec[e].todo) \in Nat \ {0} /\ Len(x.todo) = Len(exec[e].todo) - 1
        /\ \A i \in 1 .. Len(x.todo) : i + 1 \in 1 .. Len(exec[e].todo) /\ x.todo[i] = exec[e].todo[i + 1]
        /\ Head(exec[e].todo) = exec[e].todo[1] /\ exec[e].todo[1] \in Writes
  BY RestOfWrites
<1>2. /\ exec[e].todo # <<>> /\ exec[e] \in Executors /\ Fit(exec[e]) /\ DbTypes /\ IdInv
      /\ exec[e].at \in WritePlaces /\ 1 \in 1 .. Len(exec[e].todo)
  BY <1>1 DEF Write, RunInv, ExecTypes, Fit, Placed
<1>3. PICK w \in Writes : w = exec[e].todo[1]
  BY <1>1
<1>4. /\ x.steps = exec[e].steps /\ x.index = exec[e].index /\ x.busy = exec[e].busy
      /\ GroupOf(x) = GroupOf(exec[e])
  BY <1>1 DEF Kept, GroupOf
<1>5. UNCHANGED <<hasPlan, lastId, overlapped, restarts>> /\ MemTypes'
  BY DEF Write, RunInv, MemTypes, bounds
<1>6. lastId \in Nat /\ lastId' >= lastId /\ w.step <= lastId
  <2>1. lastId \in Nat /\ w.step <= lastId
    BY <1>2, <1>3 DEF DbTypes, Fit, Knows
  <2> QED
    BY <1>5, <2>1
<1>7. Fit(x)'
  <2>1. Knows(x)'
    BY <1>1, <1>2, <1>4, <1>5 DEF Fit, Knows
  <2>2. Placed(x)'
    BY <1>1, <1>2, <1>4 DEF Fit, Placed
  <2> QED
    BY <2>1, <2>2 DEF Fit
<1>8. SoloInv /\ ~overlapped =>
        /\ Writing(x) /\ \A i \in 1 .. Len(x.todo) : x.todo[i] # Run("completed")
        /\ restarts = 0 => Doing(x)
        /\ x.at = "leaving" =>
             \A i \in 1 .. Len(x.todo) : \A r \in rows : x.todo[i].step = r.id => ~Spent(r)
  BY <1>1, <1>2, RestStays
<1>9. /\ exec[e].at \notin {"idle", "created", "planning", "batching", "regenerating", "rebatching"}
      /\ exec[e].at \in LoopPlaces \cup {"loading", "leaving"}
  BY <1>2 DEF WritePlaces, LoopPlaces, StepPlaces
<1>10. CASE w.step = 0 /\ status' = w.to /\ UNCHANGED <<rows, stored>>
  <2>1. w \in RunWrites /\ w = Run(w.to) /\ w.to \in Statuses \ {"absent"}
    BY <1>10 DEF Writes, RunWrites, RowWrites, Run
  <2>2. DbTypes' /\ IdInv'
    BY <1>2, <1>5, <1>10, <2>1 DEF DbTypes, IdInv
  <2>3. status' \in {"planning", "running"} => Owes(x)
    <3>1. exec[e].at = "leaving" => w.to \notin {"planning", "running"}
      BY <1>2, <1>3, <1>10 DEF Fit, Placed
    <3> QED
      BY <1>1, <1>9, <1>10, <3>1 DEF Owes
  <2>4. RunInv'
    BY <1>1, <1>5, <1>6, <1>7, <2>2, <2>3, MoveKeepsRunInv
  <2>5. ASSUME SoloInv, ~overlapped
        PROVE  SoloInv'
    <3>1. /\ \A f \in Slots \ {e} : exec[f].at = "idle"
          /\ \A f \in Slots : \A id : Undoing(exec[f], id) => f = e
          /\ status # "absent" /\ Ordered(exec[e])
      BY <1>9, <2>5, OthersAreIdle
    <3>2. RowsInv'
      BY <1>5, <1>10, <2>1, <2>5 DEF SoloInv, RowsInv, PosInv
    <3>3. status' = "completed" => AllSettled /\ x.at = "leaving" /\ Len(x.todo) = 0
      <4>1. w = Run("completed") => exec[e].at = "leaving" /\ Len(exec[e].todo) = 1 /\ AllSettled
        BY <1>2, <1>3, <3>1 DEF Ordered, Completing
      <4> QED
        BY <1>1, <1>10, <2>1, <4>1
    <3>4. CompletedInv' /\ StoredInv'
      BY <1>10, <2>5, <3>3 DEF SoloInv, CompletedInv, AllSettled, StoredInv, Spent
    <3>5. restarts' = 0 => DoneInv'
      <4>1. \A r \in rows : r.id # 0
        BY <1>2 DEF DbTypes, StepRows
      <4>2. \A r \in rows : \A f \in Slots : ~Undoing(exec[f], r.id)
        BY <1>3, <1>10, <3>1, <4>1 DEF Undoing
      <4> QED
        BY <1>5, <1>10, <2>5, <4>2 DEF SoloInv, DoneInv
    <3>6. Ordered(x)'
      <4>1. Planned(x)' /\ Loaded(x)'
        BY <1>1, <1>4, <1>5, <1>9, <1>10, <3>1 DEF Ordered, Planned, Loaded
      <4>2. Writing(x)'
        BY <1>8, <2>5 DEF Writing, GroupOf
      <4>3. Passed(x)'
        <5>1. \A r \in rows : w # Row(r.id, "completed")
          BY <1>2, <1>10 DEF Row, DbTypes, StepRows
        <5> QED
          BY <1>1, <1>3, <1>4, <1>10, <3>1, <5>1 DEF Ordered, Passed
      <4>4. InGroup(x)'
        BY <1>1, <1>2, <1>4, <1>10, <3>1 DEF Ordered, InGroup, GroupOf
      <4>5. Completing(x)'
        <5>1. status' = "completed" => x.at \in {"idle", "resuming", "leaving"} /\ x.todo = <<>>
          BY <3>3, EmptySeq DEF Executors
        <5> QED
          BY <1>8, <2>5, <5>1 DEF Completing
      <4>6. Storing(x)'
        BY <1>1, <1>4, <1>8, <1>10, <2>5, <3>1 DEF Ordered, Storing, Spent
      <4>7. restarts' = 0 => Doing(x)'
        BY <1>5, <1>8, <1>10, <2>5 DEF Doing
      <4> QED
        BY <4>1, <4>2, <4>3, <4>4, <4>5, <4>6, <4>7 DEF Ordered
    <3> QED
      BY <1>1, <2>5, <3>1, <3>2, <3>4, <3>5, <3>6, SoloMove
  <2> QED
    BY <1>5, <2>4, <2>5 DEF SoloInv
<1>11. CASE /\ w.step # 0 /\ rows' = SetRow(w.step, w.to) /\ UNCHANGED status
            /\ stored' = IF exec[e].at = "loop" THEN stored \cup {w.step} ELSE stored
  <2>1. w.step \in Nat \ {0} /\ w.to \in StepStatuses
    BY <1>11 DEF Writes, RunWrites, RowWrites
  <2>2. /\ Renewed(rows')
        /\ \A q \in rows' : \E r \in rows :
             Renews(q, r) /\ q.status = IF r.id = w.step THEN w.to ELSE r.status
    BY <1>2, <1>11, <2>1, SetRowRenews
  <2>3. /\ stored' \subseteq Nat /\ \A id \in stored' : id <= lastId
        /\ stored \subseteq stored'
    BY <1>2, <1>6, <1>11, <2>1 DEF DbTypes, IdInv
  <2>4. DbTypes' /\ IdInv'
    BY <1>2, <1>5, <1>11, <2>2, <2>3, RenewedRowsAreTyped DEF DbTypes
  <2>5. Owes(exec[e]) => Owes(x)
    <3>1. ASSUME NEW i \in 1 .. Len(exec[e].todo), exec[e].todo[i].step = 0
          PROVE  \E j \in 1 .. Len(x.todo) : x.todo[j].step = 0
      <4>1. i # 1
        BY <1>3, <1>11, <3>1
      <4>2. i - 1 \in 1 .. Len(x.todo) /\ i = (i - 1) + 1
        BY <1>1, <4>1
      <4>3. x.todo[i - 1] = exec[e].todo[i]
        BY <1>1, <4>2
      <4> QED
        BY <3>1, <4>2, <4>3
    <3> QED
      BY <1>1, <3>1 DEF Owes
  <2>6. RunInv'
    BY <1>1, <1>5, <1>6, <1>7, <1>11, <2>4, <2>5, MoveKeepsRunInv
  <2>7. ASSUME SoloInv, ~overlapped
        PROVE  SoloInv'
    <3>1. /\ \A f \in Slots \ {e} : exec[f].at = "idle"
          /\ \A f \in Slots : \A id : Undoing(exec[f], id) => f = e
          /\ status # "absent" /\ Ordered(exec[e])
      BY <1>9, <2>7, OthersAreIdle
    <3>2. \A r \in rows : r.id = w.step =>
            \/ exec[e].at = "loop" /\ w.to = "completed" /\ r.pos < exec[e].index
            \/ /\ exec[e].at \in StepPlaces /\ ~Spent(r) /\ w.to # "completed"
               /\ r.pos >= exec[e].index /\ exec[e].steps[r.pos].status \notin Settled
            \/ exec[e].at = "leaving" /\ ~Spent(r)
      BY <1>1, <1>2, <1>3, <1>11, <2>7, WrittenRow
    <3>3. status # "completed"
      BY <1>2, <3>1 DEF Ordered, Completing
    <3>4. RowsInv' /\ CompletedInv'
      BY <1>5, <1>11, <2>2, <2>7, <3>1, <3>3, RenewedRowsInv DEF SoloInv, CompletedInv
    <3>5. "loop" \notin StepPlaces /\ "leaving" \notin StepPlaces /\ "leaving" # "loop"
      BY DEF StepPlaces
    <3>6. ASSUME NEW q \in rows', NEW r \in rows, Renews(q, r),
                 q.status = IF r.id = w.step THEN w.to ELSE r.status
          PROVE  /\ Spent(q)' => q.status = "completed"
                 /\ Spent(q)' => Spent(r) \/ r.pos < exec[e].index
      BY <1>11, <2>7, <3>2, <3>5, <3>6 DEF SoloInv, StoredInv, Spent, Renews
    <3>7. StoredInv'
      BY <2>2, <3>6 DEF StoredInv
    <3>8. ASSUME restarts = 0
          PROVE  DoneInv'
      <4>1. ASSUME NEW r \in rows, r.id = w.step, w.to = "completed"
            PROVE  r.id \in stored' \/ Undoing(x, r.id)
        <5>1. CASE exec[e].at = "loop"
          BY <1>11, <4>1, <5>1
        <5>2. CASE exec[e].at = "leaving"
          <6>1. Doing(exec[e])
            BY <3>1, <3>8 DEF Ordered
          <6>2. /\ 1 < Len(exec[e].todo) /\ exec[e].todo[1 + 1].step = w.step
                /\ exec[e].todo[1 + 1].to # "completed"
            BY <1>2, <1>3, <1>11, <4>1, <5>2, <6>1 DEF Doing
          <6>3. 1 \in 1 .. Len(x.todo) /\ x.todo[1] = exec[e].todo[1 + 1]
            BY <1>1, <6>2
          <6>4. x.todo # <<>>
            BY <6>3, EmptySeq DEF Executors
          <6> QED
            BY <1>1, <4>1, <5>2, <6>2, <6>3, <6>4 DEF Undoing
        <5> QED
          BY <3>2, <4>1, <5>1, <5>2
      <4>2. ASSUME NEW r \in rows, r.id # w.step, r.status = "completed"
            PROVE  r.id \in stored
        <5>1. \A f \in Slots : ~Undoing(exec[f], r.id)
          BY <1>3, <3>1, <4>2 DEF Undoing
        <5> QED
          BY <2>7, <3>8, <4>2, <5>1 DEF SoloInv, DoneInv
      <4>3. exec'[e] = x
        BY <1>1 DEF RunInv, ExecTypes, Moved
      <4>4. ASSUME NEW q \in rows', q.status = "completed"
            PROVE  q.id \in stored' \/ \E f \in Slots : Undoing(exec'[f], q.id)
        <5>1. PICK r \in rows :
                Renews(q, r) /\ q.status = IF r.id = w.step THEN w.to ELSE r.status
          BY <2>2
        <5>2. CASE r.id = w.step
          <6>1. r.id \in stored' \/ Undoing(x, r.id)
            BY <4>1, <4>4, <5>1, <5>2
          <6> QED
            BY <4>3, <5>1, <6>1 DEF Renews
        <5>3. CASE r.id # w.step
          BY <2>3, <4>2, <4>4, <5>1, <5>3 DEF Renews
        <5> QED
          BY <5>2, <5>3
      <4> QED
        BY <4>4 DEF DoneInv, Undoing
    <3>9. Ordered(x)'
      <4>1. Planned(x)'
        BY <1>1, <1>9 DEF Planned
      <4>2. Loaded(x)'
        <5>1. x.at = "loading" => x.index <= Cardinality(rows') + 1
          BY <1>1, <1>4, <2>2, <3>1 DEF Ordered, Loaded, Renewed
        <5>2. x.at \in LoopPlaces =>
                /\ Len(x.steps) = Cardinality(rows') /\ x.index <= Cardinality(rows') + 1
                /\ \A q \in rows' : x.steps[q.pos].id = q.id /\ x.steps[q.pos].kind = q.kind
          BY <1>1, <1>4, <2>2, <3>1 DEF Ordered, Loaded, Renewed, Renews
        <5>3. ASSUME x.at \in LoopPlaces, NEW q \in rows', q.pos >= x.index,
                     x.steps[q.pos].status \in Settled
              PROVE  q.status = x.steps[q.pos].status
          <6>1. PICK r \in rows :
                  Renews(q, r) /\ q.status = IF r.id = w.step THEN w.to ELSE r.status
            BY <2>2
          <6>2. r.pos \in Nat /\ x.index \in Nat /\ r.pos = q.pos
            BY <1>2, <6>1 DEF DbTypes, StepRows, Executors, Renews
          <6>3. "leaving" \notin LoopPlaces
            BY DEF LoopPlaces, StepPlaces
          <6>4. r.id # w.step
            BY <1>1, <1>4, <3>2, <5>3, <6>2, <6>3
          <6>5. r.status = exec[e].steps[r.pos].status
            BY <1>1, <1>4, <3>1, <5>3, <6>2 DEF Ordered, Loaded
          <6> QED
            BY <1>4, <6>1, <6>2, <6>4, <6>5
        <5>4. /\ x.at \notin LoopPlaces \cup {"loading", "leaving"} => x.index = 1
              /\ x.at \in StepPlaces => x.steps[x.index].status \notin Settled
          BY <1>1, <1>4, <3>1 DEF Ordered, Loaded
        <5> QED
          BY <5>1, <5>2, <5>3, <5>4 DEF Loaded
      <4>3. Writing(x)'
        BY <1>8, <2>7 DEF Writing, GroupOf
      <4>4. Passed(x)'
        <5>1. ASSUME x.at \in LoopPlaces \cup {"loading"}, NEW q \in rows', q.pos < x.index
              PROVE  q.status \in Settled
          <6>1. PICK r \in rows :
                  Renews(q, r) /\ q.status = IF r.id = w.step THEN w.to ELSE r.status
            BY <2>2
          <6>2. r.pos \in Nat /\ x.index \in Nat /\ r.pos < x.index
            BY <1>2, <5>1, <6>1 DEF DbTypes, StepRows, Executors, Renews
          <6>3. CASE r.id = w.step
            <7>1. exec[e].at # "leaving"
              BY <1>1, <5>1 DEF LoopPlaces, StepPlaces
            <7>2. w.to = "completed"
              BY <1>4, <3>2, <6>2, <6>3, <7>1
            <7> QED
              BY <6>1, <6>3, <7>2 DEF Settled
          <6>4. CASE r.id # w.step
            <7>1. w # Row(r.id, "completed")
              BY <6>4 DEF Row
            <7>2. r.status \in Settled
              BY <1>1, <1>3, <1>4, <3>1, <5>1, <6>2, <7>1 DEF Ordered, Passed
            <7> QED
              BY <6>1, <6>4, <7>2
          <6> QED
            BY <6>3, <6>4
        <5> QED
          BY <5>1 DEF Passed
      <4>5. InGroup(x)'
        <5>1. ASSUME x.at = "grouped"
              PROVE  /\ x.steps[x.index].kind = "read"
                     /\ \A id \in x.busy : \E j \in GroupOf(x) : id = x.steps[j].id
                     /\ ~x.spoiled => \A r \in rows : r.pos \in GroupOf(x) => r.id \in x.busy
          BY <1>1, <1>2, <1>4, <3>1, <5>1 DEF Ordered, InGroup
        <5>2. ASSUME x.at = "grouped", ~x.spoiled, NEW q \in rows', q.pos \in GroupOf(x)
              PROVE  q.id \in x.busy
          BY <2>2, <5>1, <5>2 DEF Renews
        <5> QED
          BY <5>1, <5>2 DEF InGroup, GroupOf
      <4>6. Completing(x)'
        BY <1>8, <1>11, <2>7, <3>3 DEF Completing
      <4>7. Storing(x)'
        <5>1. ASSUME x.at \in LoopPlaces, NEW q \in rows', q.pos >= x.index, Spent(q)'
              PROVE  x.steps[q.pos].status \in Settled
          <6>1. PICK r \in rows :
                  Renews(q, r) /\ q.status = IF r.id = w.step THEN w.to ELSE r.status
            BY <2>2
          <6>2. r.pos \in Nat /\ x.index \in Nat /\ r.pos = q.pos
            BY <1>2, <6>1 DEF DbTypes, StepRows, Executors, Renews
          <6>3. Spent(r)
            BY <1>4, <3>6, <5>1, <6>1, <6>2
          <6> QED
            BY <1>1, <1>4, <3>1, <5>1, <6>2, <6>3 DEF Ordered, Storing
        <5>2. x.at \in StepPlaces \ {"grouped"} =>
                x.steps[x.index].kind = "read" \/ x.steps[x.index].id \notin stored'
          BY <1>1, <1>4, <1>11, <3>1, <3>5 DEF Ordered, Storing
        <5>3. ASSUME x.at = "leaving", NEW i \in 1 .. Len(x.todo), NEW q \in rows', x.todo[i].step = q.id
              PROVE  ~Spent(q)'
          <6>1. PICK r \in rows : Renews(q, r)
            BY <2>2
          <6>2. ~Spent(r)
            BY <1>8, <2>7, <5>3, <6>1 DEF Renews
          <6> QED
            BY <1>1, <1>11, <3>5, <5>3, <6>1, <6>2 DEF Spent, Renews
        <5> QED
          BY <5>1, <5>2, <5>3 DEF Storing
      <4>8. restarts' = 0 => Doing(x)'
        BY <1>5, <1>8, <2>3, <2>7 DEF Doing
      <4> QED
        BY <4>1, <4>2, <4>3, <4>4, <4>5, <4>6, <4>7, <4>8 DEF Ordered
    <3> QED
      BY <1>1, <1>5, <2>7, <3>1, <3>4, <3>7, <3>8, <3>9, SoloMove
  <2> QED
    BY <1>5, <2>6, <2>7 DEF SoloInv
<1> QED
  BY <1>1, <1>3, <1>10, <1>11 DEF Write

\* A member of a group ends.
LEMMA MemberEndsKeeps ==
    ASSUME RunInv, NEW e \in Slots, NEW id \in exec[e].busy, MemberEnds(e, id)
    PROVE  RunInv' /\ (SoloInv => SoloInv')
<1>1. /\ exec[e].at = "grouped" /\ exec[e].todo = <<>> /\ exec \in [Slots -> Executors]
      /\ exec[e] \in Executors /\ Fit(exec[e]) /\ DbTypes /\ IdInv /\ lastId \in Nat
  BY DEF MemberEnds, At, RunInv, ExecTypes, DbTypes
<1>2. id \in Nat \ {0} /\ id <= lastId
  BY <1>1, ExecutorParts DEF Fit, Knows
<1>3. PICK to \in {"completed", "failed"} :
        /\ rows' = SetRow(id, to)
        /\ \/ /\ to = "completed" /\ stored' = stored \cup {id}
              /\ exec' = [exec EXCEPT ![e].busy = @ \ {id}]
           \/ /\ to = "failed" /\ stored' = stored
              /\ exec' = [exec EXCEPT ![e].busy = @ \ {id}, ![e].spoiled = TRUE]
  BY DEF MemberEnds
<1>4. PICK spoiled \in BOOLEAN : spoiled = (exec[e].spoiled \/ to = "failed")
  OBVIOUS
<1>5. PICK x : x = [exec[e] EXCEPT !.busy = @ \ {id}, !.spoiled = spoiled]
  OBVIOUS
<1>6. /\ x \in Executors /\ x.at = "grouped" /\ x.steps = exec[e].steps /\ x.index = exec[e].index
      /\ x.busy = exec[e].busy \ {id} /\ x.todo = exec[e].todo /\ x.spoiled = spoiled
  BY <1>1, <1>5 DEF Executors
<1>7. Moved(e, x)
  <2>1. CASE exec' = [exec EXCEPT ![e].busy = @ \ {id}] /\ to = "completed"
    <3>1. x = [exec[e] EXCEPT !.busy = @ \ {id}]
      BY <1>1, <1>4, <1>5, <2>1 DEF Executors
    <3> QED
      BY <1>1, <2>1, <3>1 DEF Moved, Executors
  <2>2. CASE exec' = [exec EXCEPT ![e].busy = @ \ {id}, ![e].spoiled = TRUE] /\ to = "failed"
    <3>1. x = [exec[e] EXCEPT !.busy = @ \ {id}, !.spoiled = TRUE]
      BY <1>1, <1>4, <1>5, <2>2 DEF Executors
    <3> QED
      BY <1>1, <2>2, <3>1 DEF Moved, Executors
  <2> QED
    BY <1>3, <2>1, <2>2
<1>8. UNCHANGED <<status, hasPlan, lastId, overlapped, restarts>> /\ MemTypes'
  BY DEF MemberEnds, RunInv, MemTypes, bounds
<1>9. /\ Len(x.todo) = 0 /\ x.todo = <<>> /\ GroupOf(x) = GroupOf(exec[e])
      /\ exec[e].at \in StepPlaces /\ exec[e].at \in LoopPlaces
  BY <1>1, <1>6 DEF GroupOf, StepPlaces, LoopPlaces
<1>10. to \in StepStatuses
  BY DEF StepStatuses, Settled
<1>11. /\ Renewed(rows')
       /\ \A q \in rows' : \E r \in rows :
            Renews(q, r) /\ q.status = IF r.id = id THEN to ELSE r.status
  BY <1>1, <1>3, <1>10, SetRowRenews
<1>12. /\ stored' \subseteq Nat /\ \A i \in stored' : i <= lastId
       /\ stored \subseteq stored' /\ \A i \in stored' : i = id \/ i \in stored
  BY <1>1, <1>2, <1>3 DEF DbTypes, IdInv
<1>13. DbTypes' /\ IdInv'
  BY <1>1, <1>8, <1>11, <1>12, RenewedRowsAreTyped DEF DbTypes
<1>14. Fit(x)' /\ lastId' >= lastId
  <2>1. Knows(x)'
    BY <1>1, <1>6, <1>8, <1>9 DEF Fit, Knows
  <2>2. Placed(x)'
    BY <1>1, <1>6, <1>9 DEF Fit, Placed
  <2> QED
    BY <1>1, <1>8, <2>1, <2>2 DEF Fit
<1>15. Owes(x)
  BY <1>6 DEF Owes, LoopPlaces, StepPlaces
<1>16. RunInv'
  BY <1>6, <1>7, <1>8, <1>13, <1>14, <1>15, MoveKeepsRunInv
<1>17. ASSUME SoloInv, ~overlapped
       PROVE  SoloInv'
  <2>1. /\ \A f \in Slots \ {e} : exec[f].at = "idle"
        /\ \A f \in Slots : \A i : Undoing(exec[f], i) => f = e
        /\ status # "absent" /\ Ordered(exec[e])
    BY <1>1, <1>17, OthersAreIdle
  <2>2. status # "completed"
    BY <1>1, <2>1 DEF Ordered, Completing
  <2>3. PICK j \in GroupOf(exec[e]) : id = exec[e].steps[j].id
    BY <1>1, <2>1 DEF Ordered, InGroup
  <2>4. j \in 1 .. Len(exec[e].steps) /\ j \in Nat /\ exec[e].index \in Nat /\ exec[e].index <= j
    BY <1>1, <2>3, ExecutorParts DEF GroupOf
  <2>5. exec[e].steps[j].kind = "read" /\ exec[e].steps[j].status \notin Settled
    <3>1. exec[e].steps[j].kind = "read" /\ exec[e].steps[j].status = "pending"
      BY <2>3, <2>4 DEF GroupOf
    <3> QED
      BY <3>1 DEF Settled
  <2>6. \A r \in rows : r.id = id => r.pos = j /\ r.kind = "read"
    BY <1>9, <1>17, <2>3, <2>4, <2>5, PositionOfStep
  <2>7. RowsInv' /\ CompletedInv'
    BY <1>8, <1>11, <1>17, <2>1, <2>2, RenewedRowsInv DEF SoloInv, CompletedInv
  <2>8. ASSUME NEW q \in rows', NEW r \in rows, Renews(q, r), Spent(q)'
        PROVE  Spent(r) /\ r.id # id
    BY <1>12, <2>6, <2>8 DEF Spent, Renews
  <2>9. StoredInv'
    BY <1>11, <1>17, <2>8 DEF StoredInv, SoloInv
  <2>10. restarts' = 0 => DoneInv'
    <3>1. \A f \in Slots : \A i : ~Undoing(exec[f], i)
      BY <1>1, <2>1 DEF Undoing
    <3>2. restarts = 0 => \A r \in rows : r.status = "completed" => r.id \in stored
      BY <1>17, <3>1 DEF SoloInv, DoneInv
    <3>3. ASSUME restarts = 0, NEW q \in rows', q.status = "completed"
          PROVE  q.id \in stored'
      BY <1>3, <1>11, <1>12, <3>2, <3>3 DEF Renews
    <3> QED
      BY <1>8, <3>3 DEF DoneInv
  <2>11. Ordered(x)'
    <3>1. Planned(x)'
      BY <1>6 DEF Planned
    <3>2. Loaded(x)'
      <4>1. /\ Len(x.steps) = Cardinality(rows') /\ x.index <= Cardinality(rows') + 1
            /\ \A q \in rows' : x.steps[q.pos].id = q.id /\ x.steps[q.pos].kind = q.kind
        BY <1>6, <1>9, <1>11, <2>1 DEF Ordered, Loaded, Renewed, Renews
      <4>2. ASSUME NEW q \in rows', q.pos >= x.index, x.steps[q.pos].status \in Settled
            PROVE  q.status = x.steps[q.pos].status
        <5>1. PICK r \in rows : Renews(q, r) /\ q.status = IF r.id = id THEN to ELSE r.status
          BY <1>11
        <5>2. r.pos = q.pos /\ r.id # id
          BY <1>6, <2>5, <2>6, <4>2, <5>1 DEF Renews
        <5> QED
          BY <1>6, <1>9, <2>1, <4>2, <5>1, <5>2 DEF Ordered, Loaded
      <4>3. x.steps[x.index].status \notin Settled
        BY <1>6, <1>9, <2>1 DEF Ordered, Loaded
      <4> QED
        BY <1>1, <1>6, <1>9, <4>1, <4>2, <4>3 DEF Loaded
    <3>3. (Writing(x) /\ Completing(x))'
      BY <1>8, <1>9, <2>2 DEF Writing, Completing
    <3>4. Passed(x)'
      <4>1. ASSUME NEW q \in rows', q.pos < x.index
            PROVE  q.status \in Settled
        <5>1. PICK r \in rows : Renews(q, r) /\ q.status = IF r.id = id THEN to ELSE r.status
          BY <1>11
        <5>2. r.pos < exec[e].index /\ r.pos \in Nat
          BY <1>1, <1>6, <4>1, <5>1 DEF Renews, DbTypes, StepRows
        <5>3. r.id # id
          BY <2>4, <2>6, <5>2
        <5> QED
          BY <1>1, <1>9, <2>1, <5>1, <5>2, <5>3 DEF Ordered, Passed
      <4> QED
        BY <4>1 DEF Passed
    <3>5. InGroup(x)'
      <4>1. x.steps[x.index].kind = "read" /\ \A i \in x.busy : \E k \in GroupOf(x) : i = x.steps[k].id
        BY <1>1, <1>6, <1>9, <2>1 DEF Ordered, InGroup
      <4>2. ASSUME ~x.spoiled, NEW q \in rows', q.pos \in GroupOf(x)
            PROVE  q.id \in x.busy \/ q.status = "completed"
        <5>1. PICK r \in rows : Renews(q, r) /\ q.status = IF r.id = id THEN to ELSE r.status
          BY <1>11
        <5>2. r.id \in exec[e].busy \/ r.status = "completed"
          BY <1>1, <1>4, <1>6, <1>9, <2>1, <4>2, <5>1 DEF Ordered, InGroup, Renews
        <5>3. to = "completed"
          BY <1>3, <1>4, <1>6, <4>2
        <5> QED
          BY <1>6, <5>1, <5>2, <5>3 DEF Renews
      <4> QED
        BY <1>9, <4>1, <4>2 DEF InGroup, GroupOf
    <3>6. Storing(x)'
      <4>1. ASSUME NEW q \in rows', q.pos >= x.index, Spent(q)'
            PROVE  x.steps[q.pos].status \in Settled
        <5>1. PICK r \in rows : Renews(q, r)
          BY <1>11
        <5>2. Spent(r) /\ r.pos = q.pos
          BY <2>8, <4>1, <5>1 DEF Renews
        <5> QED
          BY <1>6, <1>9, <2>1, <4>1, <5>2 DEF Ordered, Storing
      <4> QED
        BY <1>6, <4>1 DEF Storing
    <3>7. restarts' = 0 => Doing(x)'
      BY <1>6, <1>8, <1>9, <1>12, <2>1 DEF Ordered, Doing
    <3> QED
      BY <3>1, <3>2, <3>3, <3>4, <3>5, <3>6, <3>7 DEF Ordered
  <2> QED
    BY <1>6, <1>7, <1>8, <1>17, <2>1, <2>7, <2>9, <2>10, <2>11, SoloMove
<1> QED
  BY <1>8, <1>16, <1>17 DEF SoloInv

-----------------------------------------------------------------------------
(***************************************************************************)
(* Calls, requests and restarts.                                           *)
(***************************************************************************)

\* An idle executor.
LEMMA IdleExecutor ==
    ASSUME RunInv, NEW e \in Slots, exec[e].at = "idle"
    PROVE  /\ exec[e].todo = <<>> /\ exec[e] \in Executors /\ ~Owes(exec[e])
           /\ SoloInv /\ ~overlapped => exec[e].index = 1
  BY DEF RunInv, ExecTypes, Fit, Placed, WritePlaces, Owes, SoloInv, Ordered, Loaded,
         LoopPlaces, StepPlaces

\* StartRun and ResumeRun are called; who is called while all others are idle
\* is alone.
LEMMA CallKeeps ==
    ASSUME RunInv, NEW e \in Slots, NEW at \in {"created", "resuming"}, NEW todo \in Seq(Writes),
           todo = <<>>, Goes(e, at, todo), exec[e].at = "idle", Called(e),
           UNCHANGED <<hasPlan, rows, lastId, ctx, inbox, registered, user>>,
           \/ status = "absent" /\ status' = "planning" /\ at = "created"
           \/ status # "absent" /\ UNCHANGED status /\ at = "resuming"
    PROVE  RunInv' /\ (SoloInv => SoloInv')
<1>1. /\ exec[e].todo = <<>> /\ exec[e] \in Executors /\ ~Owes(exec[e]) /\ ExecTypes
      /\ SoloInv /\ ~overlapped => exec[e].index = 1
  BY IdleExecutor DEF RunInv
<1>2. PICK x \in Executors : Moved(e, x) /\ x.at = at /\ x.todo = todo /\ Kept(x, exec[e])
  <2>1. at \in Places
    BY DEF Places
  <2> QED
    BY <1>1, <2>1, GoesMoves
<1>3. Len(x.todo) = 0 /\ x.todo = <<>>
  BY <1>2
<1>4. UNCHANGED <<hasPlan, rows, lastId, stored, restarts>> /\ status' \in Statuses \ {"absent"}
  BY DEF Called, RunInv, DbTypes, Statuses
<1>5. MemTypes'
  <2>1. sessions' \in Nat /\ overlapped' \in BOOLEAN /\ UNCHANGED <<requests, restarts>>
    BY DEF Called, RunInv, MemTypes
  <2> QED
    BY <2>1 DEF RunInv, MemTypes
<1>6. DbTypes' /\ IdInv' /\ lastId' >= lastId
  BY <1>4 DEF RunInv, DbTypes, IdInv
<1>7. Fit(x)'
  <2>1. Fit(x)
    BY <1>1, <1>2, <1>3, FitStays DEF StepPlaces
  <2> QED
    BY <1>4, <2>1 DEF Fit, Knows, Placed
<1>8. at = "created" => Owes(x)
  BY <1>2 DEF Owes
<1>9. RunInv'
  BY <1>1, <1>2, <1>5, <1>6, <1>7, <1>8, MoveKeepsRunInv
<1>10. ASSUME SoloInv, ~overlapped'
       PROVE  SoloInv'
  <2>1. ~overlapped /\ \A f \in Slots \ {e} : exec[f].at = "idle"
    BY <1>10 DEF Called
  <2>2. x.index = 1 /\ \A f \in Slots : \A id : ~Undoing(exec[f], id)
    BY <1>1, <1>2, <1>10, <2>1 DEF Kept, Undoing
  <2>3. at = "created" => rows = {}
    BY <1>10, <2>1 DEF SoloInv, RowsInv
  <2>4. RowsInv'
    BY <1>4, <1>10, <2>1 DEF SoloInv, RowsInv, PosInv
  <2>5. CompletedInv' /\ StoredInv'
    BY <1>4, <1>10, <2>1 DEF SoloInv, CompletedInv, AllSettled, StoredInv, Spent
  <2>6. restarts' = 0 => DoneInv'
    BY <1>4, <1>10, <2>1, <2>2 DEF SoloInv, DoneInv
  <2>7. Ordered(x)'
    <3>1. (Planned(x) /\ Loaded(x) /\ Passed(x) /\ InGroup(x))'
      BY <1>2, <1>4, <2>2, <2>3 DEF Planned, Loaded, Passed, InGroup, LoopPlaces, StepPlaces
    <3>2. (Writing(x) /\ Completing(x))'
      BY <1>2, <1>3 DEF Writing, Completing
    <3>3. (Storing(x) /\ Doing(x))'
      BY <1>2 DEF Storing, Doing, LoopPlaces, StepPlaces
    <3> QED
      BY <3>1, <3>2, <3>3 DEF Ordered
  <2> QED
    BY <1>2, <1>10, <2>1, <2>4, <2>5, <2>6, <2>7, SoloMove
<1>11. overlapped' => SoloInv'
  BY DEF SoloInv
<1> QED
  BY <1>9, <1>10, <1>11

LEMMA StartKeeps ==
    ASSUME RunInv, NEW e \in Slots, Start(e)
    PROVE  RunInv' /\ (SoloInv => SoloInv')
<1>1. PICK todo \in Seq(Writes) : todo = <<>>
  BY EmptySeq
<1> QED
  BY <1>1, CallKeeps DEF Start, At

LEMMA ResumeKeeps ==
    ASSUME RunInv, NEW e \in Slots, Resume(e)
    PROVE  RunInv' /\ (SoloInv => SoloInv')
<1>1. PICK todo \in Seq(Writes) : todo = <<>>
  BY EmptySeq
<1> QED
  BY <1>1, CallKeeps DEF Resume, At, dbVars

\* What requests and deadlines do leaves the executors alone, and the tables
\* but for a pause or a cancellation.
LEMMA ExecutorsStay ==
    ASSUME RunInv, MemTypes', UNCHANGED <<hasPlan, rows, lastId, exec, stored, restarts, overlapped>>,
           status' = status \/ status' \in {"cancelled", "paused"}
    PROVE  RunInv' /\ (SoloInv => SoloInv')
<1>1. DbTypes' /\ ExecTypes' /\ IdInv'
  BY DEF RunInv, DbTypes, ExecTypes, IdInv, Statuses, Terminal
<1>2. CarryInv' /\ \A e \in Slots : Fit(exec[e])'
  BY DEF RunInv, CarryInv, Owes, Fit, Knows, Placed
<1>3. ASSUME SoloInv, ~overlapped
      PROVE  SoloInv'
  <2>1. Alone' /\ StoredInv' /\ (restarts' = 0 => DoneInv')
    BY <1>3 DEF SoloInv, Alone, StoredInv, Spent, DoneInv, Undoing
  <2>2. RowsInv' /\ CompletedInv'
    BY <1>3 DEF SoloInv, RowsInv, PosInv, CompletedInv, AllSettled
  <2>3. ASSUME NEW e \in Slots
        PROVE  Ordered(exec[e])'
    <3>1. PICK x : x = exec[e] /\ Ordered(x)
      BY <1>3 DEF SoloInv
    <3>2. (Planned(x) /\ Loaded(x))'
      BY <3>1 DEF Ordered, Planned, Loaded
    <3>3. (Writing(x) /\ Passed(x) /\ InGroup(x))'
      BY <3>1 DEF Ordered, Writing, Passed, InGroup, GroupOf
    <3>4. Completing(x)'
      BY <3>1 DEF Ordered, Completing, AllSettled
    <3>5. Storing(x)' /\ (restarts' = 0 => Doing(x)')
      BY <3>1 DEF Ordered, Storing, Spent, Doing
    <3>6. Ordered(x)'
      BY <3>2, <3>3, <3>4, <3>5 DEF Ordered
    <3> QED
      BY <3>1, <3>6
  <2> QED
    BY <2>1, <2>2, <2>3 DEF SoloInv
<1> QED
  BY <1>1, <1>2, <1>3 DEF RunInv, SoloInv

LEMMA UserKeeps ==
    ASSUME RunInv, NEW u \in Users, UserStep(u)
    PROVE  RunInv' /\ (SoloInv => SoloInv')
<1> DEFINE UserPlaces == {"idle", "sending", "cancelling", "marking", "pausing", "stopping"}
<1>1. /\ user \in [Users -> [at : UserPlaces, yes : BOOLEAN]] /\ requests \in Nat
      /\ registered \in Slots \cup {None}
      /\ ctx \in [Slots -> {"live", "cancelled", "expired"}]
      /\ inbox \in [Slots -> {NoAnswer, "yes", "no"}]
  BY DEF RunInv, MemTypes
<1>2. NoRequest \in [at : UserPlaces, yes : BOOLEAN]
  BY DEF NoRequest
<1>3. ASSUME NEW request \in [at : UserPlaces, yes : BOOLEAN], Asked(u, request)
      PROVE  RunInv' /\ (SoloInv => SoloInv')
  <2>1. UNCHANGED <<status, hasPlan, rows, lastId, exec, stored, restarts, overlapped>>
    BY <1>3 DEF Asked, dbVars, history
  <2>2. user' \in [Users -> [at : UserPlaces, yes : BOOLEAN]] /\ requests' \in Nat
    BY <1>1, <1>3 DEF Asked
  <2>3. UNCHANGED <<ctx, inbox, registered, sessions, restarts, overlapped>>
    BY <1>3 DEF Asked, history
  <2>4. MemTypes'
    BY <2>2, <2>3 DEF RunInv, MemTypes
  <2> QED
    BY <2>1, <2>4, ExecutorsStay
<1>4. CASE ReadStep(u)
  <2>1. PICK yes \in BOOLEAN : Asked(u, [at |-> "sending", yes |-> yes])
    BY <1>4 DEF ReadStep
  <2> QED
    BY <1>3, <2>1
<1>5. CASE AskStop(u)
  <2>1. PICK at \in {"cancelling", "pausing"} : Asked(u, [NoRequest EXCEPT !.at = at])
    BY <1>5 DEF AskStop
  <2>2. [NoRequest EXCEPT !.at = at] \in [at : UserPlaces, yes : BOOLEAN]
    BY <1>2
  <2> QED
    BY <1>3, <2>1, <2>2
<1>6. CASE Send(u)
  <2>1. UNCHANGED <<status, hasPlan, rows, lastId, exec, stored, restarts, overlapped>>
    BY <1>6 DEF Send, dbVars, bounds, history
  <2>2. user' \in [Users -> [at : UserPlaces, yes : BOOLEAN]]
    BY <1>1, <1>2, <1>6 DEF Send
  <2>3. inbox' \in [Slots -> {NoAnswer, "yes", "no"}]
    BY <1>1, <1>6 DEF Send
  <2>4. MemTypes'
    BY <1>6, <2>1, <2>2, <2>3 DEF Send, RunInv, MemTypes, bounds
  <2> QED
    BY <2>1, <2>4, ExecutorsStay
<1>7. CASE CancelContext(u)
  <2>1. UNCHANGED <<status, hasPlan, rows, lastId, exec, stored, restarts, overlapped>>
    BY <1>7 DEF CancelContext, dbVars, bounds, history
  <2>2. user' \in [Users -> [at : UserPlaces, yes : BOOLEAN]]
    BY <1>1, <1>2, <1>7 DEF CancelContext
  <2>3. ctx' \in [Slots -> {"live", "cancelled", "expired"}]
    BY <1>1, <1>7 DEF CancelContext
  <2>4. MemTypes'
    BY <1>7, <2>1, <2>2, <2>3 DEF CancelContext, RunInv, MemTypes, bounds
  <2> QED
    BY <2>1, <2>4, ExecutorsStay
<1>8. CASE MarkRun(u)
  <2>1. UNCHANGED <<hasPlan, rows, lastId, exec, stored, restarts, overlapped>>
    BY <1>8 DEF MarkRun, bounds, history
  <2>2. user' \in [Users -> [at : UserPlaces, yes : BOOLEAN]] /\ status' \in {"cancelled", "paused"}
    BY <1>1, <1>2, <1>8 DEF MarkRun
  <2>3. MemTypes'
    BY <1>8, <2>1, <2>2 DEF MarkRun, RunInv, MemTypes, bounds
  <2> QED
    BY <2>1, <2>2, <2>3, ExecutorsStay
<1> QED
  BY <1>4, <1>5, <1>6, <1>7, <1>8 DEF UserStep

LEMMA DeadlineKeeps ==
    ASSUME RunInv, NEW e \in Slots, Deadline(e)
    PROVE  RunInv' /\ (SoloInv => SoloInv')
<1>1. UNCHANGED <<status, hasPlan, rows, lastId, exec, stored, restarts, overlapped>>
  BY DEF Deadline, dbVars, bounds, history
<1>2. MemTypes'
  BY <1>1 DEF Deadline, RunInv, MemTypes, bounds
<1> QED
  BY <1>1, <1>2, ExecutorsStay

\* NewRunner after a crash.
LEMMA RestartKeeps ==
    ASSUME RunInv, Restart
    PROVE  RunInv' /\ (SoloInv => SoloInv')
<1>1. /\ DbTypes /\ IdInv /\ lastId \in Nat /\ restarts \in Nat
      /\ UNCHANGED <<hasPlan, lastId, stored, overlapped>>
  BY DEF Restart, RunInv, DbTypes, MemTypes, history
<1>2. /\ status' \in Statuses /\ status' \notin {"planning", "running"}
      /\ status' = status \/ status' = "paused"
  BY <1>1 DEF Restart, DbTypes, Statuses, Terminal
<1>3. PICK x : x = NoExecutor
  OBVIOUS
<1>4. x \in Executors /\ x.at = "idle" /\ x.todo = <<>> /\ x.steps = <<>> /\ x.index = 1 /\ x.busy = {}
  <2>1. <<>> \in Seq(Writes) /\ <<>> \in Seq(StepRows)
    BY EmptySeq
  <2> QED
    BY <1>3, <2>1 DEF NoExecutor, Executors, Places
<1>5. exec' = [e \in Slots |-> x]
  BY <1>3 DEF Restart
<1>6. /\ Renewed(rows') /\ (status' # "paused" => rows' = rows)
      /\ \A q \in rows' : \E r \in rows :
           Renews(q, r) /\ (q.status = "completed" <=> r.status = "completed")
  <2>1. CASE status' = "paused"
    <3>1. rows' = ResetRows
      BY <2>1 DEF Restart
    <3> QED
      BY <1>1, <2>1, <3>1, ResetRowsRenews
  <2>2. CASE status' # "paused"
    <3>1. rows' = rows
      BY <2>2 DEF Restart
    <3>2. Renewed(rows)
      BY <1>1 DEF Renewed, Renews, DbTypes, IdInv
    <3> QED
      BY <3>1, <3>2 DEF Renews
  <2> QED
    BY <2>1, <2>2
<1>7. DbTypes' /\ IdInv'
  BY <1>1, <1>2, <1>6, RenewedRowsAreTyped DEF DbTypes, IdInv
<1>8. MemTypes'
  <2>1. /\ ctx' \in [Slots -> {"live", "cancelled", "expired"}]
        /\ inbox' \in [Slots -> {NoAnswer, "yes", "no"}] /\ registered' = None
    BY DEF Restart
  <2>2. user' \in [Users -> [at : {"idle", "sending", "cancelling", "marking", "pausing", "stopping"},
                             yes : BOOLEAN]]
    BY DEF Restart, NoRequest
  <2>3. restarts' \in Nat /\ UNCHANGED <<sessions, requests, overlapped>>
    BY <1>1 DEF Restart, history
  <2> QED
    BY <2>1, <2>2, <2>3 DEF RunInv, MemTypes
<1>9. Len(x.todo) = 0 /\ Len(x.steps) = 0
  BY <1>4
<1>10. Fit(x)'
  <2>1. Knows(x)'
    BY <1>4, <1>9 DEF Knows
  <2>2. Placed(x)'
    BY <1>4 DEF Placed, StepPlaces
  <2> QED
    BY <2>1, <2>2 DEF Fit
<1>11. RunInv'
  <2>1. ExecTypes' /\ CarryInv'
    BY <1>2, <1>4, <1>5 DEF ExecTypes, CarryInv
  <2>2. ASSUME NEW e \in Slots
        PROVE  Fit(exec[e])'
    <3>1. exec'[e] = x
      BY <1>5
    <3> QED
      BY <1>10, <3>1 DEF Fit, Knows, Placed
  <2> QED
    BY <1>7, <1>8, <2>1, <2>2 DEF RunInv
<1>12. ASSUME SoloInv, ~overlapped
       PROVE  SoloInv'
  <2>1. Alone'
    BY <1>4, <1>5 DEF Alone
  <2>2. RowsInv'
    <3>1. PosInv'
      BY <1>6, <1>12, RenewedPositions DEF SoloInv, RowsInv
    <3>2. ~hasPlan' => rows' = {}
      BY <1>1, <1>6, <1>12 DEF SoloInv, RowsInv
    <3>3. status' = "absent" => ~hasPlan' /\ \A e \in Slots : exec'[e].at = "idle"
      BY <1>1, <1>2, <1>4, <1>5, <1>12 DEF SoloInv, RowsInv
    <3> QED
      BY <3>1, <3>2, <3>3 DEF RowsInv
  <2>3. CompletedInv'
    BY <1>2, <1>6, <1>12 DEF SoloInv, CompletedInv, AllSettled
  <2>4. StoredInv'
    BY <1>1, <1>6, <1>12 DEF SoloInv, StoredInv, Spent, Renews
  <2>5. restarts' # 0
    BY <1>1 DEF Restart
  <2>6. ASSUME NEW e \in Slots
        PROVE  Ordered(exec[e])'
    <3>1. exec'[e] = x /\ Ordered(x)'
      BY <1>4, <1>5, IdleIsOrdered
    <3> QED
      BY <3>1
  <2> QED
    BY <2>1, <2>2, <2>3, <2>4, <2>5, <2>6 DEF SoloInv
<1> QED
  BY <1>1, <1>11, <1>12 DEF SoloInv

-----------------------------------------------------------------------------
(***************************************************************************)
(* The invariant.                                                          *)
(***************************************************************************)
LEMMA InitHolds ==
    ASSUME Init
    PROVE  RunInv /\ SoloInv
<1>1. PICK x : x = NoExecutor
  OBVIOUS
<1>2. /\ x \in Executors /\ x.at = "idle" /\ x.todo = <<>> /\ x.steps = <<>> /\ x.index = 1 /\ x.busy = {}
      /\ Len(x.todo) = 0 /\ Len(x.steps) = 0
  <2>1. <<>> \in Seq(Writes) /\ <<>> \in Seq(StepRows)
    BY EmptySeq
  <2>2. x \in Executors /\ x.at = "idle" /\ x.todo = <<>> /\ x.steps = <<>> /\ x.index = 1 /\ x.busy = {}
    BY <1>1, <2>1 DEF NoExecutor, Executors, Places
  <2> QED
    BY <2>2
<1>3. exec = [e \in Slots |-> x] /\ \A e \in Slots : exec[e] = x
  BY <1>1 DEF Init
<1>4. DbTypes /\ IdInv
  BY FS_EmptySet DEF Init, DbTypes, Statuses, IdInv
<1>5. MemTypes
  BY DEF Init, MemTypes, NoRequest
<1>6. ExecTypes /\ CarryInv
  BY <1>2, <1>3 DEF Init, ExecTypes, CarryInv
<1>7. Fit(x)
  <2>1. Knows(x)
    BY <1>2 DEF Knows
  <2>2. Placed(x)
    BY <1>2 DEF Placed, StepPlaces
  <2> QED
    BY <2>1, <2>2 DEF Fit
<1>8. Ordered(x)
  <2>1. Planned(x) /\ (status = "completed" => x.at \in {"idle", "resuming"})
    BY <1>2 DEF Planned
  <2> QED
    BY <1>2, <2>1, OrderedOutside DEF LoopPlaces, StepPlaces
<1>9. Alone /\ RowsInv /\ CompletedInv /\ StoredInv /\ DoneInv
  BY <1>2, <1>3 DEF Init, Alone, RowsInv, PosInv, CompletedInv, StoredInv, DoneInv
<1>10. RunInv
  BY <1>3, <1>4, <1>5, <1>6, <1>7 DEF RunInv
<1>11. SoloInv
  BY <1>3, <1>8, <1>9 DEF SoloInv
<1> QED
  BY <1>10, <1>11

LEMMA StepKeeps ==
    ASSUME RunInv, [Next]_agentVars
    PROVE  RunInv' /\ (SoloInv => SoloInv')
<1>1. ASSUME NEW e \in Slots, ExecutorStep(e)
      PROVE  RunInv' /\ (SoloInv => SoloInv')
  <2>1. CASE Write(e)
    BY <2>1, WriteKeeps
  <2>2. CASE Register(e) \/ MakePlan(e) \/ CreateBatch(e) \/ ReadRun(e) \/ Reset(e)
    BY <2>2, RegisterKeeps, MakePlanKeeps, CreateBatchKeeps, ReadRunKeeps, ResetKeeps
  <2>3. CASE Begin(e) \/ Load(e) \/ LoopInterrupted(e) \/ Finish(e) \/ Skip(e)
    BY <2>3, BeginKeeps, LoadKeeps, LoopInterruptedKeeps, FinishKeeps, SkipKeeps
  <2>4. CASE BeginStep(e) \/ Ask(e) \/ Answered(e) \/ WaitEnds(e) \/ Succeed(e) \/ Err(e)
    BY <2>4, BeginStepKeeps, AskKeeps, AnsweredKeeps, WaitEndsKeeps, SucceedKeeps, ErrKeeps
  <2>5. CASE Retry(e) \/ FailStepAndRun(e) \/ AskRepair(e) \/ Replan(e)
    BY <2>5, RetryKeeps, FailStepAndRunKeeps, AskRepairKeeps, ReplanKeeps
  <2>6. CASE BeginGroup(e) \/ (\E id \in exec[e].busy : MemberEnds(e, id)) \/ GroupEnds(e)
    BY <2>6, BeginGroupKeeps, MemberEndsKeeps, GroupEndsKeeps
  <2>7. CASE FinishInterrupted(e) \/ Leave(e)
    BY <2>7, FinishInterruptedKeeps, LeaveKeeps
  <2> QED
    BY <1>1, <2>1, <2>2, <2>3, <2>4, <2>5, <2>6, <2>7 DEF ExecutorStep
<1>2. ASSUME NEW e \in Slots, Start(e) \/ Resume(e) \/ Deadline(e)
      PROVE  RunInv' /\ (SoloInv => SoloInv')
  BY <1>2, StartKeeps, ResumeKeeps, DeadlineKeeps
<1>3. ASSUME NEW u \in Users, UserStep(u)
      PROVE  RunInv' /\ (SoloInv => SoloInv')
  BY <1>3, UserKeeps
<1>4. CASE Restart
  BY <1>4, RestartKeeps
<1>5. CASE UNCHANGED agentVars
  <2>1. UNCHANGED <<status, hasPlan, rows, lastId, exec, ctx, inbox, registered, user,
                    sessions, requests, restarts, stored, overlapped>>
    BY <1>5 DEF agentVars, dbVars, memVars, bounds, history
  <2>2. MemTypes'
    BY <2>1 DEF RunInv, MemTypes
  <2> QED
    BY <2>1, <2>2, ExecutorsStay
<1> QED
  BY <1>1, <1>2, <1>3, <1>4, <1>5 DEF Next

\* Every run keeps its invariant, and while no resume overlaps another call,
\* what is done and what is still to do are known.
THEOREM RunInvariant == Spec => [](RunInv /\ SoloInv)
<1>1. Init => RunInv /\ SoloInv
  BY InitHolds
<1>2. RunInv /\ SoloInv /\ [Next]_agentVars => (RunInv /\ SoloInv)'
  BY StepKeeps
<1> QED
  BY <1>1, <1>2, PTL DEF Spec

-----------------------------------------------------------------------------
(***************************************************************************)
(* What a step may do to an executor.                                      *)
(***************************************************************************)

\* An executor changes by its own steps and by the end of the process.
LEMMA OwnSteps ==
    ASSUME RunInv, Next, NEW e \in Slots, exec'[e] # exec[e]
    PROVE  Start(e) \/ Resume(e) \/ ExecutorStep(e) \/ Restart
<1>1. exec \in [Slots -> Executors]
  BY DEF RunInv, ExecTypes
<1>2. ASSUME NEW f \in Slots, f # e, ExecutorStep(f)
      PROVE  FALSE
  <2>1. CASE Write(f) \/ Register(f) \/ MakePlan(f) \/ CreateBatch(f) \/ ReadRun(f) \/ Reset(f)
    BY <1>1, <1>2, <2>1 DEF Write, Register, MakePlan, CreateBatch, ReadRun, Reset, Goes
  <2>2. CASE Begin(f) \/ Load(f) \/ LoopInterrupted(f) \/ Finish(f) \/ Skip(f) \/ BeginStep(f)
    BY <1>1, <1>2, <2>2 DEF Begin, Load, LoopInterrupted, Finish, Skip, BeginStep, Goes
  <2>3. CASE Ask(f) \/ Answered(f) \/ WaitEnds(f) \/ Succeed(f) \/ Err(f)
    BY <1>1, <1>2, <2>3 DEF Ask, Answered, WaitEnds, Succeed, Err, Goes
  <2>4. CASE Retry(f) \/ FailStepAndRun(f) \/ AskRepair(f) \/ Replan(f) \/ BeginGroup(f)
    BY <1>1, <1>2, <2>4 DEF Retry, FailStepAndRun, AskRepair, Replan, BeginGroup, Goes
  <2>5. CASE (\E id \in exec[f].busy : MemberEnds(f, id)) \/ GroupEnds(f) \/ FinishInterrupted(f) \/ Leave(f)
    BY <1>1, <1>2, <2>5 DEF MemberEnds, GroupEnds, FinishInterrupted, Leave, Goes
  <2> QED
    BY <1>2, <2>1, <2>2, <2>3, <2>4, <2>5 DEF ExecutorStep
<1>3. ASSUME NEW f \in Slots, f # e, Start(f) \/ Resume(f)
      PROVE  FALSE
  BY <1>1, <1>3 DEF Start, Resume, Goes
<1>4. \A f \in Slots : ~Deadline(f)
  BY DEF Deadline
<1>5. \A u \in Users : ~UserStep(u)
  BY DEF UserStep, ReadStep, Asked, Send, AskStop, CancelContext, MarkRun
<1> QED
  BY <1>2, <1>3, <1>4, <1>5 DEF Next

LEMMA GroupPlace ==
    ASSUME RunInv, NEW e \in Slots, BeginGroup(e)
    PROVE  exec'[e].at = "grouped"
<1>1. PICK ids, todo : ids = MemberIds(e) /\ todo = MemberWrites(e)
  OBVIOUS
<1>2. ids = {exec[e].steps[i].id : i \in Group(e)} /\ todo = SetToSeq({Row(id, "running") : id \in ids})
  BY <1>1 DEF MemberIds, MemberWrites
<1>3. \/ exec' = [exec EXCEPT ![e].at = "grouped", ![e].busy = ids, ![e].spoiled = FALSE, ![e].todo = todo]
      \/ exec' = [exec EXCEPT ![e].at = "grouped", ![e].spoiled = TRUE]
  BY <1>2 DEF BeginGroup
<1>4. exec \in [Slots -> Executors]
  BY DEF RunInv, ExecTypes
<1> QED
  BY <1>3, <1>4 DEF Executors

\* A step is begun by the loop and by a retry.
LEMMA WaysIntoExecuting ==
    ASSUME RunInv, Next, NEW e \in Slots, exec[e].at # "executing", exec'[e].at = "executing"
    PROVE  BeginStep(e) \/ Retry(e)
<1>1. exec \in [Slots -> Executors] /\ exec[e] \in Executors
  BY DEF RunInv, ExecTypes
<1>2. Start(e) \/ Resume(e) \/ ExecutorStep(e) \/ Restart
  BY OwnSteps
<1>3. ~Start(e) /\ ~Resume(e) /\ ~Restart
  BY <1>1 DEF Start, Resume, Restart, Goes, NoExecutor, Executors
<1>4. ~Write(e) /\ ~Register(e) /\ ~MakePlan(e) /\ ~CreateBatch(e) /\ ~ReadRun(e) /\ ~Reset(e)
  <2>1. ~Write(e)
    BY <1>1 DEF Write, Executors
  <2> QED
    BY <1>1, <2>1 DEF Register, MakePlan, CreateBatch, ReadRun, Reset, Goes, Executors
<1>5. ~Begin(e) /\ ~Load(e) /\ ~LoopInterrupted(e) /\ ~Finish(e) /\ ~Skip(e) /\ ~Ask(e)
  BY <1>1 DEF Begin, Load, LoopInterrupted, Finish, Skip, Ask, Ready, At, Goes, Executors
<1>6. ~Answered(e) /\ ~WaitEnds(e) /\ ~Succeed(e) /\ ~Err(e) /\ ~FailStepAndRun(e) /\ ~AskRepair(e)
  BY <1>1 DEF Answered, WaitEnds, Succeed, Err, FailStepAndRun, AskRepair, Goes, Executors
<1>7. ~Replan(e) /\ ~BeginGroup(e) /\ ~GroupEnds(e) /\ ~FinishInterrupted(e) /\ ~Leave(e)
  <2>1. ~Replan(e) /\ ~FinishInterrupted(e) /\ ~Leave(e)
    BY <1>1 DEF Replan, FinishInterrupted, Leave, Goes, NoExecutor, Executors
  <2>2. ~BeginGroup(e)
    BY GroupPlace
  <2>3. ~GroupEnds(e)
    BY <1>1 DEF GroupEnds, Goes, Executors
  <2> QED
    BY <2>1, <2>2, <2>3
<1>8. ASSUME NEW id \in exec[e].busy, MemberEnds(e, id)
      PROVE  FALSE
  BY <1>1, <1>8 DEF MemberEnds, Executors
<1> QED
  BY <1>2, <1>3, <1>4, <1>5, <1>6, <1>7, <1>8 DEF ExecutorStep

\* A step is passed over, within the loop, by Skip.
LEMMA WaysPastAStep ==
    ASSUME RunInv, Next, NEW e \in Slots, exec[e].at = "loop", exec'[e].at = "loop",
           exec'[e].index = exec[e].index + 1
    PROVE  Skip(e)
<1>1. /\ exec \in [Slots -> Executors] /\ exec[e] \in Executors
      /\ exec[e].index \in Nat /\ exec[e].index # exec[e].index + 1
  BY DEF RunInv, ExecTypes, Executors
<1>2. Start(e) \/ Resume(e) \/ ExecutorStep(e) \/ Restart
  BY <1>1, OwnSteps
<1>3. ~Start(e) /\ ~Resume(e) /\ ~Restart
  BY <1>1 DEF Start, Resume, Restart, Goes, NoExecutor, Executors
<1>4. ~Write(e) /\ ~Register(e) /\ ~MakePlan(e) /\ ~CreateBatch(e) /\ ~ReadRun(e) /\ ~Reset(e)
  <2>1. ~Write(e)
    BY <1>1 DEF Write, Executors
  <2> QED
    BY <1>1, <2>1 DEF Register, MakePlan, CreateBatch, ReadRun, Reset, At
<1>5. ~Begin(e) /\ ~Load(e) /\ ~LoopInterrupted(e) /\ ~Finish(e) /\ ~BeginStep(e) /\ ~Ask(e)
  BY <1>1 DEF Begin, Load, LoopInterrupted, Finish, BeginStep, Ask, At, Goes, Executors
<1>6. ~Answered(e) /\ ~WaitEnds(e) /\ ~Succeed(e) /\ ~Err(e) /\ ~Retry(e) /\ ~FailStepAndRun(e) /\ ~AskRepair(e)
  BY <1>1 DEF Answered, WaitEnds, Succeed, Err, Retry, Working, FailStepAndRun, AskRepair, At
<1>7. ~Replan(e) /\ ~BeginGroup(e) /\ ~GroupEnds(e) /\ ~FinishInterrupted(e) /\ ~Leave(e)
  <2>1. ~Replan(e) /\ ~GroupEnds(e) /\ ~FinishInterrupted(e) /\ ~Leave(e)
    BY <1>1 DEF Replan, GroupEnds, FinishInterrupted, Leave, At
  <2>2. ~BeginGroup(e)
    BY GroupPlace
  <2> QED
    BY <2>1, <2>2
<1>8. ASSUME NEW id \in exec[e].busy, MemberEnds(e, id)
      PROVE  FALSE
  BY <1>1, <1>8 DEF MemberEnds, At
<1> QED
  BY <1>2, <1>3, <1>4, <1>5, <1>6, <1>7, <1>8 DEF ExecutorStep

-----------------------------------------------------------------------------
(***************************************************************************)
(* The theorems.                                                           *)
(***************************************************************************)

\* In every reachable state the rows, the channels and the executors hold what
\* the code can put there, and an executor in the middle of a step is at one of
\* the steps that it loaded.
THEOREM AgentTypesHold == Spec => []AgentTypeOK
<1>1. ASSUME RunInv
      PROVE  AgentTypeOK
  <2>1. \A r \in rows : r.id \in 1 .. lastId /\ r.kind \in Kinds /\ r.status \in StepStatuses
    BY <1>1 DEF RunInv, DbTypes, IdInv, StepRows
  <2>2. \A e \in Slots : exec[e] \in Executors /\ Fit(exec[e])
    BY <1>1 DEF RunInv, ExecTypes
  <2>3. \A e \in Slots :
          /\ exec[e].at \in Places
          /\ exec[e].at \in {"waiting", "executing", "asking", "calling", "erred", "repairing",
                             "grouped"} => More(e)
    BY <2>2 DEF Executors, Fit, Placed, StepPlaces, More
  <2> QED
    BY <1>1, <2>1, <2>3 DEF AgentTypeOK, RunInv, DbTypes, MemTypes
<1> QED
  BY <1>1, RunInvariant, PTL

\* Whatever executors, requests, deadlines and NewRunner write, in whatever
\* order, a run that shows as planning or running has a goroutine that will
\* still write what becomes of it.
THEOREM NobodyIsLeftBehind == Spec => []NobodyLeftBehind
<1>1. ASSUME RunInv
      PROVE  NobodyLeftBehind
  <2>1. \A e \in Slots : Owes(exec[e]) => exec[e].at # "idle"
    BY DEF Owes, LoopPlaces, StepPlaces
  <2> QED
    BY <1>1, <2>1 DEF RunInv, CarryInv, NobodyLeftBehind
<1> QED
  BY <1>1, RunInvariant, PTL

\* Unless resumes overlapped, all steps of a completed run are marked completed
\* or skipped, for any plans, replans, groups, retries, answers, pauses, crashes
\* and resumes; and those marked completed were done, if the process never ended.
THEOREM CompletedRunsAreSettled == Spec => []CompletedMeansSettled
<1>1. ASSUME SoloInv
      PROVE  CompletedMeansSettled
  <2> SUFFICES ASSUME status = "completed", ~overlapped, NEW r \in rows
               PROVE  /\ r.status \in Settled
                      /\ r.status = "completed" /\ restarts = 0 => r.id \in stored
    BY DEF CompletedMeansSettled
  <2>1. r.status \in Settled
    BY <1>1 DEF SoloInv, CompletedInv, AllSettled
  <2>2. ASSUME r.status = "completed", restarts = 0
        PROVE  r.id \in stored
    <3>1. \A e \in Slots : exec[e].todo = <<>>
      BY <1>1 DEF SoloInv, Ordered, Completing
    <3>2. \A e \in Slots : ~Undoing(exec[e], r.id)
      BY <3>1 DEF Undoing
    <3> QED
      BY <1>1, <2>2, <3>2 DEF SoloInv, DoneInv
  <2> QED
    BY <2>1, <2>2
<1> QED
  BY <1>1, RunInvariant, PTL

\* Unless resumes overlapped, a step that may have effects is never executed
\* again once its success was written.
THEOREM CheckpointsHold == Spec => CheckpointsAreKept
<1> DEFINE Kept1 ==
        \A e \in Slots :
         /\ exec[e].at # "executing" /\ exec'[e].at = "executing"
         /\ Current(e).kind # "read" /\ ~overlapped
         => Current(e).id \notin stored
<1>1. ASSUME RunInv, SoloInv, Next
      PROVE  Kept1
  <2> SUFFICES ASSUME NEW e \in Slots, exec[e].at # "executing", exec'[e].at = "executing",
                      Current(e).kind # "read", ~overlapped
               PROVE  Current(e).id \notin stored
    OBVIOUS
  <2>1. BeginStep(e) \/ Retry(e)
    BY <1>1, WaysIntoExecuting
  <2>2. exec[e].at \in StepPlaces \/ (exec[e].at = "loop" /\ More(e) /\ Current(e).status \notin Settled)
    BY <2>1 DEF BeginStep, Ready, Retry, At, StepPlaces
  <2> QED
    BY <1>1, <2>2, CurrentIsUnspent
<1>2. RunInv /\ SoloInv /\ [Next]_agentVars => [Kept1]_agentVars
  BY <1>1
<1>3. Spec => [][Kept1]_agentVars
  BY <1>2, RunInvariant, PTL DEF Spec
<1> QED
  BY <1>3 DEF CheckpointsAreKept

\* Within one process, and unless resumes overlapped, a step that the loop
\* passes over as completed was done.
THEOREM PassedStepsAreDone == Spec => PassedMeansDone
<1> DEFINE Done1 ==
        \A e \in Slots :
         /\ exec[e].at = "loop" /\ exec'[e].at = "loop"
         /\ exec'[e].index = exec[e].index + 1
         /\ Current(e).status = "completed" /\ ~overlapped /\ restarts = 0
         => Current(e).id \in stored
<1>1. ASSUME RunInv, SoloInv, Next
      PROVE  Done1
  <2> SUFFICES ASSUME NEW e \in Slots, exec[e].at = "loop", exec'[e].at = "loop",
                      exec'[e].index = exec[e].index + 1,
                      Current(e).status = "completed", ~overlapped, restarts = 0
               PROVE  Current(e).id \in stored
    OBVIOUS
  <2>1. Skip(e) /\ Doing(exec[e]) /\ exec[e] \in Executors
    BY <1>1, WaysPastAStep DEF SoloInv, Ordered, RunInv, ExecTypes
  <2>2. exec[e].index \in 1 .. Len(exec[e].steps) /\ exec[e].index >= exec[e].index
    BY <2>1, ExecutorParts DEF Skip, Ready, More
  <2>3. exec[e].at \in LoopPlaces
    BY DEF LoopPlaces
  <2> QED
    BY <2>1, <2>2, <2>3 DEF Doing, Current
<1>2. RunInv /\ SoloInv /\ [Next]_agentVars => [Done1]_agentVars
  BY <1>1
<1>3. Spec => [][Done1]_agentVars
  BY <1>2, RunInvariant, PTL DEF Spec
<1> QED
  BY <1>3 DEF PassedMeansDone
=============================================================================
