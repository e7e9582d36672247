--------------------------- MODULE SettlementProofs ---------------------------
(***************************************************************************)
(* What settlement keeps for every number of tasks, periods, processes,    *)
(* failures and executions.  The argument: a period that is worked on is   *)
(* closed, the second transaction of a settlement excludes everything that *)
(* writes blocks but the check toggle, so the rows a replan deletes by id  *)
(* are still PLANNED or CHECKED; hence only the settlement of its own      *)
(* period makes a block COMPLETED, and deducts it in the same commit.      *)
(* For runs that end in time, without database errors and races between    *)
(* two commits, two arguments lead to the order of settlement. One process *)
(* may be killed: every run catches up with what has ended before the next *)
(* boundary.  Many processes that are not killed share the period that has *)
(* just ended: the one that opened its check-in finishes it, and no other  *)
(* has left it before.  Either way nothing unsettled lies behind a target, *)
(* no replan meets the UNIQUE constraint, and a plan fits what is left of  *)
(* each task.                                                              *)
(***************************************************************************)
EXTENDS Settlement, FiniteSetTheorems, WellFoundedInduction, TLAPS

\* The row of the cycle is locked by one process at a time.
OneSettlement == \A p, r \in Procs : Planner(p) /\ Planner(r) => p = r

\* A settlement that has begun has a target.
StagesHaveTargets == \A p \in Procs : stage[p] # "idle" => queue[p] # {}

\* The rows a replan has read lie behind its target and are not settled.
RowsUnsettled ==
  \A p \in Procs : Planner(p) =>
    \A x \in removable[p] : x[2] > Target(p) /\ block[x[1]][x[2]] \in Settleable

\* A task is ACTIVE while it has minutes left, and COMPLETED without.
StatusFitsMinutes ==
  \A t \in Tasks : /\ taskStatus[t] = "COMPLETED" => remaining[t] = 0
                   /\ taskStatus[t] = "ACTIVE" => remaining[t] > 0

\* No run works on a period before its end, and no check-in begins earlier.
OnlyClosed ==
  /\ \A p \in Procs : clock[p] <= now /\ \A q \in queue[p] : q < now
  /\ \A p \in Periods : checkIn[p] # "none" => p < now

WorkInv == TypeOK /\ OneSettlement /\ StagesHaveTargets /\ RowsUnsettled /\ OnlyClosed
SettlementInv == WorkInv /\ StatusFitsMinutes /\ MinutesOnce /\ CycleEndsOnce

-----------------------------------------------------------------------------
(* Targets and plans                                                       *)

\* There are finitely many periods.
LEMMA PeriodsFinite == IsFiniteSet(Periods)
  BY FS_Interval, LastAssumption DEF Periods

\* A set of periods that is not empty has an oldest one: the initial segments
\* up to its members are finite sets, and one of them contains no other.
LEMMA OldestExists ==
  ASSUME NEW S \in SUBSET Periods, S # {}
  PROVE  \E q \in S : \A other \in S : q <= other
<1> DEFINE UpTo == {0..q : q \in S}
           R == StrictSubsetOrdering(Periods)
<1>1. S \subseteq Nat /\ \A q \in S : 0..q \in SUBSET Periods
  BY LastAssumption DEF Periods
<1>2. UpTo # {} /\ UpTo \subseteq SUBSET Periods
  BY <1>1
<1>3. IsWellFoundedOn(R, SUBSET Periods)
  <2>1. FiniteSubsetsOf(Periods) = SUBSET Periods
    BY PeriodsFinite, FS_FiniteSubsetsOfFinite
  <2>2. IsWellFoundedOn(R, FiniteSubsetsOf(Periods))
    BY FS_StrictSubsetOrderingWellFounded
  <2> QED
    BY <2>1, <2>2
<1>4. PICK x \in UpTo : \A y \in UpTo : ~(<<y, x>> \in R)
  BY <1>2, <1>3, WFMin
<1>5. PICK q \in S : x = 0..q
  BY <1>4
<1>6. ASSUME NEW other \in S, other < q
      PROVE  FALSE
  <2>1. 0..other \in UpTo /\ 0..other \in SUBSET Periods /\ x \in SUBSET Periods
    BY <1>1, <1>2, <1>4, <1>6
  <2>2. 0..other \subseteq 0..q /\ q \in 0..q /\ q \notin 0..other
    BY <1>1, <1>6
  <2>3. <<0..other, x>> \in R
    BY <1>5, <2>1, <2>2 DEF StrictSubsetOrdering
  <2> QED
    BY <1>4, <2>1, <2>3
<1> QED
  BY <1>1, <1>6

\* The target of a scan is one of its periods.
LEMMA TargetInQueue ==
  ASSUME TypeOK, NEW p \in Procs, queue[p] # {}
  PROVE  Target(p) \in queue[p] /\ Target(p) \in Periods
<1>1. queue[p] \in SUBSET Periods
  BY DEF TypeOK
<1>2. \E q \in queue[p] : \A other \in queue[p] : q <= other
  BY <1>1, OldestExists
<1> QED
  BY <1>1, <1>2 DEF Target

\* A plan is a set of periods for each task, empty for a task that is over.
LEMMA PlanType ==
  ASSUME NEW blk \in [Tasks -> [Periods -> BlockStatus]], NEW c \in Nat,
         NEW left \in [Tasks -> Nat], NEW st, NEW plan \in Plans(blk, c, left, st)
  PROVE  /\ plan \in [Tasks -> SUBSET Periods]
         /\ \A t \in Tasks : st[t] # "ACTIVE" => plan[t] = {}
<1>1. c..Last \subseteq Periods /\ IsFiniteSet(c..Last)
  BY FS_Interval, LastAssumption DEF Periods
<1>2. \A t \in Tasks : Eligible(blk, t, c) \subseteq c..Last
  BY DEF Eligible
<1>3. CASE Eager
  <2>1. plan = [t \in Tasks |-> EarliestOf(Eligible(blk, t, c), Need(blk, t, c, left, st))]
    BY <1>3 DEF Plans
  <2>2. \A t \in Tasks : plan[t] \subseteq Eligible(blk, t, c)
    BY <2>1 DEF EarliestOf
  <2>3. ASSUME NEW t \in Tasks, st[t] # "ACTIVE"
        PROVE  plan[t] = {}
    <3>1. plan[t] = EarliestOf(Eligible(blk, t, c), 0)
      BY <2>1, <2>3 DEF Need
    <3>2. ASSUME NEW x \in plan[t] PROVE FALSE
      <4>1. Cardinality({q \in Eligible(blk, t, c) : q < x}) < 0
        BY <3>1, <3>2 DEF EarliestOf
      <4>2. IsFiniteSet({q \in Eligible(blk, t, c) : q < x})
        BY <1>1, <1>2, FS_Subset
      <4> QED
        BY <4>1, <4>2, FS_CardinalityType
    <3> QED
      BY <3>2
  <2> QED
    BY <1>1, <1>2, <2>1, <2>2, <2>3
<1>4. CASE ~Eager
  <2>1. /\ plan \in [Tasks -> SUBSET (c..Last)]
        /\ \A t \in Tasks : Cardinality(plan[t]) <= Need(blk, t, c, left, st)
    BY <1>4 DEF Plans
  <2>2. ASSUME NEW t \in Tasks, st[t] # "ACTIVE"
        PROVE  plan[t] = {}
    <3>1. IsFiniteSet(plan[t]) /\ Cardinality(plan[t]) \in Nat
      BY <1>1, <2>1, FS_Subset, FS_CardinalityType
    <3>2. Cardinality(plan[t]) <= 0
      BY <2>1, <2>2 DEF Need
    <3> QED
      BY <3>1, <3>2, FS_EmptySet
  <2> QED
    BY <1>1, <2>1, <2>2
<1> QED
  BY <1>3, <1>4

\* A plan that fits changes no row: it adds PLANNED ones where there is none.
LEMMA PlaceAdds ==
  ASSUME NEW blk \in [Tasks -> [Periods -> BlockStatus]],
         NEW plan \in [Tasks -> SUBSET Periods], Fits(blk, plan)
  PROVE  /\ Place(blk, plan) \in [Tasks -> [Periods -> BlockStatus]]
         /\ \A t \in Tasks, p \in Periods :
              /\ p \notin plan[t] => Place(blk, plan)[t][p] = blk[t][p]
              /\ p \in plan[t] => blk[t][p] = "none" /\ Place(blk, plan)[t][p] = "PLANNED"
  BY DEF Place, Fits, BlockStatus

\* Deleting rows keeps the types and the other rows.
LEMMA DeleteType ==
  ASSUME NEW blk \in [Tasks -> [Periods -> BlockStatus]], NEW rows
  PROVE  /\ Delete(blk, rows) \in [Tasks -> [Periods -> BlockStatus]]
         /\ \A t \in Tasks, p \in Periods :
              Delete(blk, rows)[t][p] = IF <<t, p>> \in rows THEN "none" ELSE blk[t][p]
  BY DEF Delete, BlockStatus

\* What settling period q makes of blocks, minutes and tasks.
LEMMA SettledType ==
  ASSUME TypeOK, NEW q \in Periods
  PROVE  /\ SettledBlocks(q) \in [Tasks -> [Periods -> BlockStatus]]
         /\ \A t \in Tasks, p \in Periods :
              SettledBlocks(q)[t][p] =
                IF p # q THEN block[t][p]
                ELSE IF block[t][q] = "CHECKED" THEN "COMPLETED"
                ELSE IF block[t][q] = "PLANNED" THEN "NOT_DONE" ELSE block[t][q]
         /\ SettledMinutes(q) \in [Tasks -> Nat]
         /\ SettledTasks(q) \in [Tasks -> {"ACTIVE", "COMPLETED", "CANCELLED"}]
  BY DEF TypeOK, SettledBlocks, SettledMinutes, SettledTasks, BlockStatus, Less

-----------------------------------------------------------------------------
(* What the steps that write blocks do to them                             *)

\* A replan settles its target; behind it, it only removes rows that are not
\* settled and adds PLANNED ones, and those only for ACTIVE tasks.
LEMMA ReplanEffect ==
  ASSUME TypeOK, StagesHaveTargets, RowsUnsettled, NEW p \in Procs, FinishReplan(p)
  PROVE  /\ Target(p) \in queue[p] /\ Target(p) \in Periods
         /\ block' \in [Tasks -> [Periods -> BlockStatus]]
         /\ \A t \in Tasks, r \in Periods :
              \/ block'[t][r] = SettledBlocks(Target(p))[t][r]
              \/ /\ r > Target(p) /\ block[t][r] \in Settleable \cup {"none"}
                 /\ \/ block'[t][r] = "none"
                    \/ block'[t][r] = "PLANNED" /\ SettledTasks(Target(p))[t] = "ACTIVE"
<1> DEFINE q == Target(p)
           kept == Delete(SettledBlocks(q), removable[p])
<1>1. q \in queue[p] /\ q \in Periods /\ q + 1 \in Nat
  BY TargetInQueue, LastAssumption DEF FinishReplan, At, Periods
<1>2. PICK plan \in Plans(kept, q + 1, SettledMinutes(q), SettledTasks(q)) :
        Fits(kept, plan) /\ block' = Place(kept, plan)
  BY DEF FinishReplan
<1>3. /\ SettledBlocks(q) \in [Tasks -> [Periods -> BlockStatus]]
      /\ SettledMinutes(q) \in [Tasks -> Nat]
      /\ \A t \in Tasks, r \in Periods : r # q => SettledBlocks(q)[t][r] = block[t][r]
  BY <1>1, SettledType
<1>4. /\ kept \in [Tasks -> [Periods -> BlockStatus]]
      /\ \A t \in Tasks, r \in Periods :
           kept[t][r] = IF <<t, r>> \in removable[p] THEN "none" ELSE SettledBlocks(q)[t][r]
  BY <1>3, DeleteType
<1>5. /\ plan \in [Tasks -> SUBSET Periods]
      /\ \A t \in Tasks : SettledTasks(q)[t] # "ACTIVE" => plan[t] = {}
  BY <1>1, <1>2, <1>3, <1>4, PlanType
<1>6. /\ block' \in [Tasks -> [Periods -> BlockStatus]]
      /\ \A t \in Tasks, r \in Periods :
           /\ r \notin plan[t] => block'[t][r] = kept[t][r]
           /\ r \in plan[t] => kept[t][r] = "none" /\ block'[t][r] = "PLANNED"
  BY <1>2, <1>4, <1>5, PlaceAdds
<1>7. \A t \in Tasks, r \in Periods :
        <<t, r>> \in removable[p] => r > q /\ block[t][r] \in Settleable
  BY DEF RowsUnsettled, FinishReplan, At, Planner
<1>8. \A t \in Tasks : \A r \in plan[t] : r > q
  <2>1. \A t \in Tasks : plan[t] \subseteq q + 1 .. Last
    BY <1>2 DEF Plans, EarliestOf, Eligible
  <2> QED
    BY <1>1, <2>1, LastAssumption DEF Periods
<1>9. ASSUME NEW t \in Tasks, NEW r \in Periods
      PROVE  \/ block'[t][r] = SettledBlocks(q)[t][r]
             \/ /\ r > q /\ block[t][r] \in Settleable \cup {"none"}
                /\ \/ block'[t][r] = "none"
                   \/ block'[t][r] = "PLANNED" /\ SettledTasks(q)[t] = "ACTIVE"
  <2>1. CASE r \in plan[t]
    <3>1. block'[t][r] = "PLANNED" /\ kept[t][r] = "none" /\ r > q
      BY <1>6, <1>8, <2>1
    <3>2. SettledTasks(q)[t] = "ACTIVE"
      BY <1>5, <2>1
    <3>3. r # q
      BY <1>1, <3>1 DEF Periods
    <3>4. block[t][r] \in Settleable \cup {"none"}
      BY <1>3, <1>4, <1>7, <3>1, <3>3
    <3> QED
      BY <3>1, <3>2, <3>4
  <2>2. CASE r \notin plan[t]
    BY <1>4, <1>6, <1>7, <2>2
  <2> QED
    BY <2>1, <2>2
<1> QED
  BY <1>1, <1>6, <1>9

\* An execution only removes PLANNED rows and adds others; what else it changes
\* is one ACTIVE task.
LEMMA ExecutionEffect ==
  ASSUME TypeOK, CommitExecution
  PROVE  /\ block' \in [Tasks -> [Periods -> BlockStatus]]
         /\ \A t \in Tasks, r \in Periods :
              \/ block'[t][r] = block[t][r]
              \/ block[t][r] \in {"none", "PLANNED"} /\ block'[t][r] \in {"none", "PLANNED"}
         /\ \E t \in Tasks :
              /\ taskStatus[t] = "ACTIVE"
              /\ \/ /\ UNCHANGED <<remaining, estimated>>
                    /\ taskStatus' = [taskStatus EXCEPT ![t] = "CANCELLED"]
                 \/ \E left \in Nat :
                      /\ left > 0
                      /\ remaining' = [remaining EXCEPT ![t] = left]
                      /\ estimated' = [estimated EXCEPT ![t] = CountOf(block, t, "COMPLETED") + left]
                      /\ taskStatus' = taskStatus
<1>2. PICK t \in Tasks, left \in Nat, total \in Nat, st \in {"ACTIVE", "CANCELLED"} :
        /\ ExecuteCard(t, left, total, st)
        /\ \/ left = remaining[t] /\ total = estimated[t] /\ st = "CANCELLED"
           \/ left > 0 /\ total = CountOf(block, t, "COMPLETED") + left /\ st = "ACTIVE"
  <2>1. PICK t \in Tasks : CancelTask(t) \/ \E left \in 0..InitialMinutes : UpdateMinutes(t, left)
    BY DEF CommitExecution
  <2>2. CASE CancelTask(t)
    <3>1. remaining[t] \in Nat /\ estimated[t] \in Nat
      BY DEF TypeOK
    <3>2. ExecuteCard(t, remaining[t], estimated[t], "CANCELLED")
      BY <2>2 DEF CancelTask
    <3> QED
      BY <3>1, <3>2
  <2>3. CASE \E left \in 0..InitialMinutes : UpdateMinutes(t, left)
    <3>1. PICK left \in 0..InitialMinutes : UpdateMinutes(t, left)
      BY <2>3
    <3> DEFINE checked == IF CheckedNow(block, t, exec.at) THEN 1 ELSE 0
    <3>2. /\ left + checked > 0
          /\ ExecuteCard(t, left + checked, CountOf(block, t, "COMPLETED") + checked + left, "ACTIVE")
      BY <3>1 DEF UpdateMinutes
    <3>3. left + checked \in Nat /\ CountOf(block, t, "COMPLETED") \in Nat
      BY PeriodsFinite, FS_Subset, FS_CardinalityType, MinutesAssumption DEF CountOf
    <3> DEFINE l == left + checked
               n == CountOf(block, t, "COMPLETED") + checked + left
    <3>4. n \in Nat /\ n = CountOf(block, t, "COMPLETED") + l
      BY <3>3
    <3>5. l \in Nat /\ l > 0 /\ ExecuteCard(t, l, n, "ACTIVE")
      BY <3>2, <3>3
    <3> HIDE DEF l, n
    <3> QED
      BY <3>4, <3>5
  <2> QED
    BY <2>1, <2>2, <2>3
<1> DEFINE c == exec.at
           kept == Delete(block, Removable(block, c))
<1>3. c \in Nat
  BY LastAssumption, NoneAssumption DEF CommitExecution, TypeOK, EndOfTime
<1>4. /\ taskStatus[t] = "ACTIVE"
      /\ remaining' = [remaining EXCEPT ![t] = left]
      /\ estimated' = [estimated EXCEPT ![t] = total]
      /\ taskStatus' = [taskStatus EXCEPT ![t] = st]
  BY <1>2 DEF ExecuteCard
<1>5. PICK plan \in Plans(kept, c, remaining', taskStatus') :
        Fits(kept, plan) /\ block' = Place(kept, plan)
  BY <1>2 DEF ExecuteCard
<1>6. /\ kept \in [Tasks -> [Periods -> BlockStatus]]
      /\ \A u \in Tasks, r \in Periods :
           kept[u][r] = IF <<u, r>> \in Removable(block, c) THEN "none" ELSE block[u][r]
  BY DeleteType DEF TypeOK
<1>7. plan \in [Tasks -> SUBSET Periods]
  <2>1. remaining' \in [Tasks -> Nat]
    BY <1>4 DEF TypeOK
  <2> QED
    BY <1>3, <1>5, <1>6, <2>1, PlanType
<1>8. /\ block' \in [Tasks -> [Periods -> BlockStatus]]
      /\ \A u \in Tasks, r \in Periods :
           /\ r \notin plan[u] => block'[u][r] = kept[u][r]
           /\ r \in plan[u] => kept[u][r] = "none" /\ block'[u][r] = "PLANNED"
  BY <1>5, <1>6, <1>7, PlaceAdds
<1>9. \A u \in Tasks, r \in Periods : <<u, r>> \in Removable(block, c) => block[u][r] = "PLANNED"
  BY DEF Removable
<1>10. \/ /\ UNCHANGED <<remaining, estimated>>
          /\ taskStatus' = [taskStatus EXCEPT ![t] = "CANCELLED"]
       \/ /\ left > 0
          /\ estimated' = [estimated EXCEPT ![t] = CountOf(block, t, "COMPLETED") + left]
          /\ taskStatus' = taskStatus
  BY <1>2, <1>4 DEF TypeOK
<1>11. ASSUME NEW u \in Tasks, NEW r \in Periods
       PROVE  \/ block'[u][r] = block[u][r]
              \/ block[u][r] \in {"none", "PLANNED"} /\ block'[u][r] \in {"none", "PLANNED"}
  <2>1. CASE r \in plan[u]
    <3>1. block'[u][r] = "PLANNED" /\ kept[u][r] = "none"
      BY <1>8, <2>1
    <3> QED
      BY <1>6, <1>9, <3>1
  <2>2. CASE r \notin plan[u]
    <3>1. block'[u][r] = kept[u][r]
      BY <1>8, <2>2
    <3> QED
      BY <1>6, <1>9, <3>1
  <2> QED
    BY <2>1, <2>2
<1> QED
  BY <1>4, <1>8, <1>10, <1>11

\* The steps that write neither blocks nor tasks nor check-ins only let time pass.
LEMMA OtherSteps ==
  ASSUME TypeOK, [Next]_vars
  PROVE  \/ UNCHANGED <<cycleVars, block, checkInVars>> /\ now <= now'
         \/ \E p \in Procs : StartSettlement(p) \/ EndWithoutCheckIn(p) \/ FinishReplan(p)
                             \/ SettleLastEvening(p)
         \/ CommitTap \/ CommitExecution
<1> USE LastAssumption
<1>1. CASE Tick
  BY <1>1 DEF Tick, SmallerOf, TypeOK, EndOfTime
<1>2. CASE UNCHANGED vars
  BY <1>2 DEF vars, TypeOK, EndOfTime
<1>3. ASSUME NEW p \in Procs,
             \/ StartProcess(p) \/ ScanFails(p) \/ SettleFails(p) \/ Crash(p) \/ BeginExecution(p)
             \/ \E t \in Tasks : BeginTap(p, t)
      PROVE  UNCHANGED <<now, cycleVars, block, checkInVars>>
  BY <1>3 DEF StartProcess, ScanFails, SettleFails, Crash, BeginExecution, BeginTap
<1>4. ASSUME NEW p \in Procs,
             Scan(p) \/ SkipTarget(p) \/ BeginReplan(p) \/ ReplanRefused(p) \/ FinalizeStops(p) \/ Serve(p)
      PROVE  UNCHANGED <<now, cycleVars, block, checkInVars>>
  BY <1>4 DEF Scan, SkipTarget, BeginReplan, ReplanRefused, FinalizeStops, Serve
<1>5. CASE RefuseTap \/ FailExecution
  BY <1>5 DEF RefuseTap, FailExecution, TypeOK, EndOfTime
<1>6. UNCHANGED now => now <= now'
  BY DEF TypeOK, EndOfTime
<1> QED
  BY <1>1, <1>2, <1>3, <1>4, <1>5, <1>6 DEF Next, WorkerStep

-----------------------------------------------------------------------------
(* The worker: types, locks and time                                       *)

\* A cycle begins with nothing running and nothing settled.
LEMMA InitialWork == Init => SettlementInv
<1> SUFFICES ASSUME Init PROVE SettlementInv
  OBVIOUS
<1> USE LastAssumption, MinutesAssumption
<1>1. PICK plan \in Plans(Empty, 0, remaining, taskStatus) : block = Place(Empty, plan)
  BY DEF Init
<1>2. /\ Empty \in [Tasks -> [Periods -> BlockStatus]]
      /\ \A t \in Tasks, p \in Periods : Empty[t][p] = "none"
      /\ remaining \in [Tasks -> Nat]
  BY DEF Empty, BlockStatus, Init
<1>3. plan \in [Tasks -> SUBSET Periods] /\ Fits(Empty, plan)
  <2>1. plan \in [Tasks -> SUBSET Periods]
    BY <1>1, <1>2, PlanType
  <2> QED
    BY <1>2, <2>1 DEF Fits
<1>4. /\ block \in [Tasks -> [Periods -> BlockStatus]]
      /\ \A t \in Tasks, p \in Periods : block[t][p] # "COMPLETED"
  BY <1>1, <1>2, <1>3, PlaceAdds
<1>5. TypeOK
  BY <1>4 DEF Init, TypeOK, EndOfTime
<1>6. OneSettlement /\ StagesHaveTargets /\ RowsUnsettled /\ OnlyClosed /\ StatusFitsMinutes
  BY DEF Init, OneSettlement, StagesHaveTargets, RowsUnsettled, OnlyClosed, StatusFitsMinutes, Planner
<1>7. MinutesOnce
  <2>1. \A t \in Tasks : {p \in Periods : block[t][p] = "COMPLETED"} = {}
    BY <1>4
  <2>2. \A t \in Tasks : CountOf(block, t, "COMPLETED") = 0
    BY <2>1, FS_EmptySet DEF CountOf
  <2>3. \A t \in Tasks : remaining[t] = InitialMinutes /\ estimated[t] = InitialMinutes
    BY DEF Init
  <2> QED
    BY <2>2, <2>3 DEF MinutesOnce, Less
<1>8. CycleEndsOnce
  BY DEF Init, CycleEndsOnce
<1> QED
  BY <1>5, <1>6, <1>7, <1>8 DEF SettlementInv, WorkInv

\* Every step keeps the types, minutes at or above zero among them.
LEMMA TypeStep == ASSUME WorkInv, [Next]_vars PROVE TypeOK'
<1> USE LastAssumption DEF WorkInv, EndOfTime, cycleVars, checkInVars, workerVars, apiVars, luckVars
<1>1. CASE Tick
  BY <1>1 DEF Tick, SmallerOf, TypeOK
<1>2. CASE UNCHANGED vars
  BY <1>2 DEF vars, TypeOK
<1>3. ASSUME NEW p \in Procs
      PROVE  /\ StartProcess(p) => TypeOK'
             /\ Serve(p) => TypeOK'
             /\ ScanFails(p) => TypeOK'
             /\ BeginExecution(p) => TypeOK'
             /\ (\E t \in Tasks : BeginTap(p, t)) => TypeOK'
             /\ Crash(p) => TypeOK'
  <2>1. StartProcess(p) => TypeOK'
    BY DEF StartProcess, TypeOK
  <2>2. Serve(p) => TypeOK'
    BY DEF Serve, TypeOK
  <2>3. ScanFails(p) => TypeOK'
    BY DEF ScanFails, TypeOK
  <2>4. BeginExecution(p) => TypeOK'
    BY DEF BeginExecution, TypeOK
  <2>5. (\E t \in Tasks : BeginTap(p, t)) => TypeOK'
    BY DEF BeginTap, TypeOK
  <2>6. Crash(p) => TypeOK'
    BY DEF Crash, TypeOK
  <2> QED
    BY <2>1, <2>2, <2>3, <2>4, <2>5, <2>6
<1>4. ASSUME NEW p \in Procs, Scan(p)
      PROVE  TypeOK'
  <2>1. ScheduledTargets(clock[p]) \in SUBSET Periods /\ RecoveryTargets(clock[p]) \in SUBSET Periods
    BY DEF ScheduledTargets, RecoveryTargets
  <2>2. rounds[p] - 1 \in 0..3
    BY <1>4 DEF Scan, TypeOK
  <2> QED
    BY <1>4, <2>1, <2>2 DEF Scan, TypeOK
<1>5. ASSUME NEW p \in Procs,
             SkipTarget(p) \/ ReplanRefused(p) \/ FinalizeStops(p) \/ SettleFails(p)
      PROVE  TypeOK'
  <2>1. /\ queue' = [queue EXCEPT ![p] = @ \ {Target(p)}]
        /\ stage' = [stage EXCEPT ![p] = "idle"]
        /\ removable' = [removable EXCEPT ![p] = {}]
        /\ UNCHANGED <<mode, rounds, clock, now, cycleVars, block, checkInVars, apiVars,
                       crashes, overruns, races>>
        /\ faults' \in {faults, faults + 1}
    BY <1>5 DEF SkipTarget, ReplanRefused, FinalizeStops, SettleFails, NextTarget
  <2> QED
    BY <2>1 DEF TypeOK
<1>6. ASSUME NEW p \in Procs, EndWithoutCheckIn(p)
      PROVE  TypeOK'
  BY <1>6 DEF EndWithoutCheckIn, EndCycle, NextTarget, TypeOK
<1>7. ASSUME NEW p \in Procs, StartSettlement(p)
      PROVE  TypeOK'
  <2>1. Target(p) \in Periods
    BY <1>7, TargetInQueue DEF StartSettlement, At
  <2>2. /\ checkIn' \in [Periods -> {"none", "open", "final"}]
        /\ startedAt' \in [Periods -> 0..EndOfTime]
        /\ startedBy' \in [Periods -> Procs \cup {None}]
    <3>1. \/ UNCHANGED checkInVars
          \/ /\ checkIn' = [checkIn EXCEPT ![Target(p)] = "open"]
             /\ startedAt' = [startedAt EXCEPT ![Target(p)] = clock[p]]
             /\ startedBy' = [startedBy EXCEPT ![Target(p)] = p]
      BY <1>7 DEF StartSettlement
    <3>2. clock[p] \in 0..EndOfTime
      BY DEF TypeOK
    <3>3. CASE UNCHANGED checkInVars
      BY <3>3 DEF TypeOK
    <3>4. CASE /\ checkIn' = [checkIn EXCEPT ![Target(p)] = "open"]
               /\ startedAt' = [startedAt EXCEPT ![Target(p)] = clock[p]]
               /\ startedBy' = [startedBy EXCEPT ![Target(p)] = p]
      BY <2>1, <3>2, <3>4 DEF TypeOK
    <3> QED
      BY <3>1, <3>3, <3>4
  <2>3. /\ stage' = [stage EXCEPT ![p] = "opened"]
        /\ UNCHANGED <<mode, rounds, queue, clock, now, cycleVars, block, removable, apiVars, luckVars>>
    BY <1>7 DEF StartSettlement, Goto
  <2> QED
    BY <2>2, <2>3 DEF TypeOK
<1>8. ASSUME NEW p \in Procs, BeginReplan(p)
      PROVE  TypeOK'
  <2>1. Removable(block, Target(p) + 1) \in SUBSET Blocks
    BY DEF Removable
  <2> QED
    BY <1>8, <2>1 DEF BeginReplan, Goto, TypeOK
<1>9. ASSUME NEW p \in Procs, FinishReplan(p)
      PROVE  TypeOK'
  <2>1. Target(p) \in Periods /\ block' \in [Tasks -> [Periods -> BlockStatus]]
    BY <1>9, ReplanEffect
  <2>2. /\ SettledMinutes(Target(p)) \in [Tasks -> Nat]
        /\ SettledTasks(Target(p)) \in [Tasks -> {"ACTIVE", "COMPLETED", "CANCELLED"}]
    BY <2>1, SettledType
  <2> QED
    BY <1>9, <2>1, <2>2 DEF FinishReplan, NextTarget, TypeOK
<1>10. ASSUME NEW p \in Procs, SettleLastEvening(p)
       PROVE  TypeOK'
  <2>1. Target(p) \in Periods
    BY <1>10, TargetInQueue DEF SettleLastEvening, At
  <2>2. /\ SettledBlocks(Target(p)) \in [Tasks -> [Periods -> BlockStatus]]
        /\ SettledMinutes(Target(p)) \in [Tasks -> Nat]
        /\ SettledTasks(Target(p)) \in [Tasks -> {"ACTIVE", "COMPLETED", "CANCELLED"}]
    BY <2>1, SettledType
  <2> QED
    BY <1>10, <2>1, <2>2 DEF SettleLastEvening, EndCycle, NextTarget, TypeOK
<1>11. CASE CommitTap
  BY <1>11, NoneAssumption DEF CommitTap, CanToggle, BlockStatus, TypeOK
<1>12. CASE RefuseTap \/ FailExecution
  BY <1>12 DEF RefuseTap, FailExecution, TypeOK
<1>13. CASE CommitExecution
  <2>1. block' \in [Tasks -> [Periods -> BlockStatus]]
    BY <1>13, ExecutionEffect
  <2>2. \A t \in Tasks : CountOf(block, t, "COMPLETED") \in Nat
    BY PeriodsFinite, FS_Subset, FS_CardinalityType DEF CountOf
  <2>3. /\ remaining' \in [Tasks -> Nat] /\ estimated' \in [Tasks -> Nat]
        /\ taskStatus' \in [Tasks -> {"ACTIVE", "COMPLETED", "CANCELLED"}]
    <3>1. PICK t \in Tasks :
            \/ /\ UNCHANGED <<remaining, estimated>>
               /\ taskStatus' = [taskStatus EXCEPT ![t] = "CANCELLED"]
            \/ \E left \in Nat :
                 /\ remaining' = [remaining EXCEPT ![t] = left]
                 /\ estimated' = [estimated EXCEPT ![t] = CountOf(block, t, "COMPLETED") + left]
                 /\ taskStatus' = taskStatus
      BY <1>13, ExecutionEffect
    <3>2. \A left \in Nat : CountOf(block, t, "COMPLETED") + left \in Nat
      BY <2>2
    <3> QED
      BY <3>1, <3>2 DEF TypeOK
  <2> QED
    BY <1>13, <2>1, <2>3 DEF CommitExecution, TypeOK
<1> QED
  BY <1>1, <1>2, <1>3, <1>4, <1>5, <1>6, <1>7, <1>8, <1>9, <1>10, <1>11, <1>12, <1>13
  DEF Next, WorkerStep

\* What a step does to the worker of one process and to its locks.
LEMMA LockStep ==
  ASSUME WorkInv, [Next]_vars
  PROVE  OneSettlement' /\ StagesHaveTargets'
<1> USE DEF WorkInv, OneSettlement, StagesHaveTargets, Planner, workerVars
<1>1. CASE Tick
  BY <1>1 DEF Tick
<1>2. CASE UNCHANGED vars
  BY <1>2 DEF vars
<1>3. ASSUME NEW p \in Procs,
             \/ StartProcess(p) \/ Serve(p) \/ ScanFails(p) \/ BeginExecution(p)
             \/ \E t \in Tasks : BeginTap(p, t)
      PROVE  UNCHANGED <<stage, queue>>
  BY <1>3 DEF StartProcess, Serve, ScanFails, BeginExecution, BeginTap
<1>4. CASE CommitTap \/ RefuseTap \/ CommitExecution \/ FailExecution
  BY <1>4 DEF CommitTap, RefuseTap, CommitExecution, FailExecution
<1>5. ASSUME NEW p \in Procs, Scan(p)
      PROVE  OneSettlement' /\ StagesHaveTargets'
  <2>1. stage' = stage /\ queue[p] = {} /\ \A r \in Procs : r # p => queue'[r] = queue[r]
    BY <1>5 DEF Scan, TypeOK
  <2> QED
    BY <2>1
<1>6. ASSUME NEW p \in Procs,
             \/ SkipTarget(p) \/ ReplanRefused(p) \/ FinalizeStops(p) \/ SettleFails(p)
             \/ EndWithoutCheckIn(p) \/ FinishReplan(p) \/ SettleLastEvening(p) \/ Crash(p)
      PROVE  OneSettlement' /\ StagesHaveTargets'
  <2>1. /\ stage'[p] = "idle"
        /\ \A r \in Procs : r # p => stage'[r] = stage[r] /\ queue'[r] = queue[r]
    BY <1>6 DEF SkipTarget, ReplanRefused, FinalizeStops, SettleFails, EndWithoutCheckIn, FinishReplan,
                SettleLastEvening, Crash, NextTarget, TypeOK
  <2> QED
    BY <2>1
<1>7. ASSUME NEW p \in Procs, StartSettlement(p) \/ BeginReplan(p)
      PROVE  OneSettlement' /\ StagesHaveTargets'
  <2>1. /\ queue' = queue /\ queue[p] # {}
        /\ \A r \in Procs : r # p => stage'[r] = stage[r]
        /\ \A r \in Procs : stage[r] # "planning"
    BY <1>7 DEF StartSettlement, BeginReplan, Goto, At, CycleLocked, TypeOK
  <2> QED
    BY <2>1
<1>8. UNCHANGED <<stage, queue>> => OneSettlement' /\ StagesHaveTargets'
  OBVIOUS
<1> QED
  BY <1>1, <1>2, <1>3, <1>4, <1>5, <1>6, <1>7, <1>8 DEF Next, WorkerStep

\* Between the query and the delete of a replan only the toggle writes blocks.
LEMMA RowsStep == ASSUME WorkInv, [Next]_vars PROVE RowsUnsettled'
<1> USE DEF WorkInv, RowsUnsettled, OneSettlement, Planner, workerVars
<1>1. UNCHANGED <<stage, queue, removable, block>> => RowsUnsettled'
  BY DEF Target
<1>2. CASE Tick \/ UNCHANGED vars \/ RefuseTap \/ FailExecution
  BY <1>1, <1>2 DEF Tick, vars, RefuseTap, FailExecution
<1>3. ASSUME NEW p \in Procs,
             \/ StartProcess(p) \/ Serve(p) \/ ScanFails(p) \/ BeginExecution(p)
             \/ \E t \in Tasks : BeginTap(p, t)
      PROVE  RowsUnsettled'
  BY <1>1, <1>3 DEF StartProcess, Serve, ScanFails, BeginExecution, BeginTap
<1>4. CASE CommitExecution
  <2>1. \A p \in Procs : stage'[p] # "planning"
    BY <1>4 DEF CommitExecution, CycleLocked
  <2> QED
    BY <2>1
<1>5. ASSUME NEW p \in Procs,
             \/ SkipTarget(p) \/ FinalizeStops(p) \/ EndWithoutCheckIn(p) \/ SettleLastEvening(p)
             \/ StartSettlement(p) \/ FinishReplan(p)
      PROVE  RowsUnsettled'
  <2>1. \A r \in Procs : r # p => stage[r] # "planning"
    BY <1>5 DEF SkipTarget, FinalizeStops, EndWithoutCheckIn, SettleLastEvening, StartSettlement,
                FinishReplan, At, CycleLocked
  <2>2. stage'[p] # "planning" /\ \A r \in Procs : r # p => stage'[r] = stage[r]
    BY <1>5 DEF SkipTarget, FinalizeStops, EndWithoutCheckIn, SettleLastEvening, StartSettlement,
                FinishReplan, NextTarget, Goto, TypeOK
  <2> QED
    BY <2>1, <2>2
<1>6. ASSUME NEW p \in Procs, Scan(p) \/ ReplanRefused(p) \/ SettleFails(p) \/ Crash(p)
      PROVE  RowsUnsettled'
  <2>1. /\ stage'[p] # "planning" /\ block' = block
        /\ \A r \in Procs : r # p => /\ stage'[r] = stage[r] /\ queue'[r] = queue[r]
                                     /\ removable'[r] = removable[r]
    BY <1>6 DEF Scan, ReplanRefused, SettleFails, Crash, NextTarget, StagesHaveTargets, TypeOK
  <2> QED
    BY <2>1 DEF Target
<1>7. ASSUME NEW p \in Procs, BeginReplan(p)
      PROVE  RowsUnsettled'
  <2>1. /\ removable'[p] = Removable(block, Target(p) + 1) /\ block' = block /\ queue' = queue
        /\ Target(p) \in Periods
        /\ \A r \in Procs : r # p => stage'[r] # "planning"
    BY <1>7, TargetInQueue DEF BeginReplan, Goto, At, CycleLocked, TypeOK
  <2>2. \A x \in Removable(block, Target(p) + 1) :
          x[2] > Target(p) /\ block[x[1]][x[2]] \in Settleable
    BY <2>1, LastAssumption DEF Removable, Blocks, Periods, Settleable
  <2> QED
    BY <2>1, <2>2 DEF Target
<1>8. CASE CommitTap
  <2>1. UNCHANGED <<stage, queue, removable>>
    BY <1>8 DEF CommitTap
  <2>2. \A t \in Tasks, r \in Periods :
          block[t][r] \in Settleable => block'[t][r] \in Settleable
    BY <1>8 DEF CommitTap, CanToggle, Settleable, TypeOK
  <2>3. \A p \in Procs : \A x \in removable[p] : x[1] \in Tasks /\ x[2] \in Periods
    BY DEF TypeOK, Blocks
  <2> QED
    BY <2>1, <2>2, <2>3 DEF Target
<1> QED
  BY <1>2, <1>3, <1>4, <1>5, <1>6, <1>7, <1>8 DEF Next, WorkerStep

\* Runs work on what has ended when they start.
LEMMA ClosedStep == ASSUME WorkInv, [Next]_vars PROVE OnlyClosed'
<1> USE LastAssumption DEF WorkInv, OnlyClosed, Periods, EndOfTime
<1>1. /\ now \in Nat /\ now' \in Nat
      /\ \A p \in Procs : clock[p] \in Nat /\ queue[p] \subseteq Nat
  BY TypeStep DEF TypeOK
<1>2. now <= now'
  BY OtherSteps DEF StartSettlement, EndWithoutCheckIn, FinishReplan, SettleLastEvening, CommitTap,
                    CommitExecution, TypeOK
<1>3. \A p \in Procs : clock'[p] = clock[p] \/ clock'[p] \in {now, now'}
  BY DEF Next, WorkerStep, vars, Tick, StartProcess, Serve, Scan, ScanFails, StartSettlement, SkipTarget,
         EndWithoutCheckIn, BeginReplan, FinishReplan, ReplanRefused, SettleLastEvening, FinalizeStops,
         SettleFails, Crash, BeginTap, CommitTap, RefuseTap, BeginExecution, CommitExecution,
         FailExecution, NextTarget, Goto, workerVars, TypeOK
<1>4. ASSUME NEW p \in Procs, NEW q \in queue'[p]
      PROVE  q < now'
  <2>1. CASE q \in queue[p]
    BY <1>1, <1>2, <2>1
  <2>2. CASE q \notin queue[p]
    <3>1. Scan(p)
      <4>1. \A r \in Procs : NextTarget(r) \/ Crash(r) => queue'[p] \subseteq queue[p]
        <5>1. ASSUME NEW r \in Procs, NextTarget(r)
              PROVE  queue'[p] \subseteq queue[p]
          <6>1. queue' = [queue EXCEPT ![r] = queue[r] \ {Target(r)}]
            BY <5>1 DEF NextTarget
          <6> QED
            BY <6>1 DEF TypeOK
        <5>2. ASSUME NEW r \in Procs, Crash(r)
              PROVE  queue'[p] \subseteq queue[p]
          BY <5>2 DEF Crash, TypeOK
        <5> QED
          BY <5>1, <5>2
      <4>2. \A r \in Procs : Scan(r) /\ r # p => queue'[p] = queue[p]
        BY DEF Scan, TypeOK
      <4>3. \/ queue' = queue \/ \E r \in Procs : Scan(r) \/ NextTarget(r) \/ Crash(r)
        BY DEF Next, WorkerStep, vars, Tick, StartProcess, Serve, ScanFails, StartSettlement, SkipTarget,
               EndWithoutCheckIn, BeginReplan, FinishReplan, ReplanRefused, SettleLastEvening,
               FinalizeStops, SettleFails, BeginTap, CommitTap, RefuseTap, BeginExecution,
               CommitExecution, FailExecution, Goto, workerVars
      <4> QED
        BY <1>4, <2>2, <4>1, <4>2, <4>3
    <3>2. q \in Periods /\ (checkIn[q] = "open" \/ q < clock[p])
      BY <1>4, <3>1 DEF Scan, ScheduledTargets, RecoveryTargets, TypeOK
    <3> QED
      BY <1>1, <1>2, <3>2
  <2> QED
    BY <2>1, <2>2
<1>5. ASSUME NEW q \in Periods, checkIn'[q] # "none"
      PROVE  q < now'
  <2>1. CASE checkIn[q] # "none"
    BY <1>1, <1>2, <2>1 DEF TypeOK
  <2>2. CASE checkIn[q] = "none"
    <3>1. PICK p \in Procs : q = Target(p) /\ queue[p] # {}
      <4>1. PICK p \in Procs : StartSettlement(p) \/ FinishReplan(p) \/ SettleLastEvening(p)
        BY <1>5, <2>2, OtherSteps DEF EndWithoutCheckIn, CommitTap, CommitExecution, checkInVars
      <4> QED
        BY <1>5, <2>2, <4>1 DEF StartSettlement, FinishReplan, SettleLastEvening, At, checkInVars, TypeOK
    <3>2. q \in queue[p]
      BY <3>1, TargetInQueue
    <3> QED
      BY <1>1, <1>2, <3>2 DEF TypeOK
  <2> QED
    BY <2>1, <2>2
<1>6. \A p \in Procs : clock'[p] <= now'
  BY <1>1, <1>2, <1>3
<1> QED
  BY <1>4, <1>5, <1>6

\* The invariant of the worker is inductive.
LEMMA WorkStep == ASSUME WorkInv, [Next]_vars PROVE WorkInv'
  BY TypeStep, LockStep, RowsStep, ClosedStep DEF WorkInv

-----------------------------------------------------------------------------
(* Results, minutes and the end of the cycle                               *)

\* A settled block and a finalized check-in stay.
LEMMA ResultsStep ==
  ASSUME WorkInv, [Next]_vars
  PROVE  /\ \A t \in Tasks, r \in Periods : block[t][r] \in Settled => block'[t][r] = block[t][r]
         /\ \A r \in Periods : checkIn[r] = "final" => checkIn'[r] = "final"
<1> DEFINE Kept == /\ \A t \in Tasks, r \in Periods :
                        block[t][r] \in Settled => block'[t][r] = block[t][r]
                   /\ \A r \in Periods : checkIn[r] = "final" => checkIn'[r] = "final"
<1> USE DEF WorkInv, Settled, cycleVars, checkInVars
<1>1. CASE UNCHANGED <<cycleVars, block, checkInVars>>
  BY <1>1
<1>2. ASSUME NEW p \in Procs, StartSettlement(p) \/ EndWithoutCheckIn(p)
      PROVE  Kept
  <2>1. block' = block /\ \A r \in Periods : checkIn[r] = "final" => checkIn'[r] = "final"
    BY <1>2 DEF StartSettlement, EndWithoutCheckIn, TypeOK
  <2> QED
    BY <2>1
<1>3. ASSUME NEW p \in Procs, FinishReplan(p)
      PROVE  Kept
  <2>1. Target(p) \in Periods /\ checkIn' = [checkIn EXCEPT ![Target(p)] = "final"]
    BY <1>3, ReplanEffect DEF FinishReplan
  <2>2. ASSUME NEW t \in Tasks, NEW r \in Periods, block[t][r] \in Settled
        PROVE  block'[t][r] = block[t][r]
    <3>1. block'[t][r] = SettledBlocks(Target(p))[t][r]
      BY <1>3, <2>2, ReplanEffect DEF Settleable
    <3> QED
      BY <2>1, <2>2, <3>1, SettledType
  <2> QED
    BY <2>1, <2>2 DEF TypeOK
<1>4. ASSUME NEW p \in Procs, SettleLastEvening(p)
      PROVE  Kept
  <2>1. /\ Target(p) \in Periods /\ checkIn' = [checkIn EXCEPT ![Target(p)] = "final"]
        /\ block' = SettledBlocks(Target(p))
    BY <1>4, TargetInQueue DEF SettleLastEvening, At
  <2>2. ASSUME NEW t \in Tasks, NEW r \in Periods, block[t][r] \in Settled
        PROVE  block'[t][r] = block[t][r]
    BY <2>1, <2>2, SettledType
  <2> QED
    BY <2>1, <2>2 DEF TypeOK
<1>5. CASE CommitTap
  BY <1>5 DEF CommitTap, CanToggle, Settleable, TypeOK
<1>6. CASE CommitExecution
  <2>1. checkIn' = checkIn
    BY <1>6 DEF CommitExecution
  <2> QED
    BY <1>6, <2>1, ExecutionEffect
<1> QED
  BY <1>1, <1>2, <1>3, <1>4, <1>5, <1>6, OtherSteps

\* Minutes and status change in one commit, so they go on fitting.
LEMMA StatusStep == ASSUME WorkInv, StatusFitsMinutes, [Next]_vars PROVE StatusFitsMinutes'
<1> USE DEF WorkInv, StatusFitsMinutes, cycleVars
<1>1. CASE UNCHANGED <<cycleVars, block, checkInVars>>
  BY <1>1
<1>2. ASSUME NEW p \in Procs, StartSettlement(p)
      PROVE  StatusFitsMinutes'
  BY <1>2 DEF StartSettlement
<1>3. ASSUME NEW p \in Procs, EndWithoutCheckIn(p)
      PROVE  StatusFitsMinutes'
  BY <1>3 DEF EndWithoutCheckIn, EndCycle, TypeOK
<1>4. ASSUME NEW q \in Periods, NEW t \in Tasks
      PROVE  /\ SettledTasks(q)[t] = "COMPLETED" => SettledMinutes(q)[t] = 0
             /\ SettledTasks(q)[t] = "ACTIVE" => SettledMinutes(q)[t] > 0
  BY <1>4 DEF SettledTasks, SettledMinutes, Less, TypeOK
<1>5. ASSUME NEW p \in Procs, FinishReplan(p) \/ SettleLastEvening(p)
      PROVE  StatusFitsMinutes'
  <2>1. Target(p) \in Periods
    BY <1>5, TargetInQueue DEF FinishReplan, SettleLastEvening, At
  <2>2. CASE FinishReplan(p)
    BY <1>4, <2>1, <2>2 DEF FinishReplan
  <2>3. CASE SettleLastEvening(p)
    BY <1>4, <2>1, <2>3 DEF SettleLastEvening, EndCycle
  <2> QED
    BY <1>5, <2>2, <2>3
<1>6. CASE CommitTap
  BY <1>6 DEF CommitTap
<1>7. CASE CommitExecution
  <2>1. PICK t \in Tasks :
          /\ taskStatus[t] = "ACTIVE"
          /\ \/ /\ remaining' = remaining
                /\ taskStatus' = [taskStatus EXCEPT ![t] = "CANCELLED"]
             \/ \E left \in Nat : /\ left > 0
                                  /\ remaining' = [remaining EXCEPT ![t] = left]
                                  /\ taskStatus' = taskStatus
    BY <1>7, ExecutionEffect
  <2> QED
    BY <2>1 DEF TypeOK
<1> QED
  BY <1>1, <1>2, <1>3, <1>5, <1>6, <1>7, OtherSteps

\* The rows of a task with one status are countable.
LEMMA CountType ==
  ASSUME NEW blk, NEW t, NEW s
  PROVE  CountOf(blk, t, s) \in Nat
  BY PeriodsFinite, FS_Subset, FS_CardinalityType DEF CountOf

\* Rows that keep their status keep their number.
LEMMA CountKept ==
  ASSUME NEW blk1, NEW blk2, NEW t, NEW s,
         \A r \in Periods : blk1[t][r] = s <=> blk2[t][r] = s
  PROVE  CountOf(blk1, t, s) = CountOf(blk2, t, s)
<1>1. {r \in Periods : blk1[t][r] = s} = {r \in Periods : blk2[t][r] = s}
  OBVIOUS
<1> QED
  BY <1>1 DEF CountOf

\* A block becomes COMPLETED in the commit that deducts it.
LEMMA SettledOnce ==
  ASSUME TypeOK, StatusFitsMinutes, MinutesOnce, NEW q \in Periods, NEW blk, NEW t \in Tasks,
         \A r \in Periods : blk[t][r] = "COMPLETED" <=> SettledBlocks(q)[t][r] = "COMPLETED"
  PROVE  SettledMinutes(q)[t] = Less(estimated[t], CountOf(blk, t, "COMPLETED"))
<1>1. /\ CountOf(block, t, "COMPLETED") \in Nat /\ estimated[t] \in Nat /\ remaining[t] \in Nat
      /\ remaining[t] = Less(estimated[t], CountOf(block, t, "COMPLETED"))
  BY CountType DEF TypeOK, MinutesOnce
<1>2. CASE block[t][q] = "CHECKED"
  <2>1. \A r \in Periods : blk[t][r] = "COMPLETED" <=> (block[t][r] = "COMPLETED" \/ r = q)
    BY <1>2, SettledType
  <2>2. CountOf(blk, t, "COMPLETED") = CountOf(block, t, "COMPLETED") + 1
    <3> DEFINE S == {r \in Periods : block[t][r] = "COMPLETED"}
    <3>1. {r \in Periods : blk[t][r] = "COMPLETED"} = S \cup {q} /\ q \notin S
      BY <1>2, <2>1
    <3>2. IsFiniteSet(S)
      BY PeriodsFinite, FS_Subset
    <3>3. Cardinality(S \cup {q}) = Cardinality(S) + 1
      BY <3>1, <3>2, FS_AddElement
    <3> QED
      BY <3>1, <3>3 DEF CountOf
  <2>3. SettledMinutes(q)[t] = Less(remaining[t], 1)
    BY <1>2 DEF SettledMinutes, StatusFitsMinutes, Less
  <2> QED
    BY <1>1, <2>2, <2>3 DEF Less
<1>3. CASE block[t][q] # "CHECKED"
  <2>1. \A r \in Periods : blk[t][r] = "COMPLETED" <=> block[t][r] = "COMPLETED"
    <3>1. ASSUME NEW r \in Periods
          PROVE  SettledBlocks(q)[t][r] = "COMPLETED" <=> block[t][r] = "COMPLETED"
      BY <1>3, SettledType
    <3> QED
      BY <3>1
  <2>2. CountOf(blk, t, "COMPLETED") = CountOf(block, t, "COMPLETED")
    BY <2>1, CountKept
  <2>3. SettledMinutes(q)[t] = remaining[t]
    BY <1>3 DEF SettledMinutes
  <2> QED
    BY <1>1, <2>2, <2>3
<1> QED
  BY <1>2, <1>3

\* Minutes fall by one for each block that becomes COMPLETED.
LEMMA MinutesStep ==
  ASSUME WorkInv, StatusFitsMinutes, MinutesOnce, [Next]_vars
  PROVE  MinutesOnce'
<1> USE DEF WorkInv, cycleVars
<1>1. CASE UNCHANGED <<cycleVars, block, checkInVars>>
  BY <1>1 DEF MinutesOnce, CountOf
<1>2. ASSUME NEW p \in Procs, StartSettlement(p) \/ EndWithoutCheckIn(p)
      PROVE  MinutesOnce'
  <2>1. UNCHANGED <<block, remaining, estimated>>
    BY <1>2 DEF StartSettlement, EndWithoutCheckIn
  <2> QED
    BY <2>1 DEF MinutesOnce, CountOf
<1>3. ASSUME NEW p \in Procs, FinishReplan(p)
      PROVE  MinutesOnce'
  <2>1. /\ Target(p) \in Periods
        /\ remaining' = SettledMinutes(Target(p)) /\ estimated' = estimated
    BY <1>3, ReplanEffect DEF FinishReplan
  <2>2. ASSUME NEW t \in Tasks, NEW r \in Periods
        PROVE  block'[t][r] = "COMPLETED" <=> SettledBlocks(Target(p))[t][r] = "COMPLETED"
    <3>1. CASE block'[t][r] = SettledBlocks(Target(p))[t][r]
      BY <3>1
    <3>2. CASE block'[t][r] # SettledBlocks(Target(p))[t][r]
      <4>1. /\ r > Target(p) /\ block[t][r] \in Settleable \cup {"none"}
            /\ block'[t][r] \in {"none", "PLANNED"}
        BY <1>3, <3>2, ReplanEffect
      <4>2. r # Target(p)
        BY <2>1, <4>1 DEF Periods
      <4> QED
        BY <2>1, <4>1, <4>2, SettledType DEF Settleable
    <3> QED
      BY <3>1, <3>2
  <2>3. \A t \in Tasks : SettledMinutes(Target(p))[t] = Less(estimated[t], CountOf(block', t, "COMPLETED"))
    BY <2>1, <2>2, SettledOnce
  <2> QED
    BY <2>1, <2>3 DEF MinutesOnce, CountOf
<1>4. ASSUME NEW p \in Procs, SettleLastEvening(p)
      PROVE  MinutesOnce'
  <2>1. /\ Target(p) \in Periods /\ block' = SettledBlocks(Target(p))
        /\ remaining' = SettledMinutes(Target(p)) /\ estimated' = estimated
    BY <1>4, TargetInQueue DEF SettleLastEvening, At
  <2>2. \A t \in Tasks : SettledMinutes(Target(p))[t] = Less(estimated[t], CountOf(block', t, "COMPLETED"))
    BY <2>1, SettledOnce
  <2> QED
    BY <2>1, <2>2 DEF MinutesOnce, CountOf
<1>5. ASSUME UNCHANGED <<remaining, estimated>>,
             \A t \in Tasks, r \in Periods : block'[t][r] = "COMPLETED" <=> block[t][r] = "COMPLETED"
      PROVE  MinutesOnce'
  <2>1. \A t \in Tasks : CountOf(block', t, "COMPLETED") = CountOf(block, t, "COMPLETED")
    BY <1>5, CountKept
  <2> QED
    BY <1>5, <2>1 DEF MinutesOnce, CountOf
<1>6. CASE CommitTap
  <2>1. /\ UNCHANGED <<remaining, estimated>>
        /\ \A t \in Tasks, r \in Periods : block'[t][r] = "COMPLETED" <=> block[t][r] = "COMPLETED"
    BY <1>6 DEF CommitTap, CanToggle, Settleable, TypeOK
  <2> QED
    BY <1>5, <2>1
<1>7. CASE CommitExecution
  <2>1. \A t \in Tasks, r \in Periods : block'[t][r] = "COMPLETED" <=> block[t][r] = "COMPLETED"
    BY <1>7, ExecutionEffect
  <2>2. CASE UNCHANGED <<remaining, estimated>>
    BY <1>5, <2>1, <2>2
  <2>3. CASE \E t \in Tasks, left \in Nat :
               /\ left > 0
               /\ remaining' = [remaining EXCEPT ![t] = left]
               /\ estimated' = [estimated EXCEPT ![t] = CountOf(block, t, "COMPLETED") + left]
    <3>1. PICK t \in Tasks, left \in Nat :
               /\ left > 0
               /\ remaining' = [remaining EXCEPT ![t] = left]
               /\ estimated' = [estimated EXCEPT ![t] = CountOf(block, t, "COMPLETED") + left]
      BY <2>3
    <3>2. \A u \in Tasks : /\ CountOf(block', u, "COMPLETED") = CountOf(block, u, "COMPLETED")
                           /\ CountOf(block, u, "COMPLETED") \in Nat
      BY <2>1, CountKept, CountType
    <3>3. \A u \in Tasks : remaining'[u] = Less(estimated'[u], CountOf(block', u, "COMPLETED"))
      BY <3>1, <3>2 DEF MinutesOnce, Less, TypeOK
    <3> QED
      BY <3>3 DEF MinutesOnce, CountOf
  <2> QED
    BY <1>7, <2>2, <2>3, ExecutionEffect
<1> QED
  BY <1>1, <1>2, <1>3, <1>4, <1>6, <1>7, OtherSteps

\* The last evening is the last thing a cycle settles, and leaves no task ACTIVE.
LEMMA EndStep ==
  ASSUME WorkInv, StatusFitsMinutes, CycleEndsOnce, [Next]_vars
  PROVE  CycleEndsOnce'
<1> USE LastAssumption DEF WorkInv, cycleVars, checkInVars
<1>1. now \in Nat /\ now' \in Nat /\ Last \in Periods
  BY TypeStep DEF TypeOK, EndOfTime, Periods
<1>2. CASE UNCHANGED <<cycleVars, block, checkInVars>> /\ now <= now'
  BY <1>1, <1>2 DEF CycleEndsOnce, SettleableTasks
<1>3. ASSUME NEW p \in Procs, StartSettlement(p)
      PROVE  CycleEndsOnce'
  <2>1. /\ UNCHANGED <<now, cycle, block, taskStatus>>
        /\ cycle = "ENDED" => UNCHANGED checkIn
    BY <1>3 DEF StartSettlement
  <2> QED
    BY <2>1 DEF CycleEndsOnce, SettleableTasks
<1>4. ASSUME NEW p \in Procs, EndWithoutCheckIn(p)
      PROVE  CycleEndsOnce'
  <2>1. /\ Target(p) = Last /\ checkIn' = checkIn /\ checkIn[Last] = "none"
        /\ SettleableTasks(Last) = {} /\ block' = block /\ now' = now
    BY <1>4 DEF EndWithoutCheckIn
  <2>2. now > Last
    BY <1>1, <1>4, <2>1, TargetInQueue DEF EndWithoutCheckIn, At, OnlyClosed
  <2>3. \A t \in Tasks : taskStatus'[t] # "ACTIVE"
    BY <1>4 DEF EndWithoutCheckIn, EndCycle, StatusFitsMinutes, TypeOK
  <2> QED
    BY <2>1, <2>2, <2>3 DEF CycleEndsOnce, SettleableTasks
<1>5. ASSUME NEW p \in Procs, FinishReplan(p)
      PROVE  CycleEndsOnce'
  <2>1. /\ Target(p) \in Periods /\ checkIn' = [checkIn EXCEPT ![Target(p)] = "final"]
        /\ taskStatus' = SettledTasks(Target(p)) /\ UNCHANGED <<now, cycle>>
    BY <1>5, ReplanEffect DEF FinishReplan
  <2>2. ASSUME cycle = "ENDED"
        PROVE  /\ now > Last /\ checkIn'[Last] # "open" /\ \A t \in Tasks : taskStatus'[t] # "ACTIVE"
               /\ \A t \in Tasks : block'[t][Last] \notin Settleable
    <3>1. /\ now > Last /\ checkIn[Last] # "open" /\ \A t \in Tasks : taskStatus[t] # "ACTIVE"
          /\ \A t \in Tasks : block[t][Last] \notin Settleable
      BY <2>2 DEF CycleEndsOnce, SettleableTasks
    <3>2. \A t \in Tasks : taskStatus'[t] # "ACTIVE"
      BY <2>1, <3>1 DEF SettledTasks
    <3>3. ASSUME NEW t \in Tasks PROVE block'[t][Last] \notin Settleable
      <4>1. CASE block'[t][Last] = SettledBlocks(Target(p))[t][Last]
        <5>1. block[t][Last] # "PLANNED" /\ block[t][Last] # "CHECKED"
          BY <3>1 DEF Settleable
        <5>2. Last \in Periods
          BY LastAssumption DEF Periods
        <5>3. SettledBlocks(Target(p))[t][Last] = block[t][Last]
          <6>1. \A r \in Periods :
                  SettledBlocks(Target(p))[t][r] =
                    IF r # Target(p) THEN block[t][r]
                    ELSE IF block[t][Target(p)] = "CHECKED" THEN "COMPLETED"
                    ELSE IF block[t][Target(p)] = "PLANNED" THEN "NOT_DONE"
                    ELSE block[t][Target(p)]
            BY <1>1, <2>1, SettledType, ZenonT(30)
          <6> QED
            BY <5>1, <5>2, <6>1
        <5> QED
          BY <4>1, <5>1, <5>3 DEF Settleable
      <4>2. CASE block'[t][Last] # SettledBlocks(Target(p))[t][Last]
        <5>1. block'[t][Last] = "none" \/ SettledTasks(Target(p))[t] = "ACTIVE"
          BY <1>1, <1>5, <4>2, ReplanEffect
        <5> QED
          BY <2>1, <3>2, <5>1 DEF Settleable
      <4> QED
        BY <4>1, <4>2
    <3> QED
      BY <1>1, <2>1, <3>1, <3>2, <3>3 DEF TypeOK
  <2> QED
    BY <2>1, <2>2 DEF CycleEndsOnce, SettleableTasks
<1>6. ASSUME NEW p \in Procs, SettleLastEvening(p)
      PROVE  CycleEndsOnce'
  <2>1. /\ Target(p) = Last /\ checkIn' = [checkIn EXCEPT ![Last] = "final"]
        /\ block' = SettledBlocks(Last) /\ now' = now
    BY <1>6 DEF SettleLastEvening
  <2>2. now > Last
    BY <1>1, <1>6, <2>1, TargetInQueue DEF SettleLastEvening, At, OnlyClosed
  <2>3. \A t \in Tasks : taskStatus'[t] # "ACTIVE"
    <3>1. \A t \in Tasks : SettledTasks(Last)[t] = "ACTIVE" => SettledMinutes(Last)[t] > 0
      BY <1>1 DEF SettledTasks, SettledMinutes, StatusFitsMinutes, Less, TypeOK
    <3> QED
      BY <1>6, <2>1, <3>1 DEF SettleLastEvening, EndCycle
  <2>4. \A t \in Tasks : block'[t][Last] \notin Settleable
    BY <1>1, <2>1, SettledType DEF Settleable
  <2> QED
    BY <1>1, <2>1, <2>2, <2>3, <2>4 DEF CycleEndsOnce, SettleableTasks, TypeOK
<1>7. CASE CommitTap \/ CommitExecution
  <2>1. cycle = "ACTIVE" /\ cycle' = cycle
    BY <1>7 DEF CommitTap, CanToggle, CommitExecution, MayExecute, ExecuteCard, CancelTask, UpdateMinutes
  <2> QED
    BY <2>1 DEF CycleEndsOnce
<1> QED
  BY <1>2, <1>3, <1>4, <1>5, <1>6, <1>7, OtherSteps

-----------------------------------------------------------------------------
\* Worker, toggle and execution keep the whole invariant.
LEMMA SettlementInvariant == Spec => []SettlementInv
<1>1. SettlementInv /\ [Next]_vars => SettlementInv'
  BY WorkStep, StatusStep, MinutesStep, EndStep DEF SettlementInv
<1> QED
  BY <1>1, InitialWork, PTL DEF Spec

\* Every variable keeps its type, so what _finalize_settlement deducts never
\* takes the remaining minutes of a task below zero.
THEOREM TypeCorrect == Spec => []TypeOK
<1>1. SettlementInv => TypeOK
  BY DEF SettlementInv, WorkInv
<1> QED
  BY <1>1, SettlementInvariant, PTL

\* The minutes left of a task are its estimate less its completed blocks: every
\* settlement that is repeated, resumed or raced deducts a checked block once.
THEOREM MinutesDeductedOnce == Spec => []MinutesOnce
<1>1. SettlementInv => MinutesOnce
  BY DEF SettlementInv
<1> QED
  BY <1>1, SettlementInvariant, PTL

\* Settlement ends the cycle after its last evening, with that evening settled
\* and no task left ACTIVE, and nothing begins or plans there again.
THEOREM CyclesEndOnce == Spec => []CycleEndsOnce
<1>1. SettlementInv => CycleEndsOnce
  BY DEF SettlementInv
<1> QED
  BY <1>1, SettlementInvariant, PTL

\* No late replan, repeated settlement, toggle or execution rewrites a settled
\* block or reopens a final check-in.
THEOREM ResultsStay == Spec => ResultsKept
<1> DEFINE Kept == /\ \A t \in Tasks, p \in Periods :
                        block[t][p] \in Settled => block'[t][p] = block[t][p]
                   /\ \A p \in Periods : checkIn[p] = "final" => checkIn'[p] = "final"
<1>1. SettlementInv /\ [Next]_vars => [Kept]_vars
  BY ResultsStep DEF SettlementInv
<1>2. ResultsKept <=> [][Kept]_vars
  BY PTL DEF ResultsKept
<1> QED
  BY <1>1, <1>2, SettlementInvariant, PTL DEF Spec

-----------------------------------------------------------------------------
(* What timely behaviours keep, whoever catches up                         *)

\* No database error, no run into the next boundary, no toggle inside a replan.
Timely == faults = 0 /\ overruns = 0 /\ races = 0

\* Nothing of a period, or of all periods before n, is left to settle.
Quiet(p) == checkIn[p] # "open" /\ SettleableTasks(p) = {}
Clear(n) == \A p \in Periods : p < n => Quiet(p)

\* What was settled has nothing unsettled behind it.
ResultsInOrder ==
  /\ \A p \in Periods : checkIn[p] = "final" => Clear(p + 1)
  /\ cycle = "ENDED" => Clear(Last + 1)
  /\ \A t \in Tasks, p \in Periods : block[t][p] \in Settled => checkIn[p] = "final"

\* A check-in that is open is of the oldest period with blocks to settle, and
\* somebody has opened every one there is.
OpenIsOldest ==
  /\ \A p \in Periods : checkIn[p] = "open" => Clear(p) /\ SettleableTasks(p) # {}
  /\ \A p \in Periods : checkIn[p] # "none" => startedBy[p] \in Procs

\* Blocks are checked in the period of the clock, behind which at most the
\* period that has just ended is not settled.
ChecksRecent ==
  /\ \A t \in Tasks, p \in Periods : block[t][p] = "CHECKED" => p <= now /\ Clear(p - 1)
  /\ tap # None => tap.at <= now /\ Clear(tap.at - 1)

\* Executions and runs see the current time.
ExecutionTrue == exec # None => exec.at = now
ClocksTrue(s) == ~Idle(s) \/ mode[s] = "starting" => clock[s] = now /\ mode[s] # "down"

\* Whatever lies behind the target of a replan is deleted by it, or is checked
\* in the next period, where the plan leaves it room.
ReplansFit(s) ==
  Planner(s) =>
    /\ checkIn[Target(s)] = "open"
    /\ \A t \in Tasks, p \in Periods : p > Target(s) =>
         \/ block[t][p] = "none"
         \/ <<t, p>> \in removable[s]
         \/ p = Target(s) + 1 /\ block[t][p] = "CHECKED"

OrderInv ==
  /\ ResultsInOrder /\ OpenIsOldest /\ ChecksRecent /\ ExecutionTrue
  /\ \A s \in Procs : ClocksTrue(s) /\ ReplansFit(s)

\* While a process serves, at most the period that has just ended is not
\* settled; and behind its target nothing is left.
FrontClear(s) == mode[s] = "serving" => Clear(now - 1)
TargetsNext(s) == queue[s] # {} => Clear(Target(s))

\* The premises of a step of a timely behaviour.  That processes catch up is
\* shown twice: for one that is killed and restarted, and for many that are not.
Held ==
  /\ SettlementInv /\ Timely /\ OrderInv
  /\ \A s \in Procs : FrontClear(s) /\ TargetsNext(s)

\* Periods and clocks are integers.
LEMMA TimesAre ==
  ASSUME TypeOK
  PROVE  /\ now \in Nat /\ now <= EndOfTime /\ Last \in Periods /\ Periods \subseteq Nat
         /\ \A p \in Periods : p <= Last
         /\ exec # None => exec.at \in Nat
         /\ tap # None => tap.at \in Nat
         /\ \A p \in Procs : queue[p] \subseteq Periods /\ clock[p] \in Nat
<1> USE LastAssumption DEF TypeOK, EndOfTime, Periods
<1>1. now \in Nat /\ now <= EndOfTime /\ Last \in Periods /\ Periods \subseteq Nat
  OBVIOUS
<1>2. (exec # None => exec.at \in Nat) /\ (tap # None => tap.at \in Nat)
  OBVIOUS
<1> QED
  BY <1>1, <1>2

\* The target is the oldest member of the queue.
LEMMA TargetIsOldest ==
  ASSUME TypeOK, NEW p \in Procs, queue[p] # {}
  PROVE  /\ Target(p) \in queue[p] /\ Target(p) \in Periods
         /\ \A r \in queue[p] : Target(p) <= r
<1>1. queue[p] \in SUBSET Periods
  BY DEF TypeOK
<1>2. \E q \in queue[p] : \A other \in queue[p] : q <= other
  BY <1>1, OldestExists
<1> QED
  BY <1>1, <1>2 DEF Target

\* A plan uses no period in which the task may not be placed.
LEMMA PlanWithin ==
  ASSUME NEW blk, NEW c, NEW left, NEW st, NEW plan \in Plans(blk, c, left, st)
  PROVE  \A t \in Tasks : plan[t] \subseteq Eligible(blk, t, c)
  BY DEF Plans, EarliestOf

\* The steps of a timely behaviour.
LEMMA TimelySteps ==
  ASSUME Held, [Next]_vars, Timely'
  PROVE  \/ Tick /\ ~Busy
         \/ UNCHANGED vars
         \/ \E s \in Procs :
              \/ StartProcess(s) \/ Serve(s) \/ Scan(s) \/ StartSettlement(s) \/ SkipTarget(s)
              \/ EndWithoutCheckIn(s) \/ BeginReplan(s) \/ FinishReplan(s) \/ ReplanRefused(s)
              \/ SettleLastEvening(s) \/ FinalizeStops(s) \/ Crash(s)
              \/ (\E t \in Tasks : BeginTap(s, t)) \/ BeginExecution(s)
         \/ (CommitTap /\ ~CycleLocked) \/ RefuseTap \/ CommitExecution \/ FailExecution
<1>1. Timely /\ Timely'
  BY DEF Held
<1>2. Tick => ~Busy
  BY <1>1 DEF Tick, Timely
<1>3. CommitTap => ~CycleLocked
  BY <1>1 DEF CommitTap, Timely
<1>4. \A s \in Procs : ~ScanFails(s) /\ ~SettleFails(s)
  BY <1>1 DEF ScanFails, SettleFails, Timely
<1> QED
  BY <1>1, <1>2, <1>3, <1>4 DEF Next, WorkerStep

\* An execution plans from the period it has read on.
LEMMA ExecutionAhead ==
  ASSUME TypeOK, CommitExecution, NEW t \in Tasks, NEW r \in Periods, r < exec.at
  PROVE  block'[t][r] = block[t][r]
<1> DEFINE c == exec.at
           kept == Delete(block, Removable(block, c))
<1>1. PICK u \in Tasks : \E left, total, st : ExecuteCard(u, left, total, st)
  BY DEF CommitExecution, CancelTask, UpdateMinutes
<1>2. PICK plan \in Plans(kept, c, remaining', taskStatus') : block' = Place(kept, plan)
  BY <1>1 DEF ExecuteCard
<1>3. c \in Nat /\ r \in Nat /\ r < c
  BY TimesAre DEF CommitExecution
<1>4. plan[t] \subseteq Eligible(kept, t, c)
  BY <1>2, PlanWithin
<1>5. r \notin plan[t]
  BY <1>3, <1>4, LastAssumption DEF Eligible
<1>6. <<t, r>> \notin Removable(block, c)
  BY <1>3 DEF Removable
<1>7. kept[t][r] = block[t][r]
  BY <1>6, DeleteType, SMTT(30) DEF TypeOK
<1> QED
  BY <1>2, <1>5, <1>7 DEF Place

\* A settled period of the past stays so, but for the plan of a replan that
\* settles an older one.
LEMMA QuietStays ==
  ASSUME Held, [Next]_vars, Timely', NEW r \in Periods, r < now, Quiet(r),
         \A s \in Procs : FinishReplan(s) => r < Target(s)
  PROVE  Quiet(r)'
<1>1. TypeOK /\ StagesHaveTargets /\ RowsUnsettled
  BY DEF Held, SettlementInv, WorkInv
<1>2. checkIn[r] # "open" /\ \A t \in Tasks : block[t][r] \notin Settleable
  BY DEF Quiet, SettleableTasks
<1>3. SUFFICES checkIn'[r] # "open" /\ \A t \in Tasks : block'[t][r] \notin Settleable
  BY DEF Quiet, SettleableTasks
<1> USE DEF cycleVars, checkInVars
<1>4. CASE UNCHANGED <<cycleVars, block, checkInVars>> \/ \E s \in Procs : EndWithoutCheckIn(s)
  BY <1>2, <1>4 DEF EndWithoutCheckIn
<1>5. ASSUME NEW s \in Procs, StartSettlement(s)
      PROVE  checkIn'[r] # "open" /\ \A t \in Tasks : block'[t][r] \notin Settleable
  <2>1. block' = block /\ (checkIn' = checkIn \/ (/\ SettleableTasks(Target(s)) # {}
                                                  /\ checkIn' = [checkIn EXCEPT ![Target(s)] = "open"]))
    BY <1>5 DEF StartSettlement
  <2>2. r = Target(s) => SettleableTasks(Target(s)) = {}
    BY DEF Quiet
  <2> QED
    BY <1>1, <1>2, <2>1, <2>2 DEF TypeOK
<1>6. ASSUME NEW s \in Procs, FinishReplan(s)
      PROVE  checkIn'[r] # "open" /\ \A t \in Tasks : block'[t][r] \notin Settleable
  <2>1. checkIn'[r] = checkIn[r] \/ checkIn'[r] = "final"
    BY <1>1, <1>6 DEF FinishReplan, TypeOK
  <2>2. Target(s) \in Periods /\ r < Target(s)
    BY <1>1, <1>6, ReplanEffect
  <2>3. r # Target(s) /\ ~(r > Target(s))
    BY <1>1, <2>2, TimesAre
  <2>4. ASSUME NEW t \in Tasks
        PROVE  block'[t][r] = block[t][r]
    <3>1. block'[t][r] = SettledBlocks(Target(s))[t][r]
      BY <1>1, <1>6, <2>3, ReplanEffect
    <3> QED
      BY <1>1, <2>2, <2>3, <3>1, SettledType
  <2> QED
    BY <1>2, <2>1, <2>4
<1>7. ASSUME NEW s \in Procs, SettleLastEvening(s)
      PROVE  checkIn'[r] # "open" /\ \A t \in Tasks : block'[t][r] \notin Settleable
  <2>1. /\ checkIn' = [checkIn EXCEPT ![Target(s)] = "final"]
        /\ block' = SettledBlocks(Target(s)) /\ Target(s) \in Periods
    BY <1>1, <1>7, TargetIsOldest DEF SettleLastEvening, At
  <2>2. ASSUME NEW t \in Tasks
        PROVE  block'[t][r] \notin Settleable
    <3>1. SettledBlocks(Target(s))[t][r] =
            IF r # Target(s) THEN block[t][r]
            ELSE IF block[t][Target(s)] = "CHECKED" THEN "COMPLETED"
            ELSE IF block[t][Target(s)] = "PLANNED" THEN "NOT_DONE" ELSE block[t][Target(s)]
      BY <1>1, <2>1, SettledType
    <3>2. block[t][r] # "CHECKED" /\ block[t][r] # "PLANNED"
      BY <1>2 DEF Settleable
    <3> QED
      BY <2>1, <3>1, <3>2 DEF Settleable
  <2> QED
    BY <1>1, <1>2, <2>1, <2>2 DEF TypeOK
<1>8. CASE CommitTap
  <2>1. checkIn' = checkIn
    BY <1>8 DEF CommitTap
  <2>2. \A t \in Tasks : block'[t][r] = block[t][r] \/ block[t][r] \in Settleable
    BY <1>1, <1>8 DEF CommitTap, CanToggle, TypeOK
  <2> QED
    BY <1>2, <2>1, <2>2
<1>9. CASE CommitExecution
  <2>1. checkIn' = checkIn /\ exec # None
    BY <1>9 DEF CommitExecution
  <2>2. exec.at = now
    BY <2>1 DEF Held, OrderInv, ExecutionTrue
  <2>3. \A t \in Tasks : block'[t][r] = block[t][r]
    BY <1>1, <1>9, <2>2, ExecutionAhead
  <2> QED
    BY <1>2, <2>1, <2>3
<1> QED
  BY <1>1, <1>4, <1>5, <1>6, <1>7, <1>8, <1>9, OtherSteps

\* What is clear of the past stays clear.
LEMMA ClearStays ==
  ASSUME Held, [Next]_vars, Timely', NEW n \in Int, n <= now, Clear(n)
  PROVE  Clear(n)'
<1>1. TypeOK /\ StagesHaveTargets
  BY DEF Held, SettlementInv, WorkInv
<1>2. ASSUME NEW r \in Periods, r < n
      PROVE  Quiet(r)'
  <2>1. r \in Nat /\ now \in Nat /\ r < now
    BY <1>1, <1>2, TimesAre
  <2>2. Quiet(r)
    BY <1>2 DEF Clear
  <2>3. ASSUME NEW s \in Procs, FinishReplan(s), ~(r < Target(s))
        PROVE  FALSE
    <3>1. queue[s] # {} /\ Planner(s) /\ Target(s) \in Periods
      BY <1>1, <2>3, TargetIsOldest DEF FinishReplan, At, Planner
    <3>2. checkIn[Target(s)] = "open"
      BY <3>1 DEF Held, OrderInv, ReplansFit
    <3>3. Target(s) < n
      <4> DEFINE q == Target(s)
      <4>1. q \in Nat /\ ~(r < q)
        BY <1>1, <2>3, <3>1, TimesAre
      <4> HIDE DEF q
      <4>2. q < n
        BY <1>2, <2>1, <4>1
      <4> QED
        BY <4>2 DEF q
    <3> QED
      BY <3>1, <3>2, <3>3 DEF Clear, Quiet
  <2> QED
    BY <2>1, <2>2, <2>3, QuietStays
<1> QED
  BY <1>2 DEF Clear

\* A period that is worked on has nothing unsettled behind it.
LEMMA TargetIsNext ==
  ASSUME Held, NEW s \in Procs, queue[s] # {}
  PROVE  /\ Target(s) \in queue[s] /\ Target(s) \in Periods
         /\ Target(s) < now
         /\ Clear(Target(s))
         /\ \A r \in queue[s] : Target(s) <= r
<1>1. TypeOK /\ OnlyClosed
  BY DEF Held, SettlementInv, WorkInv
<1>2. Target(s) \in queue[s] /\ Target(s) \in Periods /\ \A r \in queue[s] : Target(s) <= r
  BY <1>1, TargetIsOldest
<1>3. Target(s) < now
  BY <1>1, <1>2 DEF OnlyClosed
<1> QED
  BY <1>2, <1>3 DEF Held, TargetsNext

\* What a settlement in its second transaction works on.
LEMMA TargetIsOpen ==
  ASSUME Held, NEW s \in Procs, FinishReplan(s) \/ SettleLastEvening(s) \/ BeginReplan(s)
  PROVE  /\ queue[s] # {} /\ Target(s) \in Periods /\ checkIn[Target(s)] = "open"
         /\ Target(s) < now /\ Clear(Target(s)) /\ SettleableTasks(Target(s)) # {}
         /\ cycle # "ENDED"
         /\ \A r \in Periods : checkIn[r] = "final" => r < Target(s)
         /\ \A r \in Periods : checkIn[r] = "open" => r = Target(s)
         /\ \A n \in Int : Clear(n) => n <= Target(s)
<1> DEFINE q == Target(s)
<1>1. queue[s] # {} /\ checkIn[q] = "open"
  BY DEF FinishReplan, SettleLastEvening, BeginReplan, At, Planner, Held, OrderInv, ReplansFit
<1>2. q \in Periods /\ checkIn[q] = "open" /\ q < now /\ Clear(q)
  BY <1>1, TargetIsNext
<1>3. SettleableTasks(q) # {}
  BY <1>2 DEF Held, OrderInv, OpenIsOldest
<1>4. Periods \subseteq Nat /\ \A r \in Periods : r <= Last
  BY TimesAre DEF Held, SettlementInv, WorkInv
<1>5. ~Quiet(q)
  BY <1>2 DEF Quiet
<1> HIDE DEF q
<1>6. \A n \in Int : Clear(n) => n <= q
  BY <1>2, <1>4, <1>5 DEF Clear
<1>7. Last + 1 \in Int /\ ~(Last + 1 <= q)
  BY <1>2, <1>4, LastAssumption
<1>8. cycle # "ENDED"
  BY <1>6, <1>7 DEF Held, OrderInv, ResultsInOrder
<1>9. ASSUME NEW r \in Periods, checkIn[r] = "final"
      PROVE  r < q
  <2>1. Clear(r + 1) /\ r \in Nat /\ q \in Nat
    BY <1>2, <1>4, <1>9 DEF Held, OrderInv, ResultsInOrder
  <2>2. r + 1 <= q
    BY <1>6, <2>1
  <2> QED
    BY <2>1, <2>2
<1>10. ASSUME NEW r \in Periods, checkIn[r] = "open"
       PROVE  r = q
  <2>1. Clear(r) /\ r \in Nat /\ q \in Nat
    BY <1>2, <1>4, <1>10 DEF Held, OrderInv, OpenIsOldest
  <2>2. r <= q
    BY <1>6, <2>1
  <2>3. ~(r < q)
    BY <1>2, <1>10 DEF Clear, Quiet
  <2> QED
    BY <2>1, <2>2, <2>3
<1> QED
  BY <1>1, <1>2, <1>3, <1>6, <1>8, <1>9, <1>10 DEF q

\* The second transaction settles its target.
LEMMA TargetSettled ==
  ASSUME Held, [Next]_vars, Timely', NEW s \in Procs, FinishReplan(s) \/ SettleLastEvening(s)
  PROVE  /\ checkIn' = [checkIn EXCEPT ![Target(s)] = "final"]
         /\ \A r \in Periods : r < Target(s) + 1 => Quiet(r)'
<1> DEFINE q == Target(s)
<1>1. TypeOK /\ StagesHaveTargets /\ RowsUnsettled
  BY DEF Held, SettlementInv, WorkInv
<1>2. q \in Periods /\ q < now /\ Clear(q)
  BY TargetIsOpen
<1>3. checkIn' = [checkIn EXCEPT ![q] = "final"]
  BY DEF FinishReplan, SettleLastEvening
<1>4. q \in Nat /\ now \in Nat /\ Periods \subseteq Nat
  BY <1>1, <1>2, TimesAre
<1>5. \A r \in Periods : r < q => Quiet(r)'
  <2>1. q \in Int /\ q <= now
    BY <1>2, <1>4
  <2>2. \A n \in Int : n <= now /\ Clear(n) => Clear(n)'
    BY ClearStays
  <2> QED
    BY <1>2, <2>1, <2>2 DEF Clear
<1>6. ASSUME NEW t \in Tasks
      PROVE  block'[t][q] \notin Settleable
  <2>1. block'[t][q] = SettledBlocks(q)[t][q]
    <3>1. CASE FinishReplan(s)
      BY <1>1, <1>4, <3>1, ReplanEffect
    <3>2. CASE SettleLastEvening(s)
      BY <3>2 DEF SettleLastEvening
    <3> QED
      BY <3>1, <3>2
  <2> QED
    BY <1>1, <1>2, <2>1, SettledType DEF Settleable
<1>7. ASSUME NEW r \in Periods, r < q + 1
      PROVE  Quiet(r)'
  <2>1. CASE r = q
    BY <1>1, <1>2, <1>3, <1>6, <2>1 DEF Quiet, SettleableTasks, TypeOK
  <2>2. CASE r # q
    <3>1. r < q
      <4> HIDE DEF q
      <4> QED
        BY <1>4, <1>7, <2>2
    <3> QED
      BY <1>5, <3>1
  <2> QED
    BY <2>1, <2>2
<1> QED
  BY <1>3, <1>7

\* Behind the latest result nothing is left.
LEMMA ResultsInOrderStep ==
  ASSUME Held, [Next]_vars, Timely'
  PROVE  ResultsInOrder'
<1>1. TypeOK /\ OnlyClosed /\ StagesHaveTargets /\ RowsUnsettled /\ WorkInv /\ CycleEndsOnce
  BY DEF Held, SettlementInv, WorkInv
<1>2. ResultsInOrder
  BY DEF Held, OrderInv
<1>3. Periods \subseteq Nat /\ now \in Nat /\ Last \in Nat /\ \A r \in Periods : r <= Last
  BY <1>1, TimesAre
<1>4. \A n \in Int : n <= now /\ Clear(n) => Clear(n)'
  BY ClearStays
<1> USE DEF cycleVars, checkInVars
<1>5. ASSUME NEW s \in Procs, FinishReplan(s) \/ SettleLastEvening(s)
      PROVE  ResultsInOrder'
  <2> DEFINE q == Target(s)
  <2>1. /\ q \in Periods
        /\ checkIn' = [checkIn EXCEPT ![q] = "final"]
        /\ \A r \in Periods : r < q + 1 => Quiet(r)'
        /\ \A r \in Periods : checkIn[r] = "final" => r < q
    BY <1>5, TargetSettled, TargetIsOpen
  <2>2. ASSUME NEW r \in Periods, checkIn'[r] = "final", NEW e \in Periods, e < r + 1
        PROVE  Quiet(e)'
    <3>1. r = q \/ r < q
      BY <1>1, <2>1, <2>2 DEF TypeOK
    <3>2. e < q + 1
      <4> HIDE DEF q
      <4> QED
        BY <1>3, <2>1, <2>2, <3>1
    <3> QED
      BY <2>1, <3>2
  <2>3. ASSUME cycle' = "ENDED", NEW e \in Periods
        PROVE  Quiet(e)'
    <3>1. cycle # "ENDED"
      BY <1>5, TargetIsOpen
    <3>2. q = Last
      BY <1>5, <2>3, <3>1 DEF FinishReplan, SettleLastEvening
    <3>3. e < q + 1
      BY <1>3, <3>2
    <3> QED
      BY <2>1, <3>3
  <2>4. ASSUME NEW t \in Tasks, NEW r \in Periods, block'[t][r] \in Settled
        PROVE  checkIn'[r] = "final"
    <3>1. CASE r = q
      BY <1>1, <2>1, <3>1 DEF TypeOK
    <3>2. CASE r # q
      <4>1. block'[t][r] = block[t][r] \/ block'[t][r] \in {"none", "PLANNED"}
        <5>1. CASE FinishReplan(s)
          BY <1>1, <2>1, <3>2, <5>1, ReplanEffect, SettledType
        <5>2. CASE SettleLastEvening(s)
          BY <1>1, <2>1, <3>2, <5>2, SettledType DEF SettleLastEvening
        <5> QED
          BY <1>5, <5>1, <5>2
      <4>2. block[t][r] \in Settled
        BY <2>4, <4>1 DEF Settled
      <4>3. checkIn[r] = "final"
        BY <1>2, <4>2 DEF ResultsInOrder
      <4> QED
        BY <1>1, <2>1, <3>2, <4>3 DEF TypeOK
    <3> QED
      BY <3>1, <3>2
  <2> QED
    BY <2>2, <2>3, <2>4 DEF ResultsInOrder, Clear
<1>6. CASE ~\E s \in Procs : FinishReplan(s) \/ SettleLastEvening(s)
  <2>1. /\ \A r \in Periods : checkIn'[r] = "final" <=> checkIn[r] = "final"
        /\ \A t \in Tasks, r \in Periods : block'[t][r] \in Settled => block[t][r] \in Settled
        /\ cycle' = cycle \/ \E s \in Procs : EndWithoutCheckIn(s)
    <3>1. CASE UNCHANGED <<cycleVars, block, checkInVars>>
      BY <3>1
    <3>2. CASE \E s \in Procs : StartSettlement(s)
      BY <1>1, <3>2 DEF StartSettlement, TypeOK
    <3>3. CASE \E s \in Procs : EndWithoutCheckIn(s)
      BY <3>3 DEF EndWithoutCheckIn
    <3>4. CASE CommitTap
      BY <1>1, <3>4 DEF CommitTap, CanToggle, Settled, Settleable, TypeOK
    <3>5. CASE CommitExecution
      <4>1. UNCHANGED <<cycle, checkIn>>
        BY <3>5 DEF CommitExecution
      <4> QED
        BY <1>1, <3>5, <4>1, ExecutionEffect DEF Settled
    <3> QED
      BY <1>1, <1>6, <3>1, <3>2, <3>3, <3>4, <3>5, OtherSteps
  <2>2. ASSUME NEW r \in Periods, checkIn'[r] = "final"
        PROVE  Clear(r + 1)'
    <3>1. checkIn[r] = "final" /\ Clear(r + 1)
      BY <1>2, <2>1, <2>2 DEF ResultsInOrder
    <3>2. r + 1 \in Int /\ r + 1 <= now
      BY <1>1, <1>3, <3>1 DEF OnlyClosed
    <3> QED
      BY <1>4, <3>1, <3>2
  <2>3. ASSUME cycle' = "ENDED"
        PROVE  Clear(Last + 1)'
    <3>1. CASE cycle = "ENDED"
      <4>1. now > Last /\ Clear(Last + 1)
        BY <1>1, <1>2, <3>1 DEF CycleEndsOnce, ResultsInOrder
      <4>2. Last + 1 \in Int /\ Last + 1 <= now
        BY <1>3, <4>1
      <4> QED
        BY <1>4, <4>1, <4>2
    <3>2. CASE cycle # "ENDED"
      <4>1. PICK s \in Procs : EndWithoutCheckIn(s)
        BY <2>1, <2>3, <3>2
      <4>2. /\ Target(s) = Last /\ checkIn[Last] = "none" /\ SettleableTasks(Last) = {}
            /\ UNCHANGED <<block, checkIn>> /\ queue[s] # {}
        BY <4>1 DEF EndWithoutCheckIn, At
      <4>3. Clear(Last)
        BY <4>2, TargetIsNext
      <4>4. ASSUME NEW e \in Periods
            PROVE  Quiet(e)'
        <5>1. Quiet(e)
          <6>1. e = Last \/ e < Last
            BY <1>3
          <6> QED
            BY <4>2, <4>3, <6>1 DEF Clear, Quiet
        <5> QED
          BY <4>2, <5>1 DEF Quiet, SettleableTasks
      <4> QED
        BY <4>4 DEF Clear
    <3> QED
      BY <3>1, <3>2
  <2>4. \A t \in Tasks, r \in Periods : block'[t][r] \in Settled => checkIn'[r] = "final"
    BY <1>2, <2>1 DEF ResultsInOrder
  <2> QED
    BY <2>2, <2>3, <2>4 DEF ResultsInOrder
<1> QED
  BY <1>5, <1>6

\* No check-in is opened before the older ones are final.
LEMMA OpenIsOldestStep ==
  ASSUME Held, [Next]_vars, Timely'
  PROVE  OpenIsOldest'
<1>1. TypeOK /\ OnlyClosed /\ StagesHaveTargets /\ RowsUnsettled
  BY DEF Held, SettlementInv, WorkInv
<1>2. OpenIsOldest
  BY DEF Held, OrderInv
<1>3. Periods \subseteq Nat /\ now \in Nat
  BY <1>1, TimesAre
<1>4. \A n \in Int : n <= now /\ Clear(n) => Clear(n)'
  BY ClearStays
<1> USE DEF cycleVars, checkInVars
<1>5. ASSUME NEW s \in Procs, FinishReplan(s) \/ SettleLastEvening(s)
      PROVE  OpenIsOldest'
  <2>1. /\ checkIn' = [checkIn EXCEPT ![Target(s)] = "final"] /\ startedBy' = startedBy
        /\ Target(s) \in Periods /\ checkIn[Target(s)] = "open"
        /\ \A r \in Periods : checkIn[r] = "open" => r = Target(s)
    BY <1>5, TargetSettled, TargetIsOpen DEF FinishReplan, SettleLastEvening
  <2>2. \A r \in Periods : checkIn'[r] # "open"
    BY <1>1, <2>1 DEF TypeOK
  <2>3. \A r \in Periods : checkIn'[r] # "none" => startedBy'[r] \in Procs
    BY <1>1, <1>2, <2>1 DEF TypeOK, OpenIsOldest
  <2> QED
    BY <2>2, <2>3 DEF OpenIsOldest
<1>6. CASE ~\E s \in Procs : FinishReplan(s) \/ SettleLastEvening(s)
  <2>1. ASSUME NEW r \in Periods, r < now, SettleableTasks(r) # {}
        PROVE  SettleableTasks(r)' # {}
    <3>1. PICK t \in Tasks : block[t][r] \in Settleable
      BY <2>1 DEF SettleableTasks
    <3>2. block'[t][r] \in Settleable
      <4>1. CASE UNCHANGED <<cycleVars, block, checkInVars>>
        BY <3>1, <4>1
      <4>2. CASE \E s \in Procs : StartSettlement(s) \/ EndWithoutCheckIn(s)
        BY <3>1, <4>2 DEF StartSettlement, EndWithoutCheckIn
      <4>3. CASE CommitTap
        BY <1>1, <3>1, <4>3 DEF CommitTap, CanToggle, Settleable, TypeOK
      <4>4. CASE CommitExecution
        <5>1. exec # None /\ exec.at = now
          BY <4>4 DEF CommitExecution, Held, OrderInv, ExecutionTrue
        <5> QED
          BY <1>1, <2>1, <3>1, <4>4, <5>1, ExecutionAhead
      <4> QED
        BY <1>1, <1>6, <4>1, <4>2, <4>3, <4>4, OtherSteps
    <3> QED
      BY <3>2 DEF SettleableTasks
  <2>2. ASSUME NEW r \in Periods, checkIn'[r] # "none"
        PROVE  /\ startedBy'[r] \in Procs
               /\ checkIn'[r] = "open" => r < now /\ Clear(r) /\ SettleableTasks(r) # {}
    <3>1. ASSUME NEW s \in Procs, StartSettlement(s), r = Target(s)
          PROVE  /\ startedBy'[r] \in Procs
                 /\ checkIn'[r] = "open" => r < now /\ Clear(r) /\ SettleableTasks(r) # {}
      <4>1. Target(s) < now /\ Clear(Target(s)) /\ Target(s) \in Periods
        BY <3>1, TargetIsNext DEF StartSettlement, At
      <4>2. \/ checkIn[r] = "open" /\ startedBy'[r] = startedBy[r]
            \/ startedBy'[r] = s /\ SettleableTasks(r) # {}
        BY <1>1, <3>1 DEF StartSettlement, TypeOK
      <4> QED
        BY <1>1, <1>2, <3>1, <4>1, <4>2 DEF OpenIsOldest
    <3>2. CASE ~\E s \in Procs : StartSettlement(s) /\ r = Target(s)
      <4>1. checkIn'[r] = checkIn[r] /\ startedBy'[r] = startedBy[r]
        <5>1. CASE \E s \in Procs : StartSettlement(s)
          BY <1>1, <3>2, <5>1 DEF StartSettlement, TypeOK
        <5>2. CASE (\E s \in Procs : EndWithoutCheckIn(s)) \/ CommitTap \/ CommitExecution \/ UNCHANGED checkInVars
          BY <5>2 DEF EndWithoutCheckIn, CommitTap, CommitExecution
        <5> QED
          BY <1>1, <1>6, <5>1, <5>2, OtherSteps
      <4> QED
        BY <1>1, <1>2, <2>2, <4>1 DEF OpenIsOldest, OnlyClosed
    <3> QED
      BY <3>1, <3>2
  <2>3. ASSUME NEW r \in Periods, checkIn'[r] = "open"
        PROVE  Clear(r)' /\ SettleableTasks(r)' # {}
    <3>1. r < now /\ Clear(r) /\ SettleableTasks(r) # {}
      BY <2>2, <2>3
    <3>2. r \in Int /\ r <= now
      BY <1>3, <3>1
    <3> QED
      BY <1>4, <2>1, <3>1, <3>2
  <2> QED
    BY <2>2, <2>3 DEF OpenIsOldest
<1> QED
  BY <1>5, <1>6

\* A process leaves the work of the others alone.
LEMMA OtherProcess ==
  ASSUME TypeOK, NEW p \in Procs, NEW s \in Procs, p # s,
         \/ StartProcess(p) \/ Serve(p) \/ Scan(p) \/ StartSettlement(p) \/ SkipTarget(p)
         \/ EndWithoutCheckIn(p) \/ BeginReplan(p) \/ FinishReplan(p) \/ ReplanRefused(p)
         \/ SettleLastEvening(p) \/ FinalizeStops(p) \/ Crash(p)
  PROVE  now' = now /\ UNCHANGED <<mode[s], rounds[s], queue[s], clock[s], stage[s], removable[s]>>
<1>1. /\ mode \in [Procs -> {"down", "starting", "serving"}] /\ rounds \in [Procs -> 0..3]
      /\ queue \in [Procs -> SUBSET Periods] /\ clock \in [Procs -> 0..EndOfTime]
      /\ stage \in [Procs -> {"idle", "opened", "planning"}]
      /\ removable \in [Procs -> SUBSET Blocks]
  BY DEF TypeOK
<1>2. CASE StartProcess(p) \/ Serve(p) \/ Scan(p) \/ Crash(p)
  BY <1>1, <1>2 DEF StartProcess, Serve, Scan, Crash
<1>3. CASE StartSettlement(p) \/ BeginReplan(p)
  BY <1>1, <1>3 DEF StartSettlement, BeginReplan, Goto
<1>4. CASE SkipTarget(p) \/ EndWithoutCheckIn(p) \/ FinishReplan(p) \/ ReplanRefused(p)
           \/ SettleLastEvening(p) \/ FinalizeStops(p)
  BY <1>1, <1>4 DEF SkipTarget, EndWithoutCheckIn, FinishReplan, ReplanRefused, SettleLastEvening,
                    FinalizeStops, NextTarget
<1> QED
  BY <1>2, <1>3, <1>4

\* Executions are over before the next boundary.
LEMMA ExecutionsStep ==
  ASSUME Held, [Next]_vars, Timely'
  PROVE  ExecutionTrue' /\ (now' = now \/ (Tick /\ ~Busy))
<1>1. exec # None => exec.at = now
  BY DEF Held, OrderInv, ExecutionTrue
<1>2. CASE Tick /\ ~Busy
  BY <1>2 DEF Tick, Busy, apiVars, ExecutionTrue
<1>3. CASE \E s \in Procs : BeginExecution(s)
  BY <1>3 DEF BeginExecution, ExecutionTrue
<1>4. CASE UNCHANGED vars \/ CommitTap \/ RefuseTap \/ CommitExecution \/ FailExecution
  BY <1>1, <1>4 DEF vars, apiVars, CommitTap, RefuseTap, CommitExecution, FailExecution, ExecutionTrue
<1>5. ASSUME NEW s \in Procs,
             \/ StartProcess(s) \/ Serve(s) \/ Scan(s) \/ StartSettlement(s) \/ SkipTarget(s)
             \/ EndWithoutCheckIn(s) \/ BeginReplan(s) \/ FinishReplan(s) \/ ReplanRefused(s)
             \/ SettleLastEvening(s) \/ FinalizeStops(s) \/ Crash(s)
             \/ \E t \in Tasks : BeginTap(s, t)
      PROVE  now' = now /\ (exec' = exec \/ exec' = None)
  BY <1>5 DEF StartProcess, Serve, Scan, StartSettlement, SkipTarget, EndWithoutCheckIn, BeginReplan,
     FinishReplan, ReplanRefused, SettleLastEvening, FinalizeStops, Crash, BeginTap, apiVars
<1> QED
  BY <1>1, <1>2, <1>3, <1>4, <1>5, TimelySteps DEF ExecutionTrue

\* Time and clocks of the steps in a timely behaviour.
LEMMA ClocksStep ==
  ASSUME Held, [Next]_vars, Timely', NEW s \in Procs
  PROVE  ClocksTrue(s)' /\ (now' = now \/ (Tick /\ ~Busy))
<1>1. /\ mode \in [Procs -> {"down", "starting", "serving"}]
      /\ rounds \in [Procs -> 0..3] /\ queue \in [Procs -> SUBSET Periods]
      /\ clock \in [Procs -> 0..EndOfTime]
  BY DEF Held, SettlementInv, WorkInv, TypeOK
<1>2. ~(rounds[s] = 0 /\ queue[s] = {}) \/ mode[s] = "starting" =>
        clock[s] = now /\ mode[s] # "down"
  BY DEF Held, OrderInv, ClocksTrue, Idle
<1>3. ASSUME /\ ~(rounds'[s] = 0 /\ queue'[s] = {}) \/ mode'[s] = "starting" =>
                  clock'[s] = now' /\ mode'[s] # "down"
             /\ now' = now \/ (Tick /\ ~Busy)
      PROVE  ClocksTrue(s)' /\ (now' = now \/ (Tick /\ ~Busy))
  BY <1>3 DEF ClocksTrue, Idle
<1>4. CASE Tick /\ ~Busy
  <2>1. mode' = mode /\ queue' = queue /\ Idle(s) /\ mode[s] # "starting"
    BY <1>1, <1>4 DEF Tick, Busy
  <2>2. mode[s] = "serving" => clock'[s] = now'
    BY <1>1, <1>4, <2>1 DEF Tick
  <2>3. mode[s] # "serving" => rounds'[s] = rounds[s]
    BY <1>1, <1>4, <2>1 DEF Tick
  <2> QED
    BY <1>1, <1>3, <1>4, <2>1, <2>2, <2>3 DEF Idle
<1>5. ASSUME StartProcess(s)
      PROVE  ClocksTrue(s)' /\ (now' = now \/ (Tick /\ ~Busy))
  <2>1. UNCHANGED <<now, queue>> /\ clock'[s] = now /\ mode'[s] = "starting"
    BY <1>1, <1>5 DEF StartProcess
  <2> QED
    BY <1>2, <1>3, <2>1
<1>6. ASSUME Serve(s)
      PROVE  ClocksTrue(s)' /\ (now' = now \/ (Tick /\ ~Busy))
  <2>1. UNCHANGED <<now, queue, rounds, clock>> /\ mode'[s] = "serving"
    BY <1>1, <1>6 DEF Serve
  <2> QED
    BY <1>2, <1>3, <2>1
<1>7. ASSUME Scan(s)
      PROVE  ClocksTrue(s)' /\ (now' = now \/ (Tick /\ ~Busy))
  <2>1. UNCHANGED <<now, mode, clock>> /\ rounds[s] # 0
    BY <1>1, <1>7 DEF Scan
  <2> QED
    BY <1>2, <1>3, <2>1
<1>8. ASSUME Crash(s)
      PROVE  ClocksTrue(s)' /\ (now' = now \/ (Tick /\ ~Busy))
  <2>1. /\ now' = now /\ mode'[s] = "down" /\ rounds'[s] = 0
        /\ queue'[s] = {}
    BY <1>1, <1>8 DEF Crash
  <2> QED
    BY <1>2, <1>3, <2>1
<1>9. CASE StartSettlement(s) \/ BeginReplan(s)
  <2>1. UNCHANGED <<now, mode, rounds, queue, clock>>
    BY <1>9 DEF StartSettlement, BeginReplan, Goto
  <2> QED
    BY <1>2, <1>3, <2>1
<1>10. CASE SkipTarget(s) \/ EndWithoutCheckIn(s) \/ FinishReplan(s) \/ SettleLastEvening(s)
  <2>1. UNCHANGED <<now, mode, rounds, clock>> /\ queue[s] # {}
    BY <1>10 DEF SkipTarget, EndWithoutCheckIn, FinishReplan, SettleLastEvening, At, NextTarget
  <2> QED
    BY <1>2, <1>3, <2>1
<1>11. CASE \E p \in Procs : BeginExecution(p)
  <2>1. UNCHANGED <<now, mode, rounds, queue, clock>>
    BY <1>11 DEF BeginExecution, workerVars
  <2> QED
    BY <1>2, <1>3, <2>1
<1>12. CASE UNCHANGED vars \/ (\E p \in Procs, t \in Tasks : BeginTap(p, t)) \/ CommitTap \/ RefuseTap
            \/ CommitExecution \/ FailExecution
  <2>1. UNCHANGED <<now, mode, rounds, queue, clock>>
    BY <1>12 DEF vars, BeginTap, CommitTap, RefuseTap, CommitExecution, FailExecution, workerVars
  <2> QED
    BY <1>2, <1>3, <2>1
<1>13. CASE ReplanRefused(s) \/ FinalizeStops(s)
  <2>1. UNCHANGED <<now, mode, rounds, clock>> /\ queue[s] # {}
    BY <1>13 DEF ReplanRefused, FinalizeStops, At, NextTarget
  <2> QED
    BY <1>2, <1>3, <2>1
<1>14. ASSUME NEW p \in Procs, p # s,
              \/ StartProcess(p) \/ Serve(p) \/ Scan(p) \/ StartSettlement(p) \/ SkipTarget(p)
              \/ EndWithoutCheckIn(p) \/ BeginReplan(p) \/ FinishReplan(p) \/ ReplanRefused(p)
              \/ SettleLastEvening(p) \/ FinalizeStops(p) \/ Crash(p)
       PROVE  ClocksTrue(s)' /\ now' = now
  <2>1. now' = now /\ UNCHANGED <<mode[s], rounds[s], queue[s], clock[s]>>
    BY <1>14, OtherProcess DEF Held, SettlementInv, WorkInv
  <2> QED
    BY <1>2, <2>1 DEF ClocksTrue, Idle
<1> QED
  BY <1>4, <1>5, <1>6, <1>7, <1>8, <1>9, <1>10, <1>11, <1>12, <1>13, <1>14, TimelySteps

\* Checks are made in the period of the clock.
LEMMA ChecksRecentStep ==
  ASSUME Held, [Next]_vars, Timely'
  PROVE  ChecksRecent'
<1>1. TypeOK /\ StagesHaveTargets /\ RowsUnsettled
  BY DEF Held, SettlementInv, WorkInv
<1>2. ChecksRecent
  BY DEF Held, OrderInv
<1>3. Periods \subseteq Nat /\ now \in Nat /\ now' \in Nat /\ now <= now'
  <2>1. TypeOK'
    BY TypeStep DEF Held, SettlementInv
  <2>2. now' = now \/ now' = SmallerOf(now + 1, EndOfTime)
    BY ExecutionsStep DEF Tick
  <2> QED
    BY <1>1, <2>1, <2>2, TimesAre DEF TypeOK, SmallerOf
<1>4. \A n \in Int : n <= now /\ Clear(n) => Clear(n)'
  BY ClearStays
<1> USE DEF cycleVars, checkInVars
<1>5. ASSUME NEW t \in Tasks, NEW r \in Periods, block'[t][r] = "CHECKED"
      PROVE  block[t][r] = "CHECKED" \/ (CommitTap /\ r = tap.at)
  <2>1. ASSUME NEW s \in Procs, FinishReplan(s)
        PROVE  block[t][r] = "CHECKED"
    <3>1. Target(s) \in Periods /\ block'[t][r] = SettledBlocks(Target(s))[t][r]
      BY <1>1, <1>5, <2>1, ReplanEffect
    <3> QED
      BY <1>1, <1>5, <3>1, SettledType
  <2>2. ASSUME NEW s \in Procs, SettleLastEvening(s)
        PROVE  block[t][r] = "CHECKED"
    <3>1. Target(s) \in Periods /\ block'[t][r] = SettledBlocks(Target(s))[t][r]
      BY <1>1, <2>2, TargetIsOpen DEF SettleLastEvening
    <3> QED
      BY <1>1, <1>5, <3>1, SettledType
  <2>3. CASE CommitTap
    BY <1>1, <1>5, <2>3 DEF CommitTap, TypeOK
  <2>4. CASE CommitExecution
    BY <1>1, <1>5, <2>4, ExecutionEffect
  <2>5. CASE (\E s \in Procs : StartSettlement(s) \/ EndWithoutCheckIn(s)) \/ UNCHANGED block
    BY <1>5, <2>5 DEF StartSettlement, EndWithoutCheckIn
  <2> QED
    BY <1>1, <2>1, <2>2, <2>3, <2>4, <2>5, OtherSteps
<1>6. ASSUME NEW t \in Tasks, NEW r \in Periods, block'[t][r] = "CHECKED"
      PROVE  r <= now' /\ Clear(r - 1)'
  <2>1. r <= now /\ Clear(r - 1)
    BY <1>2, <1>5, <1>6 DEF ChecksRecent, CommitTap
  <2>2. r - 1 \in Int /\ r - 1 <= now /\ r <= now'
    BY <1>3, <2>1
  <2> QED
    BY <1>4, <2>1, <2>2
<1>7. ASSUME tap' # None
      PROVE  tap'.at <= now' /\ \A r \in Periods : r < tap'.at - 1 => Quiet(r)'
  <2>1. CASE tap' = tap
    <3>1. tap.at <= now /\ Clear(tap.at - 1) /\ tap.at \in Nat
      BY <1>1, <1>2, <1>7, <2>1, TimesAre DEF ChecksRecent
    <3>2. tap.at - 1 \in Int /\ tap.at - 1 <= now /\ tap.at <= now'
      BY <1>3, <3>1
    <3>3. \A r \in Periods : r < tap.at - 1 => Quiet(r)'
      BY <1>4, <3>1, <3>2 DEF Clear
    <3> QED
      BY <2>1, <3>2, <3>3
  <2>2. ASSUME NEW s \in Procs, NEW t \in Tasks, BeginTap(s, t)
        PROVE  tap'.at <= now' /\ \A r \in Periods : r < tap'.at - 1 => Quiet(r)'
    <3>1. tap'.at = now /\ now' = now /\ mode[s] = "serving"
      BY <2>2 DEF BeginTap
    <3>2. Clear(now - 1) /\ now - 1 \in Int /\ now - 1 <= now
      BY <1>3, <3>1 DEF Held, FrontClear
    <3>3. \A r \in Periods : r < now - 1 => Quiet(r)'
      BY <1>4, <3>2 DEF Clear
    <3> QED
      BY <1>3, <3>1, <3>3
  <2>3. tap' = tap \/ (\E s \in Procs, t \in Tasks : BeginTap(s, t)) \/ tap' = None
    BY TimelySteps DEF vars, apiVars, Tick, StartProcess, Serve, Scan, StartSettlement, SkipTarget,
       EndWithoutCheckIn, BeginReplan, FinishReplan, ReplanRefused, SettleLastEvening, FinalizeStops,
       Crash, BeginExecution, CommitTap, RefuseTap, CommitExecution, FailExecution
  <2> QED
    BY <1>7, <2>1, <2>2, <2>3
<1> QED
  BY <1>6, <1>7 DEF ChecksRecent, Clear

\* A replan finds what it needs, and no toggle or execution gets between.
LEMMA ReplansFitStep ==
  ASSUME Held, [Next]_vars, Timely', NEW s \in Procs
  PROVE  ReplansFit(s)'
<1>1. TypeOK /\ StagesHaveTargets /\ OneSettlement
  BY DEF Held, SettlementInv, WorkInv
<1>2. ReplansFit(s) /\ ResultsInOrder /\ ChecksRecent
  BY DEF Held, OrderInv
<1>3. Periods \subseteq Nat
  BY <1>1, TimesAre
<1> USE DEF workerVars, checkInVars
<1>4. ASSUME stage'[s] # "planning"
      PROVE  ReplansFit(s)'
  BY <1>4 DEF ReplansFit, Planner
<1>5. ASSUME UNCHANGED <<stage[s], queue[s], removable[s]>>, Planner(s) => UNCHANGED <<block, checkIn>>
      PROVE  ReplansFit(s)'
  <2>1. Target(s)' = Target(s) /\ Planner(s)' = Planner(s)
    BY <1>5 DEF Target, Planner
  <2> QED
    BY <1>2, <1>5, <2>1 DEF ReplansFit
<1>6. CASE StartSettlement(s)
  <2>1. stage'[s] = "opened"
    BY <1>1, <1>6 DEF StartSettlement, Goto, TypeOK
  <2> QED
    BY <1>4, <2>1
<1>7. CASE BeginReplan(s)
  <2> DEFINE q == Target(s)
  <2>1. /\ UNCHANGED <<queue, block, checkIn>>
        /\ removable'[s] = Removable(block, q + 1)
    BY <1>1, <1>7 DEF BeginReplan, Goto, TypeOK
  <2>2. /\ q \in Periods /\ checkIn[q] = "open"
        /\ \A r \in Periods : checkIn[r] = "final" => r < q
        /\ \A n \in Int : Clear(n) => n <= q
    BY <1>7, TargetIsOpen
  <2>3. Target(s)' = q
    BY <2>1 DEF Target
  <2> HIDE DEF q
  <2>4. ASSUME NEW t \in Tasks, NEW p \in Periods, p > q
        PROVE  \/ block[t][p] = "none"
               \/ <<t, p>> \in Removable(block, q + 1)
               \/ p = q + 1 /\ block[t][p] = "CHECKED"
    <3>1. q \in Nat /\ p \in Nat /\ p - 1 \in Int /\ p >= q + 1
      BY <1>3, <2>2, <2>4
    <3>2. block[t][p] \notin Settled
      <4>1. ~(p < q)
        BY <2>4, <3>1
      <4> QED
        BY <1>2, <2>2, <4>1 DEF ResultsInOrder
    <3>3. block[t][p] = "CHECKED" => p = q + 1
      <4>1. SUFFICES ASSUME block[t][p] = "CHECKED" PROVE p = q + 1
        OBVIOUS
      <4>2. p - 1 <= q
        BY <1>2, <2>2, <3>1, <4>1 DEF ChecksRecent
      <4> QED
        BY <3>1, <4>2
    <3>4. block[t][p] = "PLANNED" => <<t, p>> \in Removable(block, q + 1)
      BY <3>1 DEF Removable, Blocks
    <3>5. block[t][p] \in BlockStatus
      BY <1>1 DEF TypeOK
    <3> QED
      BY <3>2, <3>3, <3>4, <3>5 DEF BlockStatus, Settled
  <2> QED
    BY <2>1, <2>2, <2>3, <2>4 DEF ReplansFit
<1>8. CASE SkipTarget(s) \/ EndWithoutCheckIn(s) \/ FinishReplan(s) \/ ReplanRefused(s)
           \/ SettleLastEvening(s) \/ FinalizeStops(s) \/ Crash(s)
  <2>1. stage'[s] = "idle"
    BY <1>1, <1>8 DEF SkipTarget, EndWithoutCheckIn, FinishReplan, ReplanRefused, SettleLastEvening,
       FinalizeStops, Crash, NextTarget, TypeOK
  <2> QED
    BY <1>4, <2>1
<1>9. CASE Scan(s)
  <2>1. stage'[s] = "idle"
    BY <1>1, <1>9 DEF Scan, StagesHaveTargets, TypeOK
  <2> QED
    BY <1>4, <2>1
<1>10. CASE (CommitTap /\ ~CycleLocked) \/ CommitExecution
  <2>1. UNCHANGED <<stage, queue, removable>> /\ ~Planner(s)
    BY <1>10 DEF CommitTap, CommitExecution, CycleLocked
  <2> QED
    BY <1>5, <2>1
<1>11. CASE \/ Tick \/ UNCHANGED vars \/ RefuseTap \/ FailExecution \/ StartProcess(s) \/ Serve(s)
            \/ \E p \in Procs : (\E t \in Tasks : BeginTap(p, t)) \/ BeginExecution(p)
  <2>1. UNCHANGED <<stage, queue, removable, checkIn, block>>
    BY <1>11 DEF Tick, vars, StartProcess, Serve, BeginTap, BeginExecution, RefuseTap, FailExecution
  <2> QED
    BY <1>5, <2>1
<1>12. ASSUME NEW p \in Procs, p # s,
              \/ StartProcess(p) \/ Serve(p) \/ Scan(p) \/ StartSettlement(p) \/ SkipTarget(p)
              \/ EndWithoutCheckIn(p) \/ BeginReplan(p) \/ FinishReplan(p) \/ ReplanRefused(p)
              \/ SettleLastEvening(p) \/ FinalizeStops(p) \/ Crash(p)
       PROVE  ReplansFit(s)'
  <2>1. UNCHANGED <<stage[s], queue[s], removable[s]>>
    BY <1>1, <1>12, OtherProcess
  <2>2. ASSUME Planner(s)
        PROVE  UNCHANGED <<block, checkIn>>
    <3>1. CycleLocked /\ ~Planner(p)
      BY <1>1, <1>12, <2>2 DEF CycleLocked, OneSettlement
    <3> QED
      BY <1>12, <3>1 DEF StartProcess, Serve, Scan, StartSettlement, SkipTarget, EndWithoutCheckIn,
         BeginReplan, FinishReplan, ReplanRefused, SettleLastEvening, FinalizeStops, Crash, At, Planner
  <2> QED
    BY <1>5, <2>1, <2>2
<1> QED
  BY <1>6, <1>7, <1>8, <1>9, <1>10, <1>11, <1>12, TimelySteps

\* An ended cycle stays ended.
LEMMA EndedStays ==
  ASSUME [Next]_vars, cycle = "ENDED"
  PROVE  cycle' = "ENDED"
  BY DEF Next, WorkerStep, vars, Tick, StartProcess, Serve, Scan, ScanFails, StartSettlement, SkipTarget,
         EndWithoutCheckIn, BeginReplan, FinishReplan, ReplanRefused, SettleLastEvening, FinalizeStops,
         SettleFails, Crash, BeginTap, CommitTap, RefuseTap, BeginExecution, CommitExecution,
         FailExecution, EndCycle, cycleVars

\* A finalized period and, of an ended cycle, every period is settled.
LEMMA WhatIsQuiet ==
  ASSUME Held, NEW r \in Periods,
         checkIn[r] = "final" \/ cycle = "ENDED" \/ (checkIn[r] = "none" /\ SettleableTasks(r) = {})
  PROVE  Quiet(r)
<1>1. r \in Nat /\ Last \in Nat /\ r <= Last
  BY TimesAre, LastAssumption DEF Held, SettlementInv, WorkInv
<1>2. r < r + 1 /\ r < Last + 1
  BY <1>1
<1> QED
  BY <1>2 DEF Held, OrderInv, ResultsInOrder, Clear, Quiet

\* Nothing is settled, checked or open when the cycle has just been planned.
LEMMA InitiallyInOrder ==
  ASSUME Init
  PROVE  OrderInv /\ \A p \in Periods : ~(p < now) /\ ~(p < now - 1)
<1>1. SettlementInv
  BY InitialWork
<1>2. Periods \subseteq Nat /\ now = 0
  BY <1>1, TimesAre DEF SettlementInv, WorkInv, Init
<1>3. ASSUME NEW t \in Tasks, NEW p \in Periods
      PROVE  block[t][p] \in {"none", "PLANNED"}
  <2>1. PICK plan \in Plans(Empty, 0, remaining, taskStatus) : block = Place(Empty, plan)
    BY DEF Init
  <2> QED
    BY <2>1 DEF Place, Empty
<1>4. ResultsInOrder
  BY <1>3 DEF ResultsInOrder, Settled, Init
<1>5. OpenIsOldest /\ ChecksRecent /\ ExecutionTrue
  BY <1>3 DEF OpenIsOldest, ChecksRecent, ExecutionTrue, Init
<1>6. \A s \in Procs : ClocksTrue(s) /\ ReplansFit(s)
  BY DEF ClocksTrue, ReplansFit, Planner, Idle, Init
<1> QED
  BY <1>2, <1>4, <1>5, <1>6 DEF OrderInv

\* Kills are counted too.
LEMMA KillsCount ==
  ASSUME TypeOK, [Next]_vars, crashes' = 0
  PROVE  crashes = 0
<1>1. crashes \in Nat /\ (crashes' = crashes \/ crashes' = crashes + 1)
  BY DEF TypeOK, Next, WorkerStep, vars, Tick, StartProcess, Serve, Scan, ScanFails, StartSettlement,
         SkipTarget, EndWithoutCheckIn, BeginReplan, FinishReplan, ReplanRefused, SettleLastEvening,
         FinalizeStops, SettleFails, Crash, BeginTap, CommitTap, RefuseTap, BeginExecution,
         CommitExecution, FailExecution, luckVars
<1> QED
  BY <1>1

\* So much of the order holds for any number of processes.
LEMMA OrderStep ==
  ASSUME Held, [Next]_vars, Timely'
  PROVE  OrderInv'
  BY ResultsInOrderStep, OpenIsOldestStep, ChecksRecentStep, ExecutionsStep, ClocksStep, ReplansFitStep
     DEF OrderInv

\* Errors, late runs and races are counted, so a timely past is a prefix.
LEMMA LuckCounts ==
  ASSUME TypeOK, [Next]_vars, Timely'
  PROVE  Timely
<1>1. faults \in Nat /\ overruns \in Nat /\ races \in Nat
  BY DEF TypeOK
<1>2. /\ faults' = faults \/ faults' = faults + 1
      /\ overruns' = overruns \/ overruns' = overruns + 1
      /\ races' = races \/ races' = races + 1
  BY DEF Next, WorkerStep, vars, Tick, StartProcess, Serve, Scan, ScanFails, StartSettlement, SkipTarget,
         EndWithoutCheckIn, BeginReplan, FinishReplan, ReplanRefused, SettleLastEvening, FinalizeStops,
         SettleFails, Crash, BeginTap, CommitTap, RefuseTap, BeginExecution, CommitExecution,
         FailExecution, luckVars
<1> QED
  BY <1>1, <1>2 DEF Timely

-----------------------------------------------------------------------------
(* Plans stay within what is left                                          *)

\* Blocks of a task from the current period on.
Ahead(t) == {p \in Periods : p >= now /\ block[t][p] \in Settleable}
PlansWithinNeed ==
  \A t \in Tasks : taskStatus[t] = "ACTIVE" => Cardinality(Ahead(t)) <= remaining[t]

\* Periods of a set before one are finitely many, and so is all of the set.
LEMMA SomePeriods ==
  ASSUME NEW S \in SUBSET Periods
  PROVE  IsFiniteSet(S) /\ Cardinality(S) \in Nat
  BY PeriodsFinite, FS_Subset, FS_CardinalityType

\* A set within another and one more member has at most one member more.
LEMMA OneMore ==
  ASSUME NEW S \in SUBSET Periods, NEW T \in SUBSET Periods, NEW m, S \subseteq T \cup {m}
  PROVE  Cardinality(S) <= Cardinality(T) + 1
<1>1. IsFiniteSet(T) /\ Cardinality(T) \in Nat /\ Cardinality(S) \in Nat
  BY SomePeriods
<1>2. /\ IsFiniteSet(T \cup {m})
      /\ Cardinality(T \cup {m}) = IF m \in T THEN Cardinality(T) ELSE Cardinality(T) + 1
  BY <1>1, FS_AddElement
<1>3. Cardinality(S) <= Cardinality(T \cup {m})
  BY <1>2, FS_Subset
<1> QED
  BY <1>1, <1>2, <1>3

\* A set of periods that is not empty has a latest one.
LEMMA LatestExists ==
  ASSUME NEW S \in SUBSET Periods, S # {}
  PROVE  \E q \in S : \A other \in S : other <= q
<1> DEFINE R == {Last - p : p \in S}
<1>1. R \in SUBSET Periods /\ R # {}
  <2>1. \A p \in Periods : Last - p \in Periods
    BY LastAssumption DEF Periods
  <2>2. \A r \in R : r \in Periods
    BY <2>1
  <2>3. PICK p \in S : TRUE
    OBVIOUS
  <2>4. Last - p \in R
    BY <2>3
  <2> QED
    BY <2>2, <2>4
<1>2. PICK r \in R : \A other \in R : r <= other
  BY <1>1, OldestExists
<1>3. PICK q \in S : r = Last - q
  BY <1>2
<1>4. ASSUME NEW other \in S
      PROVE  other <= q
  <2>1. Last - q <= Last - other
    BY <1>2, <1>3, <1>4
  <2>2. q \in Int /\ other \in Int /\ Last \in Int
    BY LastAssumption DEF Periods
  <2> QED
    BY <2>1, <2>2
<1> QED
  BY <1>3, <1>4

\* EarliestOf takes as many as it is asked for, or fewer.
LEMMA EarliestFew ==
  ASSUME NEW S \in SUBSET Periods, NEW n \in Nat
  PROVE  Cardinality(EarliestOf(S, n)) <= n
<1> DEFINE E == EarliestOf(S, n)
<1>1. E \subseteq S /\ E \in SUBSET Periods
  BY DEF EarliestOf
<1>2. CASE E = {}
  BY <1>2, FS_EmptySet
<1>3. CASE E # {}
  <2>1. PICK m \in E : \A other \in E : other <= m
    BY <1>1, <1>3, LatestExists
  <2> DEFINE T == {q \in S : q < m}
  <2>2. Cardinality(T) < n
    BY <2>1 DEF EarliestOf
  <2>3. E \subseteq T \cup {m}
    BY <1>1, <2>1, LastAssumption DEF Periods
  <2>4. T \in SUBSET Periods
    OBVIOUS
  <2> HIDE DEF E, T
  <2>5. Cardinality(E) <= Cardinality(T) + 1 /\ Cardinality(E) \in Nat /\ Cardinality(T) \in Nat
    BY <1>1, <2>3, <2>4, OneMore, SomePeriods
  <2>6. Cardinality(E) <= n
    BY <2>2, <2>5
  <2> QED
    BY <2>6 DEF E
<1> QED
  BY <1>2, <1>3

\* A plan, and the check the scheduler found in its first period, are within
\* what is left of a task.
LEMMA PlanSmall ==
  ASSUME NEW blk \in [Tasks -> [Periods -> BlockStatus]], NEW c \in Nat,
         NEW left \in [Tasks -> Nat], NEW st, NEW plan \in Plans(blk, c, left, st),
         NEW t \in Tasks, st[t] = "ACTIVE", left[t] > 0,
         NEW A \in SUBSET Periods,
         \A p \in A : p \in plan[t] \/ (p = c /\ CheckedNow(blk, t, c))
  PROVE  Cardinality(A) <= left[t]
<1> DEFINE n == Need(blk, t, c, left, st)
<1>1. n = Less(left[t], IF CheckedNow(blk, t, c) THEN 1 ELSE 0) /\ left[t] \in Nat
  BY DEF Need
<1>2. n \in Nat /\ (n = left[t] \/ (CheckedNow(blk, t, c) /\ n + 1 = left[t]))
      /\ (~CheckedNow(blk, t, c) => n = left[t])
  BY <1>1 DEF Less
<1>3. Eligible(blk, t, c) \in SUBSET Periods
  BY LastAssumption DEF Eligible, Periods
<1>4. plan[t] \in SUBSET Periods /\ Cardinality(plan[t]) <= n
  <2>1. CASE Eager
    <3>1. plan[t] = EarliestOf(Eligible(blk, t, c), n)
      BY <2>1 DEF Plans
    <3> HIDE DEF n
    <3> QED
      BY <1>2, <1>3, <3>1, EarliestFew DEF EarliestOf
  <2>2. CASE ~Eager
    <3>1. plan[t] \subseteq Eligible(blk, t, c) /\ Cardinality(plan[t]) <= n
      BY <2>2 DEF Plans
    <3> QED
      BY <1>3, <3>1
  <2> QED
    BY <2>1, <2>2
<1> HIDE DEF n
<1>5. Cardinality(A) \in Nat /\ Cardinality(plan[t]) \in Nat
  BY <1>4, SomePeriods
<1>6. CASE CheckedNow(blk, t, c)
  <2>1. A \subseteq plan[t] \cup {c}
    OBVIOUS
  <2>2. Cardinality(A) <= Cardinality(plan[t]) + 1
    BY <1>4, <2>1, OneMore
  <2>3. n + 1 <= left[t]
    BY <1>1, <1>2, <1>6 DEF Less
  <2> QED
    BY <1>2, <1>4, <1>5, <2>2, <2>3
<1>7. CASE ~CheckedNow(blk, t, c)
  <2>1. A \subseteq plan[t] /\ IsFiniteSet(plan[t])
    BY <1>4, <1>7, SomePeriods
  <2>2. Cardinality(A) <= Cardinality(plan[t])
    BY <2>1, FS_Subset
  <2> QED
    BY <1>2, <1>4, <1>5, <1>7, <2>2
<1> QED
  BY <1>6, <1>7

\* No step of a timely behaviour plans more than is left.
LEMMA PlansStep ==
  ASSUME Held, PlansWithinNeed, [Next]_vars, Timely', SettlementInv'
  PROVE  PlansWithinNeed'
<1>1. /\ TypeOK /\ StagesHaveTargets /\ RowsUnsettled
      /\ Periods \subseteq Nat /\ now \in Nat /\ TypeOK'
  BY TimesAre DEF Held, SettlementInv, WorkInv
<1>2. StatusFitsMinutes' /\ CycleEndsOnce'
  BY DEF SettlementInv
<1> USE DEF cycleVars
<1>3. SUFFICES ASSUME NEW t \in Tasks, taskStatus'[t] = "ACTIVE"
               PROVE  Cardinality(Ahead(t)') <= remaining'[t]
  BY DEF PlansWithinNeed
<1>4. /\ Ahead(t)' = {p \in Periods : p >= now' /\ block'[t][p] \in Settleable}
      /\ remaining'[t] \in Nat /\ remaining'[t] > 0
  BY <1>1, <1>2, <1>3 DEF Ahead, TypeOK, StatusFitsMinutes
<1>5. ASSUME UNCHANGED <<taskStatus, remaining>>, now <= now',
             \A r \in Periods : block'[t][r] \in Settleable => block[t][r] \in Settleable
      PROVE  Cardinality(Ahead(t)') <= remaining'[t]
  <2>1. Cardinality(Ahead(t)) <= remaining[t] /\ remaining[t] \in Nat
    BY <1>1, <1>3, <1>5 DEF PlansWithinNeed, TypeOK
  <2>2. now' \in Nat
    BY <1>1, TimesAre DEF TypeOK
  <2>3. Ahead(t)' \subseteq Ahead(t) /\ Ahead(t) \in SUBSET Periods
    <3>1. \A r \in Periods : r >= now' => r >= now
      BY <1>1, <1>5, <2>2
    <3> QED
      BY <1>4, <1>5, <3>1 DEF Ahead
  <2>4. Cardinality(Ahead(t)') <= Cardinality(Ahead(t)) /\ Cardinality(Ahead(t)) \in Nat
        /\ Cardinality(Ahead(t)') \in Nat
    BY <2>3, SomePeriods, FS_Subset
  <2> QED
    BY <1>5, <2>1, <2>4
<1>6. CASE UNCHANGED <<cycleVars, block, checkInVars>> /\ now <= now'
  BY <1>5, <1>6
<1>7. CASE \E s \in Procs : StartSettlement(s)
  BY <1>1, <1>5, <1>7 DEF StartSettlement
<1>8. CASE CommitTap
  <2>1. UNCHANGED <<now, taskStatus, remaining>>
    BY <1>8 DEF CommitTap
  <2>2. \A r \in Periods : block'[t][r] \in Settleable => block[t][r] \in Settleable
    BY <1>1, <1>8 DEF CommitTap, CanToggle, TypeOK
  <2> QED
    BY <1>1, <1>5, <2>1, <2>2
<1>9. CASE \E s \in Procs : EndWithoutCheckIn(s) \/ SettleLastEvening(s)
  <2>1. cycle' = "ENDED"
    BY <1>9 DEF EndWithoutCheckIn, SettleLastEvening, EndCycle
  <2> QED
    BY <1>2, <1>3, <2>1 DEF CycleEndsOnce
<1>10. ASSUME NEW s \in Procs, FinishReplan(s)
       PROVE  Cardinality(Ahead(t)') <= remaining'[t]
  <2> DEFINE q == Target(s)
             kept == Delete(SettledBlocks(q), removable[s])
  <2>1. q \in Periods /\ q < now /\ now' = now
    BY <1>10, TargetIsOpen DEF FinishReplan
  <2>2. PICK plan \in Plans(kept, q + 1, SettledMinutes(q), SettledTasks(q)) :
          block' = Place(kept, plan)
    BY <1>10 DEF FinishReplan
  <2>3. taskStatus' = SettledTasks(q) /\ remaining' = SettledMinutes(q)
    BY <1>10 DEF FinishReplan
  <2>4. kept \in [Tasks -> [Periods -> BlockStatus]] /\ SettledMinutes(q) \in [Tasks -> Nat]
    BY <1>1, <2>1, SettledType, DeleteType
  <2>5. ASSUME NEW p \in Ahead(t)'
        PROVE  p \in plan[t] \/ (p = q + 1 /\ CheckedNow(kept, t, q + 1))
    <3>1. p \in Periods /\ block'[t][p] \in Settleable /\ p > q /\ p # q
      <4>1. p \in Periods /\ p >= now' /\ block'[t][p] \in Settleable
        BY <1>4, <2>5
      <4> HIDE DEF q
      <4>2. p \in Nat /\ q \in Nat /\ p >= now
        BY <1>1, <2>1, <4>1
      <4> QED
        BY <1>1, <2>1, <4>1, <4>2
    <3>2. SUFFICES ASSUME p \notin plan[t] PROVE p = q + 1 /\ CheckedNow(kept, t, q + 1)
      OBVIOUS
    <3>3. kept[t][p] \in Settleable
      BY <2>2, <3>1, <3>2 DEF Place
    <3>4. kept[t][p] = IF <<t, p>> \in removable[s] THEN "none" ELSE block[t][p]
      <4>1. /\ SettledBlocks(q) \in [Tasks -> [Periods -> BlockStatus]]
            /\ SettledBlocks(q)[t][p] = block[t][p]
        <5> HIDE DEF q
        <5>1. /\ SettledBlocks(q) \in [Tasks -> [Periods -> BlockStatus]]
              /\ \A u \in Tasks, r \in Periods : r # q => SettledBlocks(q)[u][r] = block[u][r]
          BY <1>1, <2>1, SettledType
        <5> QED
          BY <3>1, <5>1
      <4> QED
        BY <3>1, <4>1, DeleteType
    <3>5. \/ block[t][p] = "none"
          \/ <<t, p>> \in removable[s]
          \/ p = q + 1 /\ block[t][p] = "CHECKED"
      BY <1>10, <3>1 DEF FinishReplan, At, Planner, Held, OrderInv, ReplansFit
    <3> HIDE DEF q, kept
    <3> QED
      BY <3>1, <3>3, <3>4, <3>5 DEF CheckedNow, Settleable
  <2>6. q + 1 \in Nat /\ Ahead(t)' \in SUBSET Periods
    <3> HIDE DEF q
    <3>1. Ahead(t)' \in SUBSET Periods
      BY <1>4
    <3>2. q \in Nat
      BY <2>1 DEF Periods
    <3> QED
      BY <3>1, <3>2
  <2>7. SettledTasks(q)[t] = "ACTIVE" /\ SettledMinutes(q)[t] > 0
    BY <1>3, <1>4, <2>3
  <2>8. Cardinality(Ahead(t)') <= SettledMinutes(q)[t]
    <3> DEFINE c == q + 1
               left == SettledMinutes(q)
               st == SettledTasks(q)
    <3>1. /\ plan \in Plans(kept, c, left, st) /\ c \in Nat /\ left \in [Tasks -> Nat]
          /\ st[t] = "ACTIVE" /\ left[t] > 0
          /\ \A p \in Ahead(t)' : p \in plan[t] \/ (p = c /\ CheckedNow(kept, t, c))
      BY <2>2, <2>4, <2>5, <2>6, <2>7
    <3> HIDE DEF c, left, st, kept
    <3>2. Cardinality(Ahead(t)') <= left[t]
      BY <2>4, <2>6, <3>1, PlanSmall
    <3> QED
      BY <3>2 DEF left
  <2> QED
    BY <2>3, <2>8
<1>11. CASE CommitExecution
  <2> DEFINE c == exec.at
             kept == Delete(block, Removable(block, c))
  <2>1. c = now /\ now' = now
    BY <1>11 DEF CommitExecution, Held, OrderInv, ExecutionTrue
  <2>2. PICK u \in Tasks : \E left, total, st : ExecuteCard(u, left, total, st)
    BY <1>11 DEF CommitExecution, CancelTask, UpdateMinutes
  <2>3. PICK plan \in Plans(kept, c, remaining', taskStatus') : block' = Place(kept, plan)
    BY <2>2 DEF ExecuteCard
  <2>4. kept \in [Tasks -> [Periods -> BlockStatus]] /\ remaining' \in [Tasks -> Nat]
    BY <1>1, DeleteType DEF TypeOK
  <2>5. ASSUME NEW p \in Ahead(t)'
        PROVE  p \in plan[t] \/ (p = c /\ CheckedNow(kept, t, c))
    <3>1. p \in Periods /\ block'[t][p] \in Settleable /\ p >= now
      BY <1>4, <2>1, <2>5
    <3>2. SUFFICES ASSUME p \notin plan[t] PROVE p = c /\ CheckedNow(kept, t, c)
      OBVIOUS
    <3>3. kept[t][p] \in Settleable
      BY <2>3, <3>1, <3>2 DEF Place
    <3>4. kept[t][p] = IF <<t, p>> \in Removable(block, c) THEN "none" ELSE block[t][p]
      BY <1>1, <3>1, DeleteType DEF TypeOK
    <3>5. block[t][p] # "PLANNED"
      BY <2>1, <3>1, <3>3, <3>4 DEF Removable, Blocks, Settleable
    <3>6. kept[t][p] = "CHECKED" /\ block[t][p] = "CHECKED"
      BY <3>3, <3>4, <3>5 DEF Settleable
    <3>7. p <= now
      BY <3>1, <3>6 DEF Held, OrderInv, ChecksRecent
    <3>8. p = c
      <4> HIDE DEF c, kept
      <4>1. p \in Nat /\ now \in Nat
        BY <1>1, <3>1
      <4> QED
        BY <2>1, <3>1, <3>7, <4>1
    <3> QED
      BY <3>1, <3>6, <3>8 DEF CheckedNow
  <2>6. c \in Nat /\ Ahead(t)' \in SUBSET Periods
    BY <1>1, <1>4, <2>1
  <2> HIDE DEF c, kept
  <2> QED
    BY <1>3, <1>4, <2>3, <2>4, <2>5, <2>6, PlanSmall
<1> QED
  BY <1>1, <1>6, <1>7, <1>8, <1>9, <1>10, <1>11, OtherSteps

\* The first plan is within the estimates.
LEMMA InitiallyWithinNeed == Init => PlansWithinNeed
<1> SUFFICES ASSUME Init, NEW t \in Tasks
             PROVE  Cardinality(Ahead(t)) <= remaining[t]
  BY DEF PlansWithinNeed
<1>1. PICK plan \in Plans(Empty, 0, remaining, taskStatus) : block = Place(Empty, plan)
  BY DEF Init
<1>2. /\ Empty \in [Tasks -> [Periods -> BlockStatus]] /\ remaining \in [Tasks -> Nat]
      /\ remaining[t] > 0 /\ taskStatus[t] = "ACTIVE"
  BY MinutesAssumption DEF Empty, BlockStatus, Init
<1>3. \A p \in Ahead(t) : p \in plan[t]
  BY <1>1 DEF Ahead, Place, Empty, Settleable
<1>4. Ahead(t) \in SUBSET Periods /\ 0 \in Nat
  BY DEF Ahead
<1> QED
  BY <1>1, <1>2, <1>3, <1>4, PlanSmall

\* Once nothing is due, the rows of a task that are not settled lie ahead.
LEMMA NothingDue ==
  ASSUME Held, PlansWithinNeed
  PROVE  PlannedWithinNeed
<1> SUFFICES ASSUME \A p \in Periods : ~Due(p), NEW t \in Tasks, taskStatus[t] = "ACTIVE"
             PROVE  CountOf(block, t, "PLANNED") + CountOf(block, t, "CHECKED") <= remaining[t]
  BY DEF PlannedWithinNeed
<1> DEFINE P == {p \in Periods : block[t][p] = "PLANNED"}
           C == {p \in Periods : block[t][p] = "CHECKED"}
<1>1. /\ TypeOK /\ Periods \subseteq Nat /\ now \in Nat /\ cycle # "ENDED"
  BY TimesAre DEF Held, SettlementInv, WorkInv, CycleEndsOnce
<1>2. ASSUME NEW p \in P \cup C
      PROVE  p \in Ahead(t)
  <2>1. p \in Periods /\ block[t][p] \in Settleable
    BY <1>2 DEF Settleable
  <2>2. SettleableTasks(p) # {}
    BY <2>1 DEF SettleableTasks
  <2>3. checkIn[p] # "final"
    BY <2>1, <2>2, WhatIsQuiet DEF Quiet
  <2>4. checkIn[p] # "open" /\ cycle = "ACTIVE"
    BY <1>1, <2>1 DEF Due, TypeOK
  <2>5. checkIn[p] = "none"
    BY <1>1, <2>1, <2>3, <2>4 DEF TypeOK
  <2>6. ~(now > p)
    BY <2>1, <2>2, <2>4, <2>5 DEF Due
  <2> QED
    BY <1>1, <2>1, <2>6 DEF Ahead
<1>3. /\ P \cup C \subseteq Ahead(t) /\ Ahead(t) \in SUBSET Periods
      /\ P \in SUBSET Periods /\ C \in SUBSET Periods /\ P \cap C = {}
  BY <1>2 DEF Ahead
<1>4. CountOf(block, t, "PLANNED") = Cardinality(P) /\ CountOf(block, t, "CHECKED") = Cardinality(C)
  BY DEF CountOf
<1>5. Cardinality(Ahead(t)) <= remaining[t] /\ remaining[t] \in Nat
  BY <1>1 DEF PlansWithinNeed, TypeOK
<1> HIDE DEF P, C
<1>6. /\ IsFiniteSet(P) /\ IsFiniteSet(C) /\ IsFiniteSet(Ahead(t))
      /\ Cardinality(P) \in Nat /\ Cardinality(C) \in Nat /\ Cardinality(Ahead(t)) \in Nat
  BY <1>3, SomePeriods
<1>7. Cardinality(P \cup C) = Cardinality(P) + Cardinality(C) - Cardinality(P \cap C)
  BY <1>6, FS_Union
<1>8. Cardinality(P \cap C) = 0
  BY <1>3, FS_EmptySet
<1>9. Cardinality(P \cup C) <= Cardinality(Ahead(t))
  BY <1>3, <1>6, FS_Subset
<1> QED
  BY <1>4, <1>5, <1>6, <1>7, <1>8, <1>9

\* What is kept says that periods are settled oldest first.
LEMMA OrderIsOldestFirst ==
  ASSUME SettlementInv, OrderInv
  PROVE  OldestFirst
<1> SUFFICES ASSUME NEW p \in Periods, NEW q \in Periods, q <= p, checkIn[p] = "final"
             PROVE  Quiet(q)
  BY DEF OldestFirst, Quiet
<1>1. p \in Nat /\ q \in Nat
  BY TimesAre DEF SettlementInv, WorkInv
<1>2. q < p + 1
  BY <1>1
<1> QED
  BY <1>2 DEF OrderInv, ResultsInOrder, Clear

\* Who has opened a check-in is not refused by the database.
LEMMA NoneRefused ==
  ASSUME Held, NEW s \in Procs, checkIn[Target(s)] = "open", startedBy[Target(s)] = s
  PROVE  ~ReplanRefused(s) /\ ~FinalizeStops(s)
<1> DEFINE q == Target(s)
           kept == Delete(SettledBlocks(q), removable[s])
<1>1. TypeOK
  BY DEF Held, SettlementInv, WorkInv
<1>2. SUFFICES ASSUME queue[s] # {}
               PROVE  ~ReplanRefused(s) /\ ~FinalizeStops(s)
  BY DEF ReplanRefused, FinalizeStops, At
<1>3. q \in Periods
  BY <1>1, <1>2, TargetIsOldest
<1>4. SettleableTasks(q) # {} /\ SurelyInTime(s, q)
  BY <1>3 DEF Held, OrderInv, OpenIsOldest, SurelyInTime
<1>5. ~FinalizeStops(s)
  BY <1>4 DEF FinalizeStops
<1>6. ASSUME ReplanRefused(s)
      PROVE  FALSE
  <2>1. PICK plan \in Plans(kept, q + 1, SettledMinutes(q), SettledTasks(q)) : ~Fits(kept, plan)
    BY <1>4, <1>6 DEF ReplanRefused
  <2>2. \A t \in Tasks : plan[t] \subseteq Eligible(kept, t, q + 1)
    BY <2>1, PlanWithin
  <2>3. PICK t \in Tasks : \E p \in plan[t] : kept[t][p] # "none"
    BY <2>1 DEF Fits
  <2>4. PICK p \in plan[t] : kept[t][p] # "none"
    BY <2>3
  <2>5. p \in q + 1 .. Last /\ ~(p = q + 1 /\ CheckedNow(kept, t, q + 1))
    BY <2>2, <2>4 DEF Eligible
  <2>6. p \in Periods /\ p > q /\ p # q
    BY <1>3, <2>5, LastAssumption DEF Periods
  <2>7. kept[t][p] = IF <<t, p>> \in removable[s] THEN "none" ELSE block[t][p]
    BY <1>1, <1>3, <2>6, SettledType, DeleteType
  <2>8. \/ block[t][p] = "none"
        \/ <<t, p>> \in removable[s]
        \/ p = q + 1 /\ block[t][p] = "CHECKED"
    BY <1>6, <2>6 DEF ReplanRefused, At, Planner, Held, OrderInv, ReplansFit
  <2>9. p = q + 1 /\ kept[t][p] = "CHECKED"
    BY <2>4, <2>7, <2>8
  <2> QED
    BY <2>5, <2>6, <2>9 DEF CheckedNow
<1> QED
  BY <1>5, <1>6

-----------------------------------------------------------------------------
(* One process, which may be killed and restarted                          *)

\* The first scan of a run is still to come.
Unscanned(s) == queue[s] = {} /\ (rounds[s] = 3 \/ (mode[s] = "starting" /\ rounds[s] = 1))

\* After it, what has ended is settled or will be by this run; what the queue
\* does not hold of it is settled or older than what it holds.
RunsCatchUp(s) ==
  /\ mode[s] # "down" /\ ~Unscanned(s) =>
       \A p \in Periods : p < now => p \in queue[s] \/ Quiet(p)
  /\ queue[s] # {} =>
       \A p \in Periods : p < now /\ p \notin queue[s] =>
         checkIn[p] = "final" \/ cycle = "ENDED" \/ \A r \in queue[s] : p < r
  /\ FrontClear(s)

OpenedStaysOpen(s) == stage[s] # "idle" => checkIn[Target(s)] = "open"

AloneInv(s) == RunsCatchUp(s) /\ OpenedStaysOpen(s)
HeldAlone(s) == Procs = {s} /\ Held /\ AloneInv(s)

\* A queue that has been scanned begins with the oldest unsettled period.
LEMMA AloneHolds ==
  ASSUME NEW s, Procs = {s}, SettlementInv, Timely, OrderInv, AloneInv(s)
  PROVE  HeldAlone(s)
<1>1. TypeOK /\ OnlyClosed /\ s \in Procs
  BY DEF SettlementInv, WorkInv
<1>2. ASSUME queue[s] # {}, NEW r \in Periods, r < Target(s)
      PROVE  Quiet(r)
  <2> DEFINE q == Target(s)
  <2>1. q \in Nat /\ r \in Nat /\ now \in Nat /\ q < now
    BY <1>1, <1>2, TargetIsOldest, TimesAre DEF OnlyClosed
  <2>2. r < q /\ \A x \in queue[s] : q <= x
    BY <1>1, <1>2, TargetIsOldest
  <2>3. mode[s] # "down" /\ ~Unscanned(s)
    BY <1>1, <1>2 DEF OrderInv, ClocksTrue, Idle, Unscanned
  <2> HIDE DEF q
  <2>4. r < now /\ r \notin queue[s]
    BY <2>1, <2>2
  <2> QED
    BY <2>3, <2>4 DEF AloneInv, RunsCatchUp
<1>3. TargetsNext(s)
  BY <1>2 DEF TargetsNext, Clear
<1> QED
  BY <1>3 DEF HeldAlone, Held, AloneInv, RunsCatchUp

\* The steps of the only process, and of the requests it serves.
LEMMA AloneSteps ==
  ASSUME NEW s, HeldAlone(s), [Next]_vars, Timely'
  PROVE  \/ Tick /\ ~Busy
         \/ UNCHANGED vars
         \/ StartProcess(s) \/ Serve(s) \/ Scan(s) \/ StartSettlement(s) \/ SkipTarget(s)
         \/ EndWithoutCheckIn(s) \/ BeginReplan(s) \/ FinishReplan(s) \/ SettleLastEvening(s)
         \/ Crash(s) \/ (\E t \in Tasks : BeginTap(s, t)) \/ BeginExecution(s)
         \/ (CommitTap /\ ~CycleLocked) \/ RefuseTap \/ CommitExecution \/ FailExecution
<1>1. ~ReplanRefused(s) /\ ~FinalizeStops(s)
  <2>1. SUFFICES ASSUME ReplanRefused(s) \/ FinalizeStops(s) PROVE FALSE
    OBVIOUS
  <2>2. stage[s] # "idle" /\ queue[s] # {}
    BY <2>1 DEF ReplanRefused, FinalizeStops, At
  <2>3. checkIn[Target(s)] = "open" /\ Target(s) \in Periods /\ s \in Procs
    BY <2>2, TargetIsNext DEF HeldAlone, AloneInv, OpenedStaysOpen
  <2>4. startedBy[Target(s)] = s
    BY <2>3 DEF HeldAlone, Held, OrderInv, OpenIsOldest
  <2> QED
    BY <2>1, <2>3, <2>4, NoneRefused DEF HeldAlone
<1> QED
  BY <1>1, TimelySteps DEF HeldAlone

\* A check-in stays open until its settlement has ended.
LEMMA OpenedStep ==
  ASSUME NEW s, HeldAlone(s), [Next]_vars, Timely'
  PROVE  OpenedStaysOpen(s)'
<1>1. TypeOK /\ StagesHaveTargets /\ s \in Procs
  BY DEF HeldAlone, Held, SettlementInv, WorkInv
<1>2. OpenedStaysOpen(s)
  BY DEF HeldAlone, AloneInv
<1> USE DEF workerVars, checkInVars
<1>3. ASSUME UNCHANGED <<stage, queue, checkIn>>
      PROVE  OpenedStaysOpen(s)'
  <2>1. Target(s)' = Target(s)
    BY <1>3 DEF Target
  <2> QED
    BY <1>2, <1>3, <2>1 DEF OpenedStaysOpen
<1>4. CASE StartSettlement(s)
  <2>1. queue' = queue /\ checkIn'[Target(s)] = "open"
    BY <1>1, <1>4, TargetIsOldest DEF StartSettlement, Goto, At, TypeOK
  <2>2. Target(s)' = Target(s)
    BY <2>1 DEF Target
  <2> QED
    BY <2>1, <2>2 DEF OpenedStaysOpen
<1>5. CASE BeginReplan(s)
  <2>1. queue' = queue /\ checkIn' = checkIn /\ checkIn[Target(s)] = "open"
    BY <1>5 DEF BeginReplan, Goto
  <2>2. Target(s)' = Target(s)
    BY <2>1 DEF Target
  <2> QED
    BY <2>1, <2>2 DEF OpenedStaysOpen
<1>6. CASE SkipTarget(s) \/ EndWithoutCheckIn(s) \/ FinishReplan(s) \/ SettleLastEvening(s) \/ Crash(s)
  BY <1>1, <1>6 DEF SkipTarget, EndWithoutCheckIn, FinishReplan, SettleLastEvening, Crash,
     NextTarget, TypeOK, OpenedStaysOpen
<1>7. CASE Scan(s)
  BY <1>1, <1>7 DEF Scan, StagesHaveTargets, OpenedStaysOpen
<1>8. CASE Tick \/ UNCHANGED vars \/ StartProcess(s) \/ Serve(s) \/ (\E t \in Tasks : BeginTap(s, t))
            \/ BeginExecution(s) \/ CommitTap \/ RefuseTap \/ CommitExecution \/ FailExecution
  BY <1>3, <1>8 DEF Tick, vars, StartProcess, Serve, BeginTap, BeginExecution, CommitTap, RefuseTap,
     CommitExecution, FailExecution
<1> QED
  BY <1>4, <1>5, <1>6, <1>7, <1>8, AloneSteps

\* A step that lets the worker be finds and leaves settled what is.
LEMMA RunKept ==
  ASSUME NEW s, HeldAlone(s), [Next]_vars, Timely', UNCHANGED <<now, queue, rounds, mode>>
  PROVE  RunsCatchUp(s)'
<1>1. WorkInv /\ CycleEndsOnce /\ s \in Procs /\ Periods \subseteq Nat /\ now \in Nat
  BY TimesAre DEF HeldAlone, Held, SettlementInv, WorkInv
<1>2. RunsCatchUp(s)
  BY DEF HeldAlone, AloneInv
<1>4. ~FinishReplan(s)
  <2>1. SUFFICES ASSUME FinishReplan(s) PROVE FALSE
    OBVIOUS
  <2>2. queue[s] # {} /\ queue' = [queue EXCEPT ![s] = @ \ {Target(s)}]
    BY <2>1 DEF FinishReplan, At, NextTarget
  <2> QED
    BY <1>1, <2>2, TargetIsOldest DEF WorkInv, TypeOK
<1>5. \A r \in Periods : r < now /\ Quiet(r) => Quiet(r)'
  BY <1>4, QuietStays DEF HeldAlone
<1>6. \A r \in Periods : checkIn[r] = "final" => checkIn'[r] = "final"
  BY <1>1, ResultsStep
<1>7. cycle = "ENDED" => cycle' = "ENDED"
  BY EndedStays
<1>8. Clear(now - 1) => \A r \in Periods : r < now - 1 => Quiet(r)'
  <2>1. now - 1 \in Int /\ now - 1 <= now
    BY <1>1
  <2> QED
    BY <2>1, ClearStays DEF HeldAlone, Clear
<1>9. Unscanned(s)' = Unscanned(s)
  BY DEF Unscanned
<1> QED
  BY <1>2, <1>5, <1>6, <1>7, <1>8, <1>9 DEF RunsCatchUp, FrontClear, Clear

\* A target that is left is settled.
LEMMA TargetLeft ==
  ASSUME NEW s, HeldAlone(s), [Next]_vars, Timely',
         SkipTarget(s) \/ EndWithoutCheckIn(s) \/ FinishReplan(s) \/ SettleLastEvening(s)
  PROVE  RunsCatchUp(s)'
<1> DEFINE q == Target(s)
<1>1. WorkInv /\ s \in Procs /\ Periods \subseteq Nat /\ now \in Nat
  BY TimesAre DEF HeldAlone, Held, SettlementInv, WorkInv
<1>2. RunsCatchUp(s)
  BY DEF HeldAlone, AloneInv
<1>3. /\ queue[s] # {} /\ UNCHANGED <<now, mode, rounds>>
      /\ queue'[s] = queue[s] \ {q}
  BY <1>1 DEF SkipTarget, EndWithoutCheckIn, FinishReplan, SettleLastEvening, At, NextTarget,
              WorkInv, TypeOK
<1>4. /\ q \in queue[s] /\ q \in Periods /\ q < now
      /\ mode[s] # "down" /\ ~Unscanned(s)
      /\ \A r \in queue[s] : q <= r
  BY <1>1, <1>3, TargetIsNext DEF HeldAlone, Held, OrderInv, ClocksTrue, Idle, Unscanned
<1>5. queue[s] \subseteq Periods
  BY <1>1, TimesAre DEF WorkInv
<1>6. \A r \in Periods : checkIn[r] = "final" => checkIn'[r] = "final"
  BY <1>1, ResultsStep
<1>7. cycle = "ENDED" => cycle' = "ENDED"
  BY EndedStays
<1>8. \A r \in Periods : r < now - 1 /\ Clear(now - 1) => Quiet(r)'
  <2>1. now - 1 \in Int /\ now - 1 <= now
    BY <1>1
  <2> QED
    BY <2>1, ClearStays DEF HeldAlone, Clear
<1>9. ASSUME NEW r \in Periods, r = q
      PROVE  Quiet(r)'
  <2>1. CASE SkipTarget(s) \/ EndWithoutCheckIn(s)
    <3>1. /\ UNCHANGED <<block, checkIn>>
          /\ checkIn[q] = "final" \/ cycle = "ENDED" \/ (checkIn[q] = "none" /\ SettleableTasks(q) = {})
      BY <1>1, <2>1 DEF SkipTarget, EndWithoutCheckIn, checkInVars, WorkInv, TypeOK
    <3>2. Quiet(r)
      BY <1>9, <3>1, WhatIsQuiet DEF HeldAlone
    <3> QED
      BY <3>1, <3>2 DEF Quiet, SettleableTasks
  <2>2. CASE FinishReplan(s) \/ SettleLastEvening(s)
    <3>1. \A e \in Periods : e < q + 1 => Quiet(e)'
      BY <2>2, TargetSettled DEF HeldAlone, Clear
    <3>2. r < q + 1
      <4> HIDE DEF q
      <4> QED
        BY <1>1, <1>9
    <3> QED
      BY <3>1, <3>2
  <2> QED
    BY <2>1, <2>2
<1>10. ASSUME NEW r \in Periods, r < now, r \notin queue[s]
       PROVE  Quiet(r)'
  <2>1. Quiet(r)
    BY <1>2, <1>4, <1>10 DEF RunsCatchUp, FrontClear
  <2>2. ASSUME FinishReplan(s)
        PROVE  r < q
    <3>1. cycle # "ENDED" /\ (checkIn[r] = "final" => r < q)
      BY <2>2, TargetIsOpen DEF HeldAlone
    <3> QED
      BY <1>2, <1>3, <1>4, <1>10, <3>1 DEF RunsCatchUp, FrontClear
  <2> QED
    BY <1>10, <2>1, <2>2, QuietStays DEF HeldAlone
<1>11. ASSUME NEW r \in Periods, r < now, r \notin queue'[s]
       PROVE  /\ Quiet(r)'
              /\ checkIn'[r] = "final" \/ cycle' = "ENDED" \/ \A e \in queue'[s] : r < e
  <2>1. CASE r = q
    <3>1. \A e \in queue'[s] : e \in Nat /\ q <= e /\ e # q /\ q \in Nat
      BY <1>1, <1>3, <1>4, <1>5
    <3> HIDE DEF q
    <3>2. \A e \in queue'[s] : q < e
      BY <3>1
    <3> QED
      BY <1>9, <2>1, <3>2
  <2>2. CASE r # q
    <3>1. r \notin queue[s]
      BY <1>3, <1>11, <2>2
    <3>2. checkIn[r] = "final" \/ cycle = "ENDED" \/ \A e \in queue[s] : r < e
      BY <1>2, <1>3, <1>11, <3>1 DEF RunsCatchUp, FrontClear
    <3> QED
      BY <1>3, <1>6, <1>7, <1>10, <1>11, <3>1, <3>2
  <2> QED
    BY <2>1, <2>2
<1> HIDE DEF q
<1>12. /\ \A p \in Periods : p < now' => p \in queue'[s] \/ Quiet(p)'
       /\ \A p \in Periods : p < now' /\ p \notin queue'[s] =>
            checkIn'[p] = "final" \/ cycle' = "ENDED" \/ \A r \in queue'[s] : p < r
  BY <1>3, <1>11
<1>13. mode'[s] = "serving" => \A r \in Periods : r < now' - 1 => Quiet(r)'
  BY <1>2, <1>3, <1>8 DEF RunsCatchUp, FrontClear
<1> QED
  BY <1>12, <1>13 DEF RunsCatchUp, FrontClear, Clear

\* A scan finds all there is to settle.
LEMMA ScanFinds ==
  ASSUME NEW s, HeldAlone(s), [Next]_vars, Timely', Scan(s)
  PROVE  RunsCatchUp(s)'
<1>1. WorkInv /\ s \in Procs /\ Periods \subseteq Nat /\ now \in Nat
  BY TimesAre DEF HeldAlone, Held, SettlementInv, WorkInv
<1>2. RunsCatchUp(s) /\ clock[s] = now
  BY <1>1 DEF HeldAlone, Held, OrderInv, AloneInv, ClocksTrue, Idle, Scan
<1>3. /\ queue[s] = {} /\ rounds[s] > 0
      /\ UNCHANGED <<now, mode, cycle, block, checkIn>>
      /\ queue'[s] = IF rounds[s] = 2 THEN ScheduledTargets(now) ELSE RecoveryTargets(now)
  BY <1>1, <1>2 DEF Scan, cycleVars, checkInVars, WorkInv, TypeOK
<1>4. \A r \in Periods : Quiet(r)' = Quiet(r)
  BY <1>3 DEF Quiet, SettleableTasks
<1>5. CASE rounds[s] = 2
  <2>1. queue'[s] \subseteq {now - 1}
    BY <1>3, <1>5 DEF ScheduledTargets
  <2>2. \A p \in Periods : p < now /\ mode[s] # "down" => Quiet(p)
    BY <1>2, <1>3, <1>5 DEF RunsCatchUp, FrontClear, Unscanned
  <2>3. \A p \in Periods : p < now /\ p \notin queue'[s] => \A r \in queue'[s] : p < r
    BY <1>1, <2>1
  <2> QED
    BY <1>2, <1>3, <1>4, <2>2, <2>3 DEF RunsCatchUp, FrontClear, Clear
<1>6. CASE rounds[s] # 2
  <2>1. ASSUME NEW p \in Periods, p < now, p \notin queue'[s]
        PROVE  Quiet(p)' /\ (checkIn[p] = "final" \/ cycle = "ENDED")
    <3>1. checkIn[p] # "open" /\ ~(cycle = "ACTIVE" /\ checkIn[p] = "none" /\ now > p)
      BY <1>3, <1>6, <2>1 DEF RecoveryTargets
    <3>2. now > p
      BY <1>1, <2>1
    <3>3. checkIn[p] = "final" \/ cycle = "ENDED"
      BY <1>1, <3>1, <3>2 DEF WorkInv, TypeOK
    <3> QED
      BY <1>4, <3>3, WhatIsQuiet DEF HeldAlone
  <2> QED
    BY <1>2, <1>3, <1>4, <2>1 DEF RunsCatchUp, FrontClear, Clear
<1> QED
  BY <1>5, <1>6

\* Every run settles what ended before it began.
LEMMA RunsCatchUpStep ==
  ASSUME NEW s, HeldAlone(s), [Next]_vars, Timely'
  PROVE  RunsCatchUp(s)'
<1>1. WorkInv /\ s \in Procs /\ Periods \subseteq Nat /\ now \in Nat
  BY TimesAre DEF HeldAlone, Held, SettlementInv, WorkInv
<1>2. RunsCatchUp(s) /\ ClocksTrue(s)
  BY <1>1 DEF HeldAlone, AloneInv, Held, OrderInv
<1>3. CASE Tick /\ ~Busy
  <2>1. /\ mode' = mode /\ queue' = queue /\ Idle(s) /\ mode[s] # "starting"
        /\ mode[s] = "serving" => rounds'[s] = 3
        /\ now' = SmallerOf(now + 1, EndOfTime)
    BY <1>1, <1>3 DEF Tick, Busy
  <2>2. queue'[s] = {}
    BY <2>1 DEF Idle
  <2>3. mode'[s] # "down" => Unscanned(s)'
    BY <1>1, <2>1, <2>2 DEF Unscanned, WorkInv, TypeOK
  <2>4. ASSUME mode[s] = "serving", NEW r \in Periods, r < now' - 1
        PROVE  Quiet(r)'
    <3>1. r < now
      BY <1>1, <2>1, <2>4, LastAssumption DEF SmallerOf, EndOfTime
    <3>2. Quiet(r)
      BY <1>2, <2>1, <2>4, <3>1 DEF RunsCatchUp, FrontClear, Unscanned, Idle
    <3>3. ~FinishReplan(s)
      BY <2>1 DEF Idle, FinishReplan, At
    <3> QED
      BY <3>1, <3>2, <3>3, QuietStays DEF HeldAlone
  <2> QED
    BY <2>1, <2>2, <2>3, <2>4 DEF RunsCatchUp, FrontClear, Clear
<1>4. CASE StartProcess(s)
  <2>1. /\ mode'[s] = "starting" /\ queue' = queue /\ rounds'[s] = 1 /\ mode[s] = "down"
    BY <1>1, <1>4 DEF StartProcess, WorkInv, TypeOK
  <2>2. queue'[s] = {}
    BY <1>2, <2>1 DEF ClocksTrue, Idle
  <2> QED
    BY <2>1, <2>2 DEF RunsCatchUp, FrontClear, Unscanned
<1>5. CASE Serve(s)
  <2>1. /\ mode[s] = "starting" /\ queue[s] = {} /\ rounds[s] = 0
        /\ UNCHANGED <<now, queue, rounds, block, checkIn>>
    BY <1>1, <1>5 DEF Serve, Idle, checkInVars
  <2>2. \A p \in Periods : p < now => Quiet(p)
    BY <1>2, <2>1 DEF RunsCatchUp, FrontClear, Unscanned
  <2>3. \A p \in Periods : p < now => Quiet(p)'
    BY <2>1, <2>2 DEF Quiet, SettleableTasks
  <2>4. \A p \in Periods : p < now - 1 => p < now
    BY <1>1
  <2> QED
    BY <2>1, <2>3, <2>4 DEF RunsCatchUp, FrontClear, Clear
<1>6. CASE Crash(s)
  <2>1. mode'[s] = "down" /\ queue'[s] = {}
    BY <1>1, <1>6 DEF Crash, WorkInv, TypeOK
  <2> QED
    BY <2>1 DEF RunsCatchUp, FrontClear
<1>8. CASE StartSettlement(s) \/ BeginReplan(s) \/ (\E t \in Tasks : BeginTap(s, t)) \/ BeginExecution(s)
           \/ CommitTap \/ RefuseTap \/ CommitExecution \/ FailExecution \/ UNCHANGED vars
  <2>1. UNCHANGED <<now, queue, rounds, mode>>
    BY <1>8 DEF StartSettlement, BeginReplan, Goto, BeginTap, BeginExecution, CommitTap, RefuseTap,
       CommitExecution, FailExecution, vars, workerVars
  <2> QED
    BY <2>1, RunKept
<1> QED
  BY <1>3, <1>4, <1>5, <1>6, <1>8, AloneSteps, TargetLeft, ScanFinds

-----------------------------------------------------------------------------
(* What one process keeps                                                  *)

\* The facts of a timely behaviour are kept together.
LEMMA AloneInvariant ==
  ASSUME NEW s, Procs = {s}
  PROVE  Spec => [](SettlementInv /\ (Timely => OrderInv /\ AloneInv(s) /\ PlansWithinNeed))
<1> DEFINE Inv == SettlementInv /\ (Timely => OrderInv /\ AloneInv(s) /\ PlansWithinNeed)
<1>1. Init => Inv
  <2>1. Init => AloneInv(s)
    BY InitiallyInOrder DEF Init, AloneInv, RunsCatchUp, OpenedStaysOpen, FrontClear, Clear
  <2> QED
    BY <2>1, InitialWork, InitiallyInOrder, InitiallyWithinNeed
<1>2. ASSUME Inv, [Next]_vars, SettlementInv'
      PROVE  Inv'
  <2>1. SUFFICES ASSUME Timely' PROVE OrderInv' /\ AloneInv(s)' /\ PlansWithinNeed'
    BY <1>2
  <2>2. Timely
    BY <1>2, <2>1, LuckCounts DEF SettlementInv, WorkInv
  <2>3. HeldAlone(s) /\ Held /\ PlansWithinNeed
    BY <1>2, <2>2, AloneHolds DEF HeldAlone
  <2>4. OrderInv'
    BY <1>2, <2>1, <2>3, OrderStep
  <2>5. AloneInv(s)'
    BY <1>2, <2>1, <2>3, RunsCatchUpStep, OpenedStep DEF AloneInv
  <2>6. PlansWithinNeed'
    BY <1>2, <2>1, <2>3, PlansStep
  <2> QED
    BY <2>4, <2>5, <2>6
<1> QED
  BY <1>1, <1>2, SettlementInvariant, PTL DEF Spec

\* With one process, as long as runs end in time, the database answers and no
\* toggle lands inside a replan, periods are settled oldest first: behind a
\* finalized period, and in it, nothing is left to settle (_run_targets goes
\* through the targets of find_recovery_targets by date), whatever was checked,
\* executed, killed or restarted meanwhile.
THEOREM SettledOldestFirst ==
  ASSUME NEW s, Procs = {s}
  PROVE  Spec => []OldestFirst
<1>1. SettlementInv /\ (Timely => OrderInv /\ AloneInv(s) /\ PlansWithinNeed) => OldestFirst
  BY OrderIsOldestFirst DEF OldestFirst, Timely
<1> QED
  BY <1>1, AloneInvariant, PTL

\* Under the same conditions, when nothing is due, the rows of an ACTIVE task
\* that are still PLANNED or CHECKED are no more than its remaining blocks:
\* schedule_plan_blocks deletes what it replaces and deducts the block checked
\* in the period it plans from, in settlement as in an execution.
THEOREM PlansFitRemaining ==
  ASSUME NEW s, Procs = {s}
  PROVE  Spec => []PlannedWithinNeed
<1>1. SettlementInv /\ (Timely => OrderInv /\ AloneInv(s) /\ PlansWithinNeed) => PlannedWithinNeed
  BY AloneHolds, NothingDue DEF HeldAlone, PlannedWithinNeed, Timely
<1> QED
  BY <1>1, AloneInvariant, PTL

-----------------------------------------------------------------------------
(* Many processes, none of which is killed                                 *)

\* Processes that wake at a boundary look for the same period.  None has done
\* with it before its check-in is opened, and then the one that opened it is
\* still at it.
Waiting(p) == \A s \in Procs : Unscanned(s) \/ (p \in queue[s] /\ stage[s] = "idle")
Opened(p) ==
  \E s \in Procs : queue[s] # {} /\ stage[s] # "idle" /\ Target(s) = p /\ startedBy[p] = s
NothingMissed ==
  \A p \in Periods : p = now - 1 /\ ~Quiet(p) => IF checkIn[p] = "open" THEN Opened(p) ELSE Waiting(p)

TogetherInv == NothingMissed /\ \A s \in Procs : mode[s] = "serving" /\ FrontClear(s)
HeldTogether == Held /\ TogetherInv

\* Behind the period that has just ended nothing is left, and targets have ended.
LEMMA TogetherHolds ==
  ASSUME SettlementInv, Timely, OrderInv, TogetherInv
  PROVE  HeldTogether
<1>1. TypeOK /\ OnlyClosed
  BY DEF SettlementInv, WorkInv
<1>2. ASSUME NEW s \in Procs, queue[s] # {}, NEW r \in Periods, r < Target(s)
      PROVE  Quiet(r)
  <2>1. Target(s) \in Nat /\ r \in Nat /\ now \in Nat /\ Target(s) < now
    BY <1>1, <1>2, TargetIsOldest, TimesAre DEF OnlyClosed
  <2>2. r < now - 1
    BY <1>2, <2>1
  <2> QED
    BY <2>2 DEF TogetherInv, FrontClear, Clear
<1>3. \A s \in Procs : TargetsNext(s)
  BY <1>2 DEF TargetsNext, Clear
<1> QED
  BY <1>3 DEF HeldTogether, Held, TogetherInv

\* What is not settled yet is the period that has just ended.
LEMMA UnsettledIsLast ==
  ASSUME HeldTogether, NEW s \in Procs, NEW q \in Periods, q < now, ~Quiet(q)
  PROVE  q = now - 1
<1>1. q \in Nat /\ now \in Nat
  BY TimesAre DEF HeldTogether, Held, SettlementInv, WorkInv
<1>2. ~(q < now - 1)
  BY DEF HeldTogether, TogetherInv, FrontClear, Clear
<1> QED
  BY <1>1, <1>2

\* A period that is not quiet is not final, and its cycle is ACTIVE.
LEMMA UnsettledIs ==
  ASSUME Held, NEW p \in Periods, ~Quiet(p)
  PROVE  cycle = "ACTIVE" /\ (checkIn[p] = "open" \/ checkIn[p] = "none")
  BY WhatIsQuiet DEF Held, SettlementInv, WorkInv, TypeOK

\* The steps of processes that all serve.
LEMMA TogetherSteps ==
  ASSUME HeldTogether, [Next]_vars, Timely', crashes = 0, crashes' = 0
  PROVE  /\ \A s \in Procs : mode'[s] = "serving"
         /\ \/ Tick /\ ~Busy
            \/ \E s \in Procs : FinishReplan(s) \/ SettleLastEvening(s)
            \/ /\ now' = now /\ ~\E s \in Procs : FinishReplan(s)
               /\ \/ UNCHANGED <<mode, rounds, queue, stage, checkIn, startedBy>>
                  \/ \E s \in Procs :
                       \/ Scan(s) \/ StartSettlement(s) \/ SkipTarget(s) \/ EndWithoutCheckIn(s)
                       \/ BeginReplan(s) \/ ReplanRefused(s) \/ FinalizeStops(s)
<1> USE DEF workerVars, checkInVars
<1>1. \A s \in Procs : mode[s] = "serving"
  BY DEF HeldTogether, TogetherInv
<1>2. Held
  BY DEF HeldTogether
<1>3. \A s \in Procs : ~StartProcess(s) /\ ~Serve(s) /\ ~Crash(s)
  BY <1>1 DEF StartProcess, Serve, Crash
<1>4. ASSUME UNCHANGED vars \/ (\E s \in Procs : (\E t \in Tasks : BeginTap(s, t)) \/ BeginExecution(s))
             \/ CommitTap \/ RefuseTap \/ CommitExecution \/ FailExecution
      PROVE  now' = now /\ UNCHANGED <<mode, rounds, queue, stage, checkIn, startedBy>>
  BY <1>4 DEF vars, BeginTap, BeginExecution, CommitTap, RefuseTap, CommitExecution, FailExecution
<1>5. ASSUME NEW s \in Procs, \/ Scan(s) \/ StartSettlement(s) \/ SkipTarget(s) \/ EndWithoutCheckIn(s)
                                \/ BeginReplan(s) \/ ReplanRefused(s) \/ FinalizeStops(s)
                                \/ FinishReplan(s) \/ SettleLastEvening(s)
      PROVE  now' = now /\ mode' = mode
  BY <1>5 DEF Scan, StartSettlement, SkipTarget, EndWithoutCheckIn, BeginReplan, ReplanRefused,
     FinalizeStops, FinishReplan, SettleLastEvening, Goto, NextTarget
<1>6. Tick => mode' = mode
  BY DEF Tick
<1>7. mode' = mode
  BY <1>2, <1>3, <1>4, <1>5, <1>6, TimelySteps
<1> QED
  BY <1>1, <1>2, <1>3, <1>4, <1>5, <1>7, TimelySteps

\* Before a boundary every process has gone to sleep, so all is settled.
LEMMA BoundarySettled ==
  ASSUME HeldTogether, Tick, ~Busy, NEW s \in Procs, NEW p \in Periods, p < now
  PROVE  Quiet(p)
<1>1. \A r \in Procs : rounds[r] = 0 /\ queue[r] = {} /\ mode[r] = "serving"
  BY DEF Busy, Idle, HeldTogether, TogetherInv
<1>2. SUFFICES ASSUME ~Quiet(p) PROVE FALSE
  OBVIOUS
<1>3. p = now - 1
  BY <1>2, UnsettledIsLast
<1>4. Opened(p) \/ Waiting(p)
  BY <1>2, <1>3 DEF HeldTogether, TogetherInv, NothingMissed
<1> QED
  BY <1>1, <1>4 DEF Opened, Waiting, Unscanned

\* At a boundary the next period takes its place.
LEMMA FrontStep ==
  ASSUME HeldTogether, [Next]_vars, Timely', crashes = 0, crashes' = 0, NEW s \in Procs
  PROVE  FrontClear(s)'
<1>1. Periods \subseteq Nat /\ now \in Nat /\ Held /\ Clear(now - 1)
  BY TimesAre DEF HeldTogether, TogetherInv, FrontClear, Held, SettlementInv, WorkInv
<1>2. CASE Tick /\ ~Busy
  <2>1. now' = SmallerOf(now + 1, EndOfTime) /\ queue[s] = {}
    BY <1>2 DEF Tick, Busy, Idle
  <2>2. \A r \in Procs : ~FinishReplan(r)
    BY <1>2 DEF Busy, Idle, FinishReplan, At
  <2>3. ASSUME NEW r \in Periods, r < now' - 1
        PROVE  Quiet(r)'
    <3>1. r < now
      BY <1>1, <2>1, <2>3, LastAssumption DEF SmallerOf, EndOfTime
    <3> QED
      BY <1>1, <1>2, <2>2, <3>1, BoundarySettled, QuietStays
  <2> QED
    BY <2>3 DEF FrontClear, Clear
<1>3. CASE now' = now
  <2>1. now - 1 \in Int /\ now - 1 <= now
    BY <1>1
  <2>2. \A r \in Periods : r < now - 1 => Quiet(r)'
    BY <1>1, <2>1, ClearStays DEF Clear
  <2> QED
    BY <1>3, <2>2 DEF FrontClear, Clear
<1> QED
  BY <1>1, <1>2, <1>3, ExecutionsStep

\* The check-in of a period stays with the process that opened it, and no
\* process leaves the period before.
LEMMA MissedStep ==
  ASSUME HeldTogether, [Next]_vars, Timely', crashes = 0, crashes' = 0, TypeOK'
  PROVE  NothingMissed'
<1>1. /\ TypeOK /\ OnlyClosed /\ StagesHaveTargets /\ Held /\ NothingMissed
      /\ Periods \subseteq Nat /\ now \in Nat
  BY TimesAre DEF HeldTogether, TogetherInv, Held, SettlementInv, WorkInv
<1>2. \A s \in Procs : mode[s] = "serving" /\ mode'[s] = "serving"
  BY TogetherSteps DEF HeldTogether, TogetherInv
<1> SUFFICES ASSUME NEW p \in Periods, p = now' - 1, ~Quiet(p)'
             PROVE  IF checkIn'[p] = "open" THEN Opened(p)' ELSE Waiting(p)'
  BY DEF NothingMissed
<1> USE DEF checkInVars
<1>3. CASE Tick /\ ~Busy
  <2>1. /\ UNCHANGED <<queue, checkIn>> /\ \A s \in Procs : rounds'[s] = 3 /\ queue'[s] = {}
        /\ now' = SmallerOf(now + 1, EndOfTime)
    BY <1>1, <1>2, <1>3 DEF Tick, Busy, Idle
  <2>2. ~(p < now)
    BY <1>1, <2>1, LastAssumption DEF SmallerOf, EndOfTime, Periods
  <2>3. checkIn'[p] = "none"
    BY <1>1, <2>1, <2>2 DEF OnlyClosed
  <2> QED
    BY <2>1, <2>3 DEF Waiting, Unscanned
<1>4. ASSUME NEW s \in Procs, FinishReplan(s) \/ SettleLastEvening(s)
      PROVE  FALSE
  <2>1. now' = now
    BY <1>4 DEF FinishReplan, SettleLastEvening
  <2>2. Target(s) \in Periods /\ Target(s) < now /\ ~Quiet(Target(s))
    BY <1>1, <1>4, TargetIsOpen DEF Quiet
  <2>3. Target(s) = p
    BY <2>1, <2>2, UnsettledIsLast
  <2>4. p < Target(s) + 1
    BY <1>1, <2>3
  <2> QED
    BY <1>1, <1>4, <2>4, TargetSettled
<1>5. CASE now' = now /\ ~\E s \in Procs : FinishReplan(s)
  <2>1. p < now /\ p = now - 1
    BY <1>1, <1>5
  <2>2. ~Quiet(p)
    BY <1>1, <1>5, <2>1, QuietStays
  <2>3. IF checkIn[p] = "open" THEN Opened(p) ELSE Waiting(p) /\ checkIn[p] = "none" /\ cycle = "ACTIVE"
    BY <1>1, <2>1, <2>2, UnsettledIs DEF NothingMissed
  <2>4. CASE UNCHANGED <<mode, rounds, queue, stage, checkIn, startedBy>>
    <3>1. \A s \in Procs : Target(s)' = Target(s) /\ Unscanned(s)' = Unscanned(s)
      BY <2>4 DEF Target, Unscanned
    <3> QED
      BY <2>3, <2>4, <3>1 DEF Opened, Waiting
  <2>5. ASSUME NEW s \in Procs, NEW r \in Procs, r # s,
               \/ Scan(s) \/ StartSettlement(s) \/ SkipTarget(s) \/ EndWithoutCheckIn(s)
               \/ BeginReplan(s) \/ ReplanRefused(s) \/ FinalizeStops(s)
        PROVE  /\ UNCHANGED <<mode[r], rounds[r], queue[r], stage[r]>>
               /\ Target(r)' = Target(r) /\ Unscanned(r)' = Unscanned(r)
    <3>1. UNCHANGED <<mode[r], rounds[r], queue[r], stage[r]>>
      BY <1>1, <2>5, OtherProcess
    <3> QED
      BY <3>1 DEF Target, Unscanned
  <2>6. CASE \E s \in Procs : Scan(s)
    <3>1. PICK s \in Procs : Scan(s)
      BY <2>6
    <3>2. /\ queue[s] = {} /\ rounds[s] > 0 /\ UNCHANGED <<checkIn, startedBy, stage>>
          /\ queue'[s] = IF rounds[s] = 2 THEN ScheduledTargets(clock[s]) ELSE RecoveryTargets(clock[s])
      BY <1>1, <3>1 DEF Scan, TypeOK
    <3>3. clock[s] = now
      BY <1>1, <3>2 DEF Held, OrderInv, ClocksTrue, Idle
    <3>4. CASE checkIn[p] = "open"
      BY <2>3, <2>5, <3>1, <3>2, <3>4 DEF Opened
    <3>5. CASE checkIn[p] # "open"
      <4>1. Unscanned(s) /\ rounds[s] = 3
        BY <1>2, <2>3, <3>2, <3>5 DEF Waiting, Unscanned
      <4>2. p \in queue'[s]
        BY <1>1, <2>1, <2>3, <3>2, <3>3, <3>5, <4>1 DEF RecoveryTargets
      <4>3. stage'[s] = "idle"
        BY <1>1, <3>2 DEF StagesHaveTargets
      <4> QED
        BY <2>3, <2>5, <3>1, <3>2, <3>5, <4>2, <4>3 DEF Waiting
    <3> QED
      BY <3>4, <3>5
  <2>7. CASE \E s \in Procs : StartSettlement(s)
    <3>1. PICK s \in Procs : StartSettlement(s)
      BY <2>7
    <3> DEFINE q == Target(s)
    <3>2. /\ queue[s] # {} /\ stage[s] = "idle" /\ queue' = queue /\ stage'[s] = "opened"
          /\ q \in Periods /\ q < now
      BY <1>1, <3>1, TargetIsNext DEF StartSettlement, At, Goto, TypeOK
    <3>3. \/ checkIn[q] = "open" /\ UNCHANGED <<checkIn, startedBy>>
          \/ checkIn[q] = "none" /\ SettleableTasks(q) # {} /\ startedBy'[q] = s
      BY <1>1, <3>1, <3>2 DEF StartSettlement, TypeOK
    <3>4. ~Quiet(q)
      BY <3>3 DEF Quiet
    <3>5. q = p
      BY <2>1, <3>2, <3>4, UnsettledIsLast
    <3>6. checkIn'[p] = "open"
      BY <1>1, <3>1, <3>2, <3>5 DEF StartSettlement, TypeOK
    <3>7. Target(s)' = q
      BY <3>2 DEF Target
    <3>8. CASE checkIn[q] = "open" /\ UNCHANGED <<checkIn, startedBy>>
      <4>1. PICK r \in Procs : queue[r] # {} /\ stage[r] # "idle" /\ Target(r) = p /\ startedBy[p] = r
        BY <2>3, <3>5, <3>8 DEF Opened
      <4>2. r # s
        BY <3>2, <4>1
      <4> QED
        BY <2>5, <3>1, <3>6, <3>8, <4>1, <4>2 DEF Opened
    <3>9. CASE startedBy'[q] = s
      BY <3>2, <3>5, <3>6, <3>7, <3>9 DEF Opened
    <3> QED
      BY <3>3, <3>8, <3>9
  <2>8. CASE \E s \in Procs : SkipTarget(s) \/ EndWithoutCheckIn(s)
    <3>1. PICK s \in Procs : SkipTarget(s) \/ EndWithoutCheckIn(s)
      BY <2>8
    <3>2. /\ queue[s] # {} /\ stage[s] = "idle" /\ stage'[s] = "idle" /\ queue'[s] = queue[s] \ {Target(s)}
          /\ UNCHANGED <<checkIn, startedBy>> /\ Target(s) \in Periods
      BY <1>1, <3>1, TargetIsNext DEF SkipTarget, EndWithoutCheckIn, At, NextTarget, TypeOK
    <3>3. checkIn[Target(s)] = "final" \/ cycle = "ENDED"
          \/ (checkIn[Target(s)] = "none" /\ SettleableTasks(Target(s)) = {})
      BY <1>1, <3>1 DEF SkipTarget, EndWithoutCheckIn, TypeOK
    <3>4. Target(s) # p
      BY <1>1, <2>2, <3>2, <3>3, WhatIsQuiet
    <3>5. CASE checkIn[p] = "open"
      BY <2>3, <2>5, <3>1, <3>2, <3>4, <3>5 DEF Opened
    <3>6. CASE checkIn[p] # "open"
      <4>1. p \in queue'[s]
        BY <2>3, <3>2, <3>4, <3>6 DEF Waiting, Unscanned
      <4> QED
        BY <2>3, <2>5, <3>1, <3>2, <3>6, <4>1 DEF Waiting
    <3> QED
      BY <3>5, <3>6
  <2>9. CASE \E s \in Procs : BeginReplan(s)
    <3>1. PICK s \in Procs : BeginReplan(s)
      BY <2>9
    <3>2. UNCHANGED <<queue, checkIn, startedBy>> /\ stage'[s] = "planning"
      BY <1>1, <3>1 DEF BeginReplan, Goto, TypeOK
    <3>3. checkIn[Target(s)] = "open" /\ Target(s) \in Periods /\ Target(s) < now
      BY <1>1, <3>1, TargetIsOpen
    <3>4. Target(s) = p
      BY <2>1, <3>3, UnsettledIsLast DEF Quiet
    <3>5. PICK r \in Procs : queue[r] # {} /\ stage[r] # "idle" /\ Target(r) = p /\ startedBy[p] = r
      BY <2>3, <3>3, <3>4 DEF Opened
    <3>6. Target(s)' = Target(s)
      BY <3>2 DEF Target
    <3> QED
      BY <2>5, <3>1, <3>2, <3>3, <3>4, <3>5, <3>6 DEF Opened
  <2>10. CASE \E s \in Procs : ReplanRefused(s) \/ FinalizeStops(s)
    <3>1. PICK s \in Procs : ReplanRefused(s) \/ FinalizeStops(s)
      BY <2>10
    <3>2. queue[s] # {} /\ stage[s] # "idle" /\ UNCHANGED <<checkIn, startedBy>>
      BY <3>1 DEF ReplanRefused, FinalizeStops, At
    <3>3. checkIn[p] = "open"
      BY <2>3, <3>2 DEF Waiting, Unscanned
    <3>4. PICK r \in Procs : queue[r] # {} /\ stage[r] # "idle" /\ Target(r) = p /\ startedBy[p] = r
      BY <2>3, <3>3 DEF Opened
    <3>5. r # s
      BY <1>1, <3>1, <3>3, <3>4, NoneRefused
    <3> QED
      BY <2>5, <3>1, <3>2, <3>3, <3>4, <3>5 DEF Opened
  <2> QED
    BY <1>3, <1>4, <1>5, <2>4, <2>6, <2>7, <2>8, <2>9, <2>10, TogetherSteps
<1> QED
  BY <1>3, <1>4, <1>5, TogetherSteps

\* The facts of processes that go on together are kept together.
LEMMA TogetherInvariant ==
  Spec => [](SettlementInv /\ (Timely /\ crashes = 0 => OrderInv /\ TogetherInv /\ PlansWithinNeed))
<1> DEFINE Inv == SettlementInv /\ (Timely /\ crashes = 0 => OrderInv /\ TogetherInv /\ PlansWithinNeed)
<1>1. Init => Inv
  <2>1. Init => TogetherInv
    BY InitiallyInOrder, LastAssumption DEF Init, TogetherInv, NothingMissed, FrontClear, Clear, Periods
  <2> QED
    BY <2>1, InitialWork, InitiallyInOrder, InitiallyWithinNeed
<1>2. ASSUME Inv, [Next]_vars, SettlementInv'
      PROVE  Inv'
  <2>1. SUFFICES ASSUME Timely', crashes' = 0 PROVE OrderInv' /\ TogetherInv' /\ PlansWithinNeed'
    BY <1>2
  <2>2. Timely /\ crashes = 0
    BY <1>2, <2>1, LuckCounts, KillsCount DEF SettlementInv, WorkInv
  <2>3. HeldTogether /\ Held /\ PlansWithinNeed
    BY <1>2, <2>2, TogetherHolds DEF HeldTogether
  <2>4. OrderInv'
    BY <1>2, <2>1, <2>3, OrderStep
  <2>5. TogetherInv'
    BY <1>2, <2>1, <2>2, <2>3, TogetherSteps, FrontStep, MissedStep DEF TogetherInv, SettlementInv, WorkInv
  <2>6. PlansWithinNeed'
    BY <1>2, <2>1, <2>3, PlansStep
  <2> QED
    BY <2>4, <2>5, <2>6
<1> QED
  BY <1>1, <1>2, SettlementInvariant, PTL DEF Spec

\* Any number of processes that are not killed settle periods oldest first and
\* plan no more than is left, in timely behaviours: the process that inserts
\* the check-in row stays at it and is never refused by the CHECK constraint on
\* its two times, and the row lock of the cycle lets no other process and no
\* execution plan beside it.
THEOREM ProcessesInStep == Spec => [](crashes = 0 => OldestFirst /\ PlannedWithinNeed)
<1>1. SettlementInv /\ (Timely /\ crashes = 0 => OrderInv /\ TogetherInv /\ PlansWithinNeed)
      => (crashes = 0 => OldestFirst)
  BY OrderIsOldestFirst DEF OldestFirst, Timely
<1>2. SettlementInv /\ (Timely /\ crashes = 0 => OrderInv /\ TogetherInv /\ PlansWithinNeed)
      => (crashes = 0 => PlannedWithinNeed)
  BY TogetherHolds, NothingDue DEF HeldTogether, PlannedWithinNeed, Timely
<1> QED
  BY <1>1, <1>2, TogetherInvariant, PTL

=============================================================================
