------------------------- MODULE PlanSchedulerProofs -------------------------
(***************************************************************************)
(* Theorems about PlanScheduler, for any number of tasks, dates and        *)
(* periods, any length and limit of a period and whatever the queries      *)
(* return.                                                                 *)
(***************************************************************************)
EXTENDS PlanScheduler, PlanArithmeticProofs

(***************************************************************************)
(* Arithmetic of periods and quotas                                        *)
(***************************************************************************)
(* The periods of the cycle are 1 to LastSlot, and end with a date.        *)
LEMMA SlotsExist ==
    /\ LastSlot \in Nat \ {0}
    /\ Slots = 1 .. LastSlot
    /\ LastOfDate(LastSlot)
<1>1. Dates \in Nat \ {0} /\ PeriodsPerDate \in Nat \ {0}
    BY ConstantsAssumption
<1>2. \A d, n \in Nat \ {0} : d * n \in Nat \ {0} /\ (d * n) % n = 0
    BY SMT
<1> QED
    BY <1>1, <1>2 DEF LastSlot, Slots, LastOfDate

(* The scheduler runs before the end of the cycle, so in one of its        *)
(* periods.                                                                *)
LEMMA CurrentInSlots ==
    ASSUME input \in Inputs
    PROVE  Current \in Slots
<1>1. Dates \in Nat \ {0} /\ PeriodsPerDate \in Nat \ {0} /\ WindowMinutes \in Nat \ {0}
    BY ConstantsAssumption
<1>2. LastSlot \in Nat
    BY SlotsExist
<1>3. CycleEnd = LastSlot * WindowMinutes /\ CycleEnd \in Nat
    BY <1>1, <1>2 DEF CycleEnd, LastSlot
<1>4. input.now \in 0 .. CycleEnd - 1
    BY ConstantsAssumption DEF InputType, Minutes
<1>5. input.now \div WindowMinutes \in 0 .. LastSlot - 1
    BY <1>1, <1>2, <1>3, <1>4, QuotientInRange
<1> QED
    BY <1>2, <1>5, SlotsExist DEF Current

(* Every period is on a date of the cycle.                                 *)
LEMMA DatesInRange ==
    ASSUME NEW p \in Slots
    PROVE  DateOf(p) \in 1 .. Dates
<1>1. Dates \in Nat \ {0} /\ PeriodsPerDate \in Nat \ {0}
    BY ConstantsAssumption
<1>2. p - 1 \in Nat /\ p - 1 < Dates * PeriodsPerDate
    BY SlotsExist DEF LastSlot
<1>3. (p - 1) \div PeriodsPerDate \in 0 .. Dates - 1
    BY <1>1, <1>2, QuotientInRange
<1> QED
    BY <1>1, <1>3 DEF DateOf

(* The counts of minutes in a capacity are natural numbers.                *)
LEMMA CapacityType ==
    ASSUME input \in Inputs, NEW p \in Slots, NEW end
    PROVE  Capacity(p, end) \in Nat
<1> DEFINE open == {m \in Window(p) : m < end}
           clock == {m \in open \ input.busy : m >= input.now}
           taken == open \intersect input.busy
<1>1. IsFiniteSet(Window(p))
    <2>1. (p - 1) * WindowMinutes \in Int /\ p * WindowMinutes - 1 \in Int
        BY ConstantsAssumption, SlotsExist
    <2> QED
        BY <2>1, FS_Interval DEF Window
<1>2. /\ Cardinality(open) \in Nat
      /\ Cardinality(clock) \in Nat
      /\ Cardinality(taken) \in Nat
    <2>1. open \subseteq Window(p) /\ clock \subseteq Window(p) /\ taken \subseteq Window(p)
        OBVIOUS
    <2> HIDE DEF open, clock, taken
    <2> QED
        BY <1>1, <2>1, FS_Subset, FS_CardinalityType
<1>3. input.checkedAll \in Nat /\ LimitMinutes \in Nat
    BY ConstantsAssumption DEF InputType
<1> DEFINE limit == Least(LimitMinutes, Cardinality(open)) - Cardinality(taken)
<1>4. Capacity(p, end) = IF p = Current
                         THEN Least(AtLeastZero(limit - input.checkedAll), Cardinality(clock))
                         ELSE AtLeastZero(limit)
    BY DEF Capacity
<1> HIDE DEF open, clock, taken
<1>5. limit \in Int
    BY <1>2, <1>3 DEF Least
<1> HIDE DEF limit
<1> QED
    BY <1>2, <1>3, <1>4, <1>5 DEF Least, AtLeastZero

(* A need is a natural number.                                             *)
LEMMA NeedType ==
    ASSUME input \in Inputs, NEW t \in Tasks
    PROVE  Need(t) \in Nat
<1>1. input.remaining[t] \in Nat /\ input.checked[t] \in Nat
    BY ConstantsAssumption DEF InputType
<1> QED
    BY <1>1, AtLeastZeroType DEF Need

(* So are the quotas of a task, whichever way they are shared out.         *)
LEMMA QuotaType ==
    ASSUME input \in Inputs, NEW t \in Tasks, NEW d \in DOMAIN Quota(t)
    PROVE  Quota(t)[d] \in Nat
<1> DEFINE dates == EligibleDates(t)
           units == IF input.history[t] THEN 0 ELSE input.units[t]
           chosen == EvenlySpaced(dates, units)
<1>1. Need(t) \in Nat
    BY NeedType
<1>2. IsFiniteSet(dates) /\ IsFiniteSet(chosen)
    <2>1. dates \subseteq 1 .. Dates
        BY DatesInRange DEF EligibleDates
    <2>2. chosen \subseteq dates
        BY DEF EvenlySpaced
    <2>3. IsFiniteSet(1 .. Dates)
        <3>1. 1 \in Int /\ Dates \in Int
            BY ConstantsAssumption
        <3> QED
            BY <3>1, FS_Interval
    <2> HIDE DEF dates, chosen
    <2> QED
        BY <2>1, <2>2, <2>3, FS_Subset
<1>3. Quota(t) = TaskQuotas(Need(t), dates, units)
    BY DEF Quota
<1> HIDE DEF dates, units, chosen
<1>4. CASE Need(t) <= 0 \/ dates = {}
    <2>1. TaskQuotas(Need(t), dates, units) = Nothing
        BY <1>1, <1>4 DEF TaskQuotas, DailyQuotas, Nothing
    <2> QED
        BY <1>3, <2>1 DEF Nothing
<1>5. CASE Need(t) > 0 /\ dates # {} /\ units = 0
    BY <1>1, <1>2, <1>3, <1>5, DailyQuotasType DEF TaskQuotas
<1>6. CASE Need(t) > 0 /\ dates # {} /\ units # 0
    <2>1. Quota(t) = LET base == DailyQuotas(Need(t), chosen)
                         later == {e \in dates : \A c \in chosen : c < e}
                     IN  [e \in chosen \union later |-> IF e \in chosen THEN base[e] ELSE 0]
        BY <1>1, <1>3, <1>6 DEF TaskQuotas, chosen
    <2>2. CASE d \in chosen
        <3>1. d \in DOMAIN DailyQuotas(Need(t), chosen)
            BY <1>1, <1>6, <2>2 DEF DailyQuotas
        <3> QED
            BY <1>1, <1>2, <2>1, <2>2, <3>1, DailyQuotasType
    <2>3. CASE d \notin chosen
        BY <2>1, <2>3
    <2> QED
        BY <2>2, <2>3
<1> QED
    BY <1>1, <1>4, <1>5, <1>6

(***************************************************************************)
(* The invariant                                                           *)
(***************************************************************************)
(* A task has no block yet where the loops have not been.                  *)
Untouched ==
    \A t \in Tasks, p \in Slots :
        \/ p > slot
        \/ p = slot /\ (stage \in {"date", "slot"} \/ (stage = "task" /\ t \notin tried))
        => plan[t][p] = 0

RoomWithinCapacity == \A p \in Slots : room[p] <= Capacity(p, CycleEnd)

(* Each block alone fits into what its period has before the deadline.     *)
EachInTime == \A t \in Tasks, p \in Slots : plan[t][p] <= Capacity(p, AllocationEnd(t))

PlacementInv == TypeOK /\ Untouched /\ RoomWithinCapacity /\ EachInTime /\ NothingBesideChecked

(* The invariant holds when the loops begin.                               *)
LEMMA InitEstablishes == Init => PlacementInv
<1> SUFFICES ASSUME Init PROVE PlacementInv
    OBVIOUS
<1>1. input \in Inputs /\ Current \in Slots
    BY CurrentInSlots DEF Init
<1>2. \A t \in Tasks : Need(t) \in Nat
    BY <1>1, NeedType
<1>3. \A p \in Slots : \A end : Capacity(p, end) \in Nat
    BY <1>1, CapacityType
<1>4. \A t \in Tasks : \A d \in DOMAIN quota[t] : quota[t][d] \in Nat
    BY <1>1, QuotaType DEF Init
<1>5. plan \in [Tasks -> [Slots -> Nat]] /\ \A t \in Tasks, p \in Slots : plan[t][p] = 0
    BY DEF Init
<1>6. TypeOK
    BY <1>1, <1>2, <1>3, <1>4, <1>5 DEF Init, TypeOK, Zero
<1>7. RoomWithinCapacity
    BY <1>3 DEF Init, RoomWithinCapacity
<1>8. EachInTime
    BY <1>3, <1>5 DEF EachInTime
<1> QED
    BY <1>1, <1>5, <1>6, <1>7, <1>8 DEF PlacementInv, Untouched, NothingBesideChecked

(* What a task gets is bounded by its need, by the room of the period and  *)
(* by the period's capacity before the task's deadline.                    *)
LEMMA AllocationBounds ==
    ASSUME TypeOK, RoomWithinCapacity, NEW t \in Tasks
    PROVE  /\ Allocation(t) \in Nat
           /\ Allocation(t) <= left[t]
           /\ Allocation(t) <= room[slot]
           /\ Allocation(t) <= Capacity(slot, AllocationEnd(t))
           /\ Beside(t, slot) => Allocation(t) = 0
<1>1. slot \in Slots /\ left[t] \in Nat /\ room[slot] \in Nat /\ target[t] \in Int /\ spent[t] \in Int
    BY DEF TypeOK
<1>2. Capacity(slot, CycleEnd) \in Nat /\ Capacity(slot, AllocationEnd(t)) \in Nat
    BY <1>1, CapacityType DEF TypeOK
<1>3. room[slot] <= Capacity(slot, CycleEnd)
    BY <1>1 DEF RoomWithinCapacity
<1>4. Placed \in Nat
    BY <1>1, <1>2, <1>3 DEF Placed
<1> QED
    BY <1>1, <1>2, <1>4 DEF Allocation, Least, AtLeastZero

(* There is a period after every period but the last.                      *)
LEMMA NextSlot ==
    ASSUME slot \in Slots, slot # LastSlot
    PROVE  slot + 1 \in Slots
    BY SlotsExist

(* The turn of a task.                                                     *)
LEMMA TryTaskKeeps ==
    ASSUME PlacementInv, NEW t \in Tasks, TryTask(t)
    PROVE  PlacementInv'
<1> DEFINE a == Allocation(t)
<1>1. /\ a \in Nat
      /\ a <= left[t]
      /\ a <= room[slot]
      /\ a <= Capacity(slot, AllocationEnd(t))
      /\ Beside(t, slot) => a = 0
    BY AllocationBounds DEF PlacementInv
<1>2. /\ tried' = tried \union {t}
      /\ plan' = [plan EXCEPT ![t][slot] = @ + a]
      /\ left' = [left EXCEPT ![t] = @ - a]
      /\ spent' = [spent EXCEPT ![t] = @ + a]
      /\ room' = [room EXCEPT ![slot] = @ - a]
      /\ UNCHANGED << input, stage, slot, quota, target, carry, amounts >>
      /\ stage = "task"
      /\ t \notin tried
    BY DEF TryTask
<1> HIDE DEF a
<1>3. TypeOK
    BY DEF PlacementInv
<1>4. plan[t][slot] = 0 /\ slot \in Slots
    BY <1>2, <1>3 DEF PlacementInv, Untouched, TypeOK
<1>5. \A u \in Tasks, p \in Slots : plan'[u][p] = IF u = t /\ p = slot THEN a ELSE plan[u][p]
    BY <1>1, <1>2, <1>3, <1>4 DEF TypeOK
<1>6. TypeOK'
    <2>1. plan' \in [Tasks -> [Slots -> Nat]]
        BY <1>1, <1>2, <1>3, <1>4 DEF TypeOK
    <2>2. left' \in [Tasks -> Nat] /\ room' \in [Slots -> Nat]
        BY <1>1, <1>2, <1>3, <1>4 DEF TypeOK
    <2>3. spent' \in [Tasks -> Int]
        BY <1>1, <1>2, <1>3 DEF TypeOK
    <2> QED
        BY <1>2, <1>3, <2>1, <2>2, <2>3 DEF TypeOK
<1>7. Untouched'
    <2>1. slot' = slot /\ stage' = "task"
        BY <1>2
    <2>2. ASSUME NEW u \in Tasks, NEW p \in Slots, p > slot \/ (p = slot /\ u \notin tried')
          PROVE  plan'[u][p] = 0
        <3>1. ~(u = t /\ p = slot)
            BY <1>2, <1>4, <2>2, SlotsExist
        <3>2. plan[u][p] = 0
            BY <1>2, <2>2 DEF PlacementInv, Untouched
        <3> QED
            BY <1>5, <3>1, <3>2
    <2> QED
        BY <2>1, <2>2 DEF Untouched
<1>8. RoomWithinCapacity'
    <2>1. ASSUME NEW p \in Slots
          PROVE  room'[p] <= Capacity(p, CycleEnd)
        <3>1. room'[p] = (IF p = slot THEN room[p] - a ELSE room[p]) /\ room[p] \in Nat
            BY <1>2, <1>3 DEF TypeOK
        <3>2. Capacity(p, CycleEnd) \in Nat /\ room[p] <= Capacity(p, CycleEnd)
            BY <1>3, CapacityType DEF TypeOK, PlacementInv, RoomWithinCapacity
        <3> QED
            BY <1>1, <3>1, <3>2
    <2> QED
        BY <1>2, <2>1 DEF RoomWithinCapacity, Capacity, Window, Current
<1>9. EachInTime'
    <2>1. \A u \in Tasks, p \in Slots : plan'[u][p] <= Capacity(p, AllocationEnd(u))
        BY <1>1, <1>5 DEF PlacementInv, EachInTime
    <2>2. ASSUME NEW u \in Tasks, NEW p \in Slots
          PROVE  Capacity(p, AllocationEnd(u))' = Capacity(p, AllocationEnd(u))
        BY <1>2 DEF AllocationEnd, Capacity, Window, Current
    <2> QED
        BY <2>1, <2>2 DEF EachInTime
<1>10. NothingBesideChecked'
    BY <1>1, <1>2, <1>5, CurrentInSlots, <1>3 DEF PlacementInv, NothingBesideChecked, Beside, Current, TypeOK
<1> QED
    BY <1>6, <1>7, <1>8, <1>9, <1>10 DEF PlacementInv

(* The steps of the loops around it place nothing: the invariant speaks of *)
(* the same plan, room and input.                                          *)
LEMMA LoopsKeep ==
    ASSUME PlacementInv, UNCHANGED << input, left, room, plan, quota >>, TypeOK', Untouched'
    PROVE  PlacementInv'
<1>1. RoomWithinCapacity'
    <2>1. ASSUME NEW p \in Slots
          PROVE  Capacity(p, CycleEnd)' = Capacity(p, CycleEnd)
        BY DEF Capacity, Window, Current
    <2> QED
        BY <2>1 DEF PlacementInv, RoomWithinCapacity
<1>2. EachInTime'
    <2>1. ASSUME NEW t \in Tasks, NEW p \in Slots
          PROVE  Capacity(p, AllocationEnd(t))' = Capacity(p, AllocationEnd(t))
        BY DEF AllocationEnd, Capacity, Window, Current
    <2> QED
        BY <2>1 DEF PlacementInv, EachInTime
<1>3. NothingBesideChecked'
    BY DEF PlacementInv, NothingBesideChecked, Current
<1> QED
    BY <1>1, <1>2, <1>3 DEF PlacementInv

(* A date is opened.                                                       *)
LEMMA OpenDateKeeps ==
    ASSUME PlacementInv, OpenDate
    PROVE  PlacementInv'
<1>1. UNCHANGED << input, slot, tried, left, room, plan, quota, carry, amounts >> /\ stage = "date" /\ stage' = "slot"
    BY DEF OpenDate
<1>2. TypeOK /\ Untouched
    BY DEF PlacementInv
<1>3. target' \in [Tasks -> Int]
    <2>1. ASSUME NEW t \in Tasks
          PROVE  (IF HasQuota(t) THEN Least(left[t], quota[t][DateOf(slot)] + carry[t]) ELSE 0) \in Int
        <3>1. left[t] \in Int /\ carry[t] \in Int
            BY <1>2 DEF TypeOK
        <3>2. HasQuota(t) => quota[t][DateOf(slot)] \in Nat
            BY <1>2 DEF TypeOK, HasQuota
        <3> QED
            BY <3>1, <3>2 DEF Least
    <2> QED
        BY <2>1 DEF OpenDate
<1>4. spent' \in [Tasks -> Int]
    BY DEF OpenDate, Zero
<1>5. TypeOK'
    BY <1>1, <1>2, <1>3, <1>4 DEF TypeOK
<1>6. Untouched'
    BY <1>1, <1>2 DEF Untouched
<1> QED
    BY <1>1, <1>5, <1>6, LoopsKeep

(* A period is opened.                                                     *)
LEMMA OpenSlotKeeps ==
    ASSUME PlacementInv, OpenSlot
    PROVE  PlacementInv'
<1>1. /\ UNCHANGED << input, slot, left, room, plan, quota, target, spent, carry, amounts >>
      /\ stage = "slot" /\ stage' = "task" /\ tried' = {}
    BY DEF OpenSlot
<1>2. TypeOK /\ Untouched
    BY DEF PlacementInv
<1>3. TypeOK'
    BY <1>1, <1>2 DEF TypeOK
<1>4. Untouched'
    BY <1>1, <1>2 DEF Untouched
<1> QED
    BY <1>1, <1>3, <1>4, LoopsKeep

(* No minutes are carried that are not integers.                           *)
LEMMA CarriedType ==
    ASSUME TypeOK
    PROVE  Carried \in [Tasks -> Int]
    BY DEF TypeOK, Carried

(* From the end of a period the loops go to the one after it.              *)
LEMMA CloseKeeps ==
    ASSUME PlacementInv, SlotDone, slot # LastSlot, slot' = slot + 1,
           stage' \in {"slot", "date"}, carry' \in [Tasks -> Int],
           UNCHANGED << input, tried, left, room, plan, quota, target, spent, amounts >>
    PROVE  PlacementInv'
<1>1. TypeOK /\ Untouched
    BY DEF PlacementInv
<1>2. slot \in Slots /\ slot' \in Slots
    BY <1>1, NextSlot DEF TypeOK
<1>3. TypeOK'
    BY <1>1, <1>2 DEF TypeOK
<1>4. Untouched'
    <2>1. ASSUME NEW t \in Tasks, NEW p \in Slots, p >= slot + 1
          PROVE  plan[t][p] = 0
        <3>1. p > slot
            BY <1>2, <2>1, SlotsExist
        <3> QED
            BY <1>1, <3>1 DEF Untouched
    <2>2. \A t \in Tasks, p \in Slots : p > slot' \/ p = slot' => p >= slot + 1
        BY <1>2, SlotsExist
    <2> QED
        BY <2>1, <2>2 DEF Untouched
<1> QED
    BY <1>3, <1>4, LoopsKeep

(* The loops are over and amounts are shared out.                          *)
LEMMA FinishKeeps ==
    ASSUME PlacementInv, Finish
    PROVE  PlacementInv'
<1>1. /\ UNCHANGED << input, slot, tried, left, room, plan, quota, target, spent >>
      /\ stage' = "done" /\ carry' = Carried /\ SlotDone
    BY DEF Finish
<1>2. TypeOK /\ Untouched
    BY DEF PlacementInv
<1>3. TypeOK'
    BY <1>1, <1>2, CarriedType DEF TypeOK
<1>4. Untouched'
    BY <1>1, <1>2 DEF Untouched
<1> QED
    BY <1>1, <1>3, <1>4, LoopsKeep

(* Every step keeps the invariant.                                         *)
LEMMA StepKeeps ==
    ASSUME PlacementInv, [Next]_vars
    PROVE  PlacementInv'
<1>1. CASE OpenDate
    BY <1>1, OpenDateKeeps
<1>2. CASE OpenSlot
    BY <1>2, OpenSlotKeeps
<1>3. CASE \E t \in Tasks : TryTask(t)
    BY <1>3, TryTaskKeeps
<1>4. CASE CloseSlot
    <2>1. slot # LastSlot
        BY <1>4, SlotsExist DEF CloseSlot
    <2>2. carry \in [Tasks -> Int]
        BY DEF PlacementInv, TypeOK
    <2> QED
        BY <1>4, <2>1, <2>2, CloseKeeps DEF CloseSlot
<1>5. CASE CloseDate
    <2>1. slot # LastSlot
        BY <1>5, SlotsExist DEF CloseDate, PlacementInv, TypeOK
    <2>2. Carried \in [Tasks -> Int]
        BY CarriedType DEF PlacementInv
    <2> QED
        BY <1>5, <2>1, <2>2, CloseKeeps DEF CloseDate
<1>6. CASE Finish
    BY <1>6, FinishKeeps
<1>7. CASE UNCHANGED vars
    <2>1. UNCHANGED << input, stage, slot, tried, left, room, plan, quota, target, spent, carry >>
        BY <1>7 DEF vars
    <2>2. TypeOK'
        BY <2>1 DEF PlacementInv, TypeOK
    <2>3. Untouched'
        BY <2>1 DEF PlacementInv, Untouched
    <2> QED
        BY <2>1, <2>2, <2>3, LoopsKeep
<1> QED
    BY <1>1, <1>2, <1>3, <1>4, <1>5, <1>6, <1>7 DEF Next

(* The invariant holds throughout.                                         *)
LEMMA PlacementInvariant == Spec => []PlacementInv
<1> QED
    BY InitEstablishes, StepKeeps, PTL DEF Spec

(***************************************************************************)
(* Theorems                                                                *)
(***************************************************************************)
(* The minutes that schedule_plan_blocks subtracts from a need and from a  *)
(* period never make them negative.                                        *)
THEOREM TypeCorrect == Spec => []TypeOK
<1>1. PlacementInv => TypeOK
    BY DEF PlacementInv
<1> QED
    BY <1>1, PlacementInvariant, PTL

(* No task gets a block in the current period beside its checked one.      *)
THEOREM NoneBesideChecked == Spec => []NothingBesideChecked
<1>1. PlacementInv => NothingBesideChecked
    BY DEF PlacementInv
<1> QED
    BY <1>1, PlacementInvariant, PTL

(* A block never holds more minutes than its period has before the         *)
(* deadline of its task.                                                   *)
THEOREM BlocksInTime == Spec => []EachInTime
<1>1. PlacementInv => EachInTime
    BY DEF PlacementInv
<1> QED
    BY <1>1, PlacementInvariant, PTL

(* The turn of a task that gets minutes is a Place of the contract, that   *)
(* of a task that gets none changes nothing.                               *)
LEMMA TryTaskPlaces ==
    ASSUME PlacementInv, NEW t \in Tasks, TryTask(t)
    PROVE  [Contract!Next]_(Contract!vars)
<1> DEFINE a == Allocation(t)
<1>1. a \in Nat /\ a <= left[t] /\ a <= room[slot]
    BY AllocationBounds DEF PlacementInv
<1>2. /\ plan' = [plan EXCEPT ![t][slot] = @ + a]
      /\ left' = [left EXCEPT ![t] = @ - a]
      /\ room' = [room EXCEPT ![slot] = @ - a]
      /\ stage = "task"
      /\ t \notin tried
    BY DEF TryTask
<1> HIDE DEF a
<1>3. /\ left \in [Tasks -> Nat] /\ room \in [Slots -> Nat]
      /\ plan \in [Tasks -> [Slots -> Nat]] /\ slot \in Slots
    BY DEF PlacementInv, TypeOK
<1>4. /\ plan[t][slot] = 0
      /\ \A u \in Tasks, q \in Slots : q > slot => plan[u][q] = 0
    BY <1>2, <1>3 DEF PlacementInv, Untouched
<1>5. CASE a = 0
    <2>1. left' = left /\ room' = room
        BY <1>2, <1>3, <1>5
    <2>2. plan' = plan
        BY <1>2, <1>3, <1>5
    <2> QED
        BY <2>1, <2>2 DEF Contract!vars
<1>6. CASE a > 0
    <2>1. a \in 1 .. left[t]
        BY <1>1, <1>3, <1>6
    <2>2. plan' = [plan EXCEPT ![t][slot] = a]
        BY <1>1, <1>2, <1>3, <1>4
    <2>3. Contract!Place(t, slot, a)
        BY <1>1, <1>2, <1>4, <2>2 DEF Contract!Place
    <2> QED
        BY <1>3, <2>1, <2>3 DEF Contract!Next
<1> QED
    BY <1>1, <1>5, <1>6

(* schedule_plan_blocks keeps the promise its callers rely on: it only     *)
(* moves needed minutes into periods that have room for them, one block    *)
(* for a task in a period, in the order of time.                           *)
THEOREM PlacementImplemented == Spec => ImplementsPlacement
<1>1. Init => Contract!Init
    <2> SUFFICES ASSUME Init PROVE Contract!Init
        OBVIOUS
    <2>1. TypeOK
        BY InitEstablishes DEF PlacementInv
    <2> QED
        BY <2>1 DEF Init, TypeOK, Contract!Init
<1>2. PlacementInv /\ [Next]_vars => [Contract!Next]_(Contract!vars)
    <2> SUFFICES ASSUME PlacementInv, [Next]_vars
                 PROVE  [Contract!Next]_(Contract!vars)
        OBVIOUS
    <2>1. CASE \E t \in Tasks : TryTask(t)
        BY <2>1, TryTaskPlaces
    <2>2. CASE OpenDate \/ OpenSlot \/ CloseSlot \/ CloseDate \/ Finish \/ UNCHANGED vars
        BY <2>2 DEF OpenDate, OpenSlot, CloseSlot, CloseDate, Finish, vars, Contract!vars
    <2> QED
        BY <2>1, <2>2 DEF Next
<1> QED
    BY <1>1, <1>2, PlacementInvariant, PTL DEF Spec, ImplementsPlacement, Contract!Spec

(***************************************************************************)
(* Deadlines                                                               *)
(***************************************************************************)
(* What the blocks of a period take of it.                                 *)
Taken(p) == [u \in Tasks |-> plan[u][p]]
RoomAccounts == \A p \in Slots : room[p] + Total(Taken(p)) = Capacity(p, CycleEnd)

(* The more urgent tasks have had their turn.                              *)
UrgentFirst == stage = "task" => \A u \in tried, v \in Tasks \ tried : Before(u, v)

UrgencyInv == RoomAccounts /\ UrgentFirst /\ DoneInTime

Urgent(t) == {x \in Tasks : x = t \/ Before(x, t)}

(* The time until which a task may be allocated, and the end of the cycle. *)
LEMMA EndType ==
    ASSUME input \in Inputs, NEW t \in Tasks
    PROVE  AllocationEnd(t) \in Int /\ CycleEnd \in Nat
<1>1. input.deadline[t] \in Nat \union {NoDeadline} /\ CycleEnd \in Nat
    BY ConstantsAssumption DEF InputType, CycleEnd
<1> QED
    BY <1>1 DEF AllocationEnd, Least

(* Of two tasks only one comes before the other.                           *)
LEMMA BeforeOneWay ==
    ASSUME input \in Inputs, NEW t \in Tasks, NEW u \in Tasks, Before(t, u)
    PROVE  ~Before(u, t)
<1>1. AllocationEnd(t) \in Int /\ AllocationEnd(u) \in Int /\ CycleEnd \in Nat /\ t \in Nat /\ u \in Nat
    BY EndType, ConstantsAssumption
<1> QED
    BY <1>1 DEF Before

(* What is taken of a period is a total of natural numbers.                *)
LEMMA TakenType ==
    ASSUME TypeOK, NEW p \in Slots
    PROVE  /\ IsFiniteSet(Tasks)
           /\ Taken(p) \in [Tasks -> Nat]
           /\ Total(Taken(p)) \in Nat
           /\ \A S \in SUBSET Tasks : /\ Total(Part(Taken(p), S)) \in Nat
                                      /\ Total(Part(Taken(p), S)) <= Total(Taken(p))
<1>1. IsFiniteSet(Tasks)
    BY ConstantsAssumption
<1>2. Taken(p) \in [Tasks -> Nat] /\ Taken(p) \in [Tasks -> Int]
    BY DEF TypeOK, Taken
<1> DEFINE f == Taken(p)
<1>3. f \in [Tasks -> Nat] /\ f \in [Tasks -> Int]
    BY <1>2
<1> HIDE DEF f
<1>4. Total(f) = Total(Part(f, Tasks))
    BY <1>1, <1>3, TotalType
<1>5. \A T \in SUBSET Tasks : /\ Total(Part(f, T)) \in Nat
                              /\ \A S \in SUBSET T : Total(Part(f, S)) <= Total(Part(f, T))
    BY <1>1, <1>3, TotalGrows
<1>6. Tasks \in SUBSET Tasks
    OBVIOUS
<1> QED
    BY <1>1, <1>3, <1>4, <1>5, <1>6 DEF f

(* What a property says of the blocks of a task.                           *)
LEMMA DoneInTimeIs ==
    ASSUME NEW t \in Tasks, NEW p
    PROVE  Total([u \in {x \in Tasks : x = t \/ Before(x, t)} |-> plan[u][p]]) = Total(Part(Taken(p), Urgent(t)))
<1>1. [u \in {x \in Tasks : x = t \/ Before(x, t)} |-> plan[u][p]] = Part(Taken(p), Urgent(t))
    BY DEF Part, Taken, Urgent
<1> QED
    BY <1>1

(* The turn of a task: what it gets beyond nothing fits, with all that the *)
(* period has given to others, into the time before its deadline.          *)
LEMMA TurnInTime ==
    ASSUME PlacementInv, UrgencyInv, NEW t \in Tasks, TryTask(t)
    PROVE  UrgencyInv'
<1> DEFINE a == Allocation(t)
<1>1. /\ a \in Nat /\ a <= left[t] /\ a <= room[slot]
    BY AllocationBounds DEF PlacementInv
<1>2. /\ tried' = tried \union {t}
      /\ plan' = [plan EXCEPT ![t][slot] = @ + a]
      /\ room' = [room EXCEPT ![slot] = @ - a]
      /\ UNCHANGED << input, stage, slot >>
      /\ stage = "task" /\ t \notin tried
      /\ \A u \in Tasks \ tried : u = t \/ Before(t, u)
    BY DEF TryTask
<1>3. TypeOK /\ TypeOK'
    BY TryTaskKeeps DEF PlacementInv
<1>4. plan[t][slot] = 0 /\ slot \in Slots
    BY <1>2, <1>3 DEF PlacementInv, Untouched, TypeOK
<1>5. a > 0 => Capacity(slot, CycleEnd) - room[slot] + a <= Capacity(slot, AllocationEnd(t))
    <2>1. left[t] \in Nat /\ room[slot] \in Nat /\ target[t] \in Int /\ spent[t] \in Int
        BY <1>3, <1>4 DEF TypeOK
    <2>2. Capacity(slot, CycleEnd) \in Nat /\ Capacity(slot, AllocationEnd(t)) \in Nat
        BY <1>3, <1>4, CapacityType DEF TypeOK
    <2> QED
        BY <2>1, <2>2 DEF Allocation, Least, AtLeastZero, Placed
<1>6. \A u \in Tasks, p \in Slots : plan'[u][p] = IF u = t /\ p = slot THEN a ELSE plan[u][p]
    BY <1>1, <1>2, <1>3, <1>4 DEF TypeOK
<1>7. \A p \in Slots : \A end : Capacity(p, end)' = Capacity(p, end')
    BY <1>2 DEF Capacity, Window, Current
<1>8. \A u \in Tasks : AllocationEnd(u)' = AllocationEnd(u) /\ \A v \in Tasks : Before(u, v)' = Before(u, v)
    BY <1>2 DEF AllocationEnd, Before
<1> HIDE DEF a
<1>9. \A p \in Slots \ {slot} : Taken(p)' = Taken(p)
    BY <1>6 DEF Taken
<1>10. Total(Taken(slot))' = Total(Taken(slot)) + a
    <2> DEFINE f == Taken(slot)
               g == Taken(slot)'
    <2>1. f \in [Tasks -> Int] /\ g \in [Tasks -> Int]
        BY <1>2, <1>3, <1>4 DEF TypeOK, Taken
    <2>2. f[t] = 0 /\ g[t] = a /\ \A u \in Tasks \ {t} : g[u] = f[u]
        BY <1>2, <1>4, <1>6 DEF Taken
    <2>3. Total(g) = Total(f) - f[t] + g[t]
        <3>1. IsFiniteSet(Tasks)
            BY ConstantsAssumption
        <3> HIDE DEF f, g
        <3> QED
            BY <2>1, <2>2, <3>1, TotalChanges
    <2>4. Total(f) \in Int
        BY <1>3, <1>4, TakenType
    <2> HIDE DEF f
    <2>5. Total(g) = Total(f) + a
        BY <1>1, <2>2, <2>3, <2>4
    <2> QED
        BY <1>2, <2>5 DEF f
<1>11. RoomAccounts'
    <2>1. ASSUME NEW p \in Slots
          PROVE  room'[p] + Total(Taken(p))' = Capacity(p, CycleEnd)
        <3>1. room[p] + Total(Taken(p)) = Capacity(p, CycleEnd) /\ room[p] \in Nat
              /\ room'[p] = IF p = slot THEN room[p] - a ELSE room[p]
            BY <1>2, <1>3 DEF UrgencyInv, RoomAccounts, TypeOK
        <3>2. Total(Taken(p)) \in Nat
            BY <1>3, TakenType
        <3>3. CASE p = slot
            <4>1. Total(Taken(p))' = Total(Taken(p)) + a
                BY <1>2, <1>10, <3>3 DEF Taken
            <4> QED
                BY <1>1, <3>1, <3>2, <3>3, <4>1
        <3>4. CASE p # slot
            BY <1>9, <3>1, <3>4
        <3> QED
            BY <3>3, <3>4
    <2> QED
        BY <1>7, <2>1 DEF RoomAccounts
<1>12. UrgentFirst'
    <2>1. \A u \in tried', v \in Tasks \ tried' : Before(u, v)
        BY <1>2 DEF UrgencyInv, UrgentFirst
    <2>2. tried' \subseteq Tasks
        BY <1>3 DEF TypeOK
    <2> QED
        BY <1>8, <2>1, <2>2 DEF UrgentFirst
<1>13. ASSUME NEW u \in Tasks, NEW p \in Slots, plan'[u][p] > 0
       PROVE  Total(Part(Taken(p)', Urgent(u))) <= Capacity(p, AllocationEnd(u))
    <2>1. CASE p # slot
        <3>1. p \in Blocks(u) /\ Taken(p)' = Taken(p)
            BY <1>6, <1>9, <1>13, <2>1 DEF Blocks
        <3> QED
            BY <3>1, DoneInTimeIs DEF UrgencyInv, DoneInTime
    <2>2. CASE p = slot /\ u # t
        <3>1. u \in tried /\ plan[u][slot] > 0
            BY <1>2, <1>3, <1>6, <1>13, <2>2 DEF PlacementInv, Untouched, TypeOK
        <3>2. Before(u, t)
            BY <1>2, <3>1 DEF UrgencyInv, UrgentFirst
        <3>3. t \notin Urgent(u)
            BY <1>3, <2>2, <3>2, BeforeOneWay DEF Urgent, TypeOK
        <3>4. Part(Taken(slot)', Urgent(u)) = Part(Taken(slot), Urgent(u))
            BY <1>2, <1>4, <1>6, <3>3 DEF Part, Taken, Urgent
        <3>5. slot \in Blocks(u)
            BY <1>4, <3>1 DEF Blocks
        <3>6. Total(Part(Taken(slot), Urgent(u))) <= Capacity(slot, AllocationEnd(u))
            BY <3>5, DoneInTimeIs DEF UrgencyInv, DoneInTime
        <3>7. Taken(p)' = Taken(slot)'
            BY <1>2, <2>2 DEF Taken
        <3> QED
            BY <2>2, <3>4, <3>6, <3>7
    <2>3. CASE p = slot /\ u = t
        <3>1. a > 0
            BY <1>4, <1>6, <1>13, <2>3
        <3>2. Total(Taken(slot)') = Total(Taken(slot)) + a
            BY <1>2, <1>10
        <3>3. room[slot] + Total(Taken(slot)) = Capacity(slot, CycleEnd)
            BY <1>4 DEF UrgencyInv, RoomAccounts
        <3>4. /\ Total(Part(Taken(slot)', Urgent(t))) <= Total(Taken(slot)')
              /\ Total(Part(Taken(slot)', Urgent(t))) \in Nat
            <4>1. Taken(slot)' \in [Tasks -> Nat] /\ Taken(slot)' \in [Tasks -> Int]
                BY <1>2, <1>3, <1>4 DEF TypeOK, Taken
            <4> DEFINE g == Taken(slot)'
            <4>2. g \in [Tasks -> Nat] /\ g \in [Tasks -> Int] /\ IsFiniteSet(Tasks)
                BY <4>1, ConstantsAssumption
            <4> HIDE DEF g
            <4>3. Total(g) = Total(Part(g, Tasks))
                BY <4>2, TotalType
            <4>4. Urgent(t) \in SUBSET Tasks /\ Tasks \in SUBSET Tasks
                BY DEF Urgent
            <4>5. /\ Total(Part(g, Urgent(t))) \in Nat
                  /\ Total(Part(g, Urgent(t))) <= Total(Part(g, Tasks))
                BY <4>2, <4>4, TotalGrows
            <4> QED
                BY <4>3, <4>5 DEF g
        <3>5. /\ Total(Taken(slot)) \in Nat /\ room[slot] \in Nat
              /\ Capacity(slot, CycleEnd) \in Nat /\ Capacity(slot, AllocationEnd(t)) \in Nat
            BY <1>3, <1>4, TakenType, CapacityType DEF TypeOK
        <3>6. Total(Taken(slot)') <= Capacity(slot, AllocationEnd(t))
            BY <1>1, <1>5, <3>1, <3>2, <3>3, <3>5
        <3>7. Total(Taken(slot)') \in Nat
            BY <1>1, <3>2, <3>5
        <3>8. Total(Part(Taken(slot)', Urgent(t))) <= Capacity(slot, AllocationEnd(t))
            BY <3>4, <3>5, <3>6, <3>7
        <3>9. Taken(p)' = Taken(slot)'
            BY <1>2, <2>3 DEF Taken
        <3> QED
            BY <2>3, <3>8, <3>9
    <2> QED
        BY <2>1, <2>2, <2>3
<1>14. DoneInTime'
    <2> SUFFICES ASSUME NEW u \in Tasks, NEW p \in Slots, plan'[u][p] > 0
                 PROVE  Total([v \in {x \in Tasks : x = u \/ Before(x, u)'} |-> plan'[v][p]])
                        <= Capacity(p, AllocationEnd(u))'
        BY DEF DoneInTime, Blocks
    <2>1. [v \in {x \in Tasks : x = u \/ Before(x, u)'} |-> plan'[v][p]] = Part(Taken(p)', Urgent(u))
        BY <1>8 DEF Part, Taken, Urgent
    <2>2. Capacity(p, AllocationEnd(u))' = Capacity(p, AllocationEnd(u))
        BY <1>2 DEF Capacity, Window, Current, AllocationEnd
    <2> QED
        BY <1>13, <2>1, <2>2
<1> QED
    BY <1>11, <1>12, <1>14 DEF UrgencyInv

(* Before anything is placed the periods are empty.                        *)
LEMMA UrgencyInitially ==
    ASSUME Init
    PROVE  UrgencyInv
<1>1. TypeOK
    BY InitEstablishes DEF PlacementInv
<1>2. \A t \in Tasks, p \in Slots : plan[t][p] = 0
    BY DEF Init
<1>3. RoomAccounts
    <2> SUFFICES ASSUME NEW p \in Slots
                 PROVE  room[p] + Total(Taken(p)) = Capacity(p, CycleEnd)
        BY DEF RoomAccounts
    <2> DEFINE f == Taken(p)
    <2>1. f \in [Tasks -> Int] /\ (\A u \in Tasks : f[u] = 0) /\ IsFiniteSet(Tasks)
        BY <1>2, ConstantsAssumption DEF Taken
    <2> HIDE DEF f
    <2>2. Total(f) = Total(Part(f, {}))
        BY <2>1, TotalZeros
    <2>3. Total(Part(f, {})) = 0
        BY <2>1, TotalSplits
    <2>4. room[p] = Capacity(p, CycleEnd) /\ room[p] \in Nat
        BY <1>1 DEF Init, TypeOK
    <2> QED
        BY <2>2, <2>3, <2>4 DEF f
<1>4. UrgentFirst
    BY DEF Init, UrgentFirst
<1>5. DoneInTime
    BY <1>2 DEF DoneInTime, Blocks
<1> QED
    BY <1>3, <1>4, <1>5 DEF UrgencyInv

(* The loops around the turns give nothing to a period.                    *)
LEMMA LoopsKeepUrgency ==
    ASSUME UrgencyInv, UNCHANGED << input, room, plan >>, UrgentFirst'
    PROVE  UrgencyInv'
<1>1. \A p : \A end : Capacity(p, end)' = Capacity(p, end')
    BY DEF Capacity, Window, Current
<1>2. \A t : AllocationEnd(t)' = AllocationEnd(t) /\ Blocks(t)' = Blocks(t)
    BY DEF AllocationEnd, Blocks
<1>3. \A t, u : Before(t, u)' = Before(t, u)
    BY DEF Before, AllocationEnd
<1>4. RoomAccounts'
    BY <1>1 DEF UrgencyInv, RoomAccounts, Taken
<1>5. DoneInTime'
    <2> SUFFICES ASSUME NEW t \in Tasks, NEW p \in Blocks(t)
                 PROVE  Total([u \in {x \in Tasks : x = t \/ Before(x, t)'} |-> plan'[u][p]])
                        <= Capacity(p, AllocationEnd(t))'
        BY <1>2 DEF DoneInTime
    <2>1. {x \in Tasks : x = t \/ Before(x, t)'} = {x \in Tasks : x = t \/ Before(x, t)}
        BY <1>3
    <2>2. Capacity(p, AllocationEnd(t))' = Capacity(p, AllocationEnd(t))
        BY <1>1, <1>2
    <2>3. Total([u \in {x \in Tasks : x = t \/ Before(x, t)} |-> plan[u][p]]) <= Capacity(p, AllocationEnd(t))
        BY DEF UrgencyInv, DoneInTime
    <2> QED
        BY <2>1, <2>2, <2>3
<1> QED
    BY <1>4, <1>5 DEF UrgencyInv

(* Every step keeps the bound of the urgent tasks.                         *)
LEMMA UrgencyStep ==
    ASSUME PlacementInv, UrgencyInv, [Next]_vars
    PROVE  UrgencyInv'
<1>1. CASE \E t \in Tasks : TryTask(t)
    BY <1>1, TurnInTime
<1>2. CASE OpenDate \/ CloseSlot \/ CloseDate \/ Finish
    <2>1. UNCHANGED << input, room, plan >> /\ stage' # "task"
        BY <1>2 DEF OpenDate, CloseSlot, CloseDate, Finish
    <2> QED
        BY <2>1, LoopsKeepUrgency DEF UrgentFirst
<1>3. CASE OpenSlot
    <2>1. UNCHANGED << input, room, plan >> /\ tried' = {}
        BY <1>3 DEF OpenSlot
    <2> QED
        BY <2>1, LoopsKeepUrgency DEF UrgentFirst
<1>4. CASE UNCHANGED vars
    <2>1. UNCHANGED << input, room, plan, stage, tried >>
        BY <1>4 DEF vars
    <2>2. UrgentFirst'
        BY <2>1 DEF UrgencyInv, UrgentFirst, Before, AllocationEnd
    <2> QED
        BY <2>1, <2>2, LoopsKeepUrgency
<1> QED
    BY <1>1, <1>2, <1>3, <1>4 DEF Next

(* Whoever works on the blocks of a period in the order of their deadlines *)
(* meets all of them, however many tasks and periods there are.            *)
THEOREM AllDoneInTime == Spec => []DoneInTime
<1>1. PlacementInv /\ UrgencyInv /\ [Next]_vars => UrgencyInv'
    BY UrgencyStep
<1>2. Spec => []UrgencyInv
    BY <1>1, UrgencyInitially, PlacementInvariant, PTL DEF Spec
<1>3. UrgencyInv => DoneInTime
    BY DEF UrgencyInv
<1> QED
    BY <1>2, <1>3, PTL

(***************************************************************************)
(* What a task carries from date to date                                   *)
(***************************************************************************)
(* The next period is on the same date, or the first of the next.          *)
LEMMA NextDate ==
    ASSUME NEW p \in Slots
    PROVE  DateOf(p + 1) = IF LastOfDate(p) THEN DateOf(p) + 1 ELSE DateOf(p)
<1> DEFINE w == PeriodsPerDate
           q == p \div w
           r == p % w
<1>1. w \in Nat \ {0} /\ p \in Nat \ {0}
    BY ConstantsAssumption, SlotsExist
<1>2. q \in Int /\ r \in 0 .. w - 1 /\ p = q * w + r
    BY <1>1, SMT
<1>3. (p + 1) - 1 = p
    BY <1>1
<1>4. DateOf(p + 1) = q + 1
    <2>1. DateOf(p + 1) = (((p + 1) - 1) \div w) + 1
        BY DEF DateOf
    <2> QED
        BY <1>3, <2>1
<1>5. CASE r = 0
    <2>1. p - 1 = (q - 1) * w + (w - 1)
        <3> HIDE DEF q, r
        <3>1. (q - 1) * w = q * w - w /\ q * w \in Int
            BY <1>1, <1>2, SMT
        <3> QED
            BY <1>1, <1>2, <1>5, <3>1
    <2>2. (p - 1) \div w = q - 1
        <3> HIDE DEF q, w
        <3>1. q - 1 \in Int /\ w - 1 \in 0 .. w - 1
            BY <1>1, <1>2
        <3> QED
            BY <1>1, <2>1, <3>1, QuotientIs
    <2>3. DateOf(p) = q
        <3> HIDE DEF q
        <3> QED
            BY <1>2, <2>2 DEF DateOf
    <2> QED
        BY <1>4, <1>5, <2>3 DEF LastOfDate
<1>6. CASE r # 0
    <2>1. p - 1 = q * w + (r - 1) /\ r - 1 \in 0 .. w - 1
        <3> HIDE DEF q, r
        <3>1. q * w \in Int
            BY <1>1, <1>2, SMT
        <3> QED
            BY <1>1, <1>2, <1>6, <3>1
    <2>2. (p - 1) \div w = q
        <3> HIDE DEF q, r, w
        <3> QED
            BY <1>1, <1>2, <2>1, QuotientIs
    <2>3. DateOf(p) = q + 1
        BY <2>2 DEF DateOf
    <2> QED
        BY <1>4, <1>6, <2>3 DEF LastOfDate
<1> QED
    BY <1>5, <1>6

(* Later periods are on no earlier dates.                                  *)
LEMMA DatesFollow ==
    ASSUME NEW p \in Slots, NEW r \in Slots, p <= r
    PROVE  DateOf(p) <= DateOf(r)
<1>1. PeriodsPerDate \in Nat \ {0} /\ p - 1 \in Nat /\ r - 1 \in Nat
    BY ConstantsAssumption, SlotsExist
<1>2. p - 1 <= r - 1
    BY SlotsExist
<1>3. (p - 1) \div PeriodsPerDate <= (r - 1) \div PeriodsPerDate
    BY <1>1, <1>2, QuotientGrows
<1>4. (p - 1) \div PeriodsPerDate \in Int /\ (r - 1) \div PeriodsPerDate \in Int
    BY <1>1
<1> QED
    BY <1>3, <1>4 DEF DateOf

(* The last period is on the last date.                                    *)
LEMMA LastDate == DateOf(LastSlot) = Dates
<1> DEFINE w == PeriodsPerDate
<1>1. w \in Nat \ {0} /\ Dates \in Nat \ {0}
    BY ConstantsAssumption
<1>2. LastSlot - 1 = (Dates - 1) * w + (w - 1)
    <2>1. Dates * w = (Dates - 1) * w + w /\ (Dates - 1) * w \in Int
        BY <1>1, SMT
    <2> QED
        BY <1>1, <2>1 DEF LastSlot
<1>3. (LastSlot - 1) \div w = Dates - 1
    <2>1. Dates - 1 \in Int /\ w - 1 \in 0 .. w - 1
        BY <1>1
    <2> HIDE DEF w
    <2> QED
        BY <1>1, <1>2, <2>1, QuotientIs
<1> QED
    BY <1>1, <1>3 DEF DateOf

(* The quotas of a task, which never change, are on dates still to come    *)
(* and are together what it needs.                                         *)
LEMMA QuotaAddsUp ==
    ASSUME input \in Inputs, NEW t \in Tasks, Quota(t) # Nothing
    PROVE  /\ DOMAIN Quota(t) \subseteq DateOf(Current) .. Dates
           /\ IsFiniteSet(DOMAIN Quota(t))
           /\ Quota(t) \in [DOMAIN Quota(t) -> Nat]
           /\ Total(Quota(t)) = Need(t)
<1> DEFINE dates == EligibleDates(t)
           units == IF input.history[t] THEN 0 ELSE input.units[t]
<1>1. Need(t) \in Nat
    BY NeedType
<1>2. dates \subseteq DateOf(Current) .. Dates /\ dates \in SUBSET Int
    <2>1. ASSUME NEW p \in Slots, p >= Current
          PROVE  DateOf(p) \in DateOf(Current) .. Dates
        <3>1. Current \in Slots /\ Current <= p
            BY <2>1, CurrentInSlots, SlotsExist
        <3>2. DateOf(Current) <= DateOf(p)
            BY <3>1, DatesFollow
        <3>3. DateOf(p) \in 1 .. Dates /\ DateOf(Current) \in 1 .. Dates
            BY <3>1, DatesInRange
        <3> QED
            BY <3>2, <3>3, ConstantsAssumption
    <2>2. dates \subseteq DateOf(Current) .. Dates
        BY <2>1 DEF EligibleDates
    <2> QED
        BY <2>2
<1>3. IsFiniteSet(dates)
    <2>1. DateOf(Current) \in Int /\ Dates \in Int
        BY CurrentInSlots, DatesInRange, ConstantsAssumption
    <2>2. IsFiniteSet(DateOf(Current) .. Dates)
        BY <2>1, FS_Interval
    <2> HIDE DEF dates
    <2> QED
        BY <1>2, <2>2, FS_Subset
<1>4. units \in Nat
    BY ConstantsAssumption DEF InputType
<1>5. Quota(t) = TaskQuotas(Need(t), dates, units)
    BY DEF Quota
<1> HIDE DEF dates, units
<1>6. /\ DOMAIN Quota(t) \subseteq dates
      /\ Quota(t) \in [DOMAIN Quota(t) -> Nat]
      /\ Total(Quota(t)) = Need(t)
    BY <1>1, <1>2, <1>3, <1>4, <1>5, TaskQuotasAddUp
<1>7. IsFiniteSet(DOMAIN Quota(t))
    BY <1>3, <1>6, FS_Subset
<1> QED
    BY <1>2, <1>6, <1>7

(* The quotas from a date on are that of the date and those after it.      *)
LEMMA QuotaOfSplits ==
    ASSUME input \in Inputs, NEW t \in Tasks, quota[t] = Quota(t), NEW d \in 1 .. Dates + 1
    PROVE  /\ QuotaOf(t, d .. Dates) \in Nat
           /\ d <= Dates => QuotaOf(t, d .. Dates)
                            = (IF d \in DOMAIN quota[t] THEN quota[t][d] ELSE 0) + QuotaOf(t, d + 1 .. Dates)
           /\ QuotaOf(t, Dates + 1 .. Dates) = 0
           /\ quota[t] # Nothing => QuotaOf(t, DateOf(Current) .. Dates) = Need(t)
<1> DEFINE f == quota[t]
           D == DOMAIN f
           From(e) == D \intersect (e .. Dates)
<1>1. /\ IsFiniteSet(D)
      /\ f \in [D -> Nat]
      /\ f # Nothing => D \subseteq DateOf(Current) .. Dates /\ Total(f) = Need(t)
    <2>1. CASE f = Nothing
        <3>1. D = {} /\ f \in [D -> Nat]
            BY <2>1 DEF Nothing
        <3> QED
            BY <2>1, <3>1, FS_EmptySet
    <2>2. CASE f # Nothing
        BY <2>2, QuotaAddsUp
    <2> QED
        BY <2>1, <2>2
<1>2. \A e : QuotaOf(t, e .. Dates) = Total(Part(f, From(e)))
    BY DEF QuotaOf, Part
<1>3. Dates \in Nat /\ d \in Int
    BY ConstantsAssumption
<1> HIDE DEF f
<1>4. \A e : From(e) \in SUBSET D
    OBVIOUS
<1>5. d <= Dates /\ d \in D => d \in From(d) /\ From(d) \ {d} = From(d + 1)
    <2>1. SUFFICES ASSUME d <= Dates, d \in D PROVE d \in From(d) /\ From(d) \ {d} = From(d + 1)
        OBVIOUS
    <2>2. d \in d .. Dates /\ (d .. Dates) \ {d} = d + 1 .. Dates
        BY <1>3, <2>1
    <2> QED
        BY <2>1, <2>2
<1>6. d \notin D => From(d) = From(d + 1)
    <2>1. SUFFICES ASSUME d \notin D PROVE From(d) = From(d + 1)
        OBVIOUS
    <2>2. (d .. Dates) \ {d} = d + 1 .. Dates
        BY <1>3
    <2> HIDE DEF D
    <2>3. \A x \in D : x \in d .. Dates <=> x \in d + 1 .. Dates
        BY <2>1, <2>2
    <2> QED
        BY <2>3
<1>7. From(Dates + 1) = {}
    <2>1. Dates + 1 .. Dates = {}
        BY <1>3
    <2> QED
        BY <2>1
<1>8. f # Nothing => From(DateOf(Current)) = D
    BY <1>1
<1> HIDE DEF D, From
<1>9. /\ Total(Part(f, {})) = 0
      /\ \A S \in SUBSET D : Total(Part(f, S)) \in Nat
      /\ \A S \in SUBSET D : \A x \in S : Total(Part(f, S)) = Total(Part(f, S \ {x})) + f[x]
      /\ Total(Part(f, D)) = Total(f)
    <2>1. DOMAIN f = D /\ f \in [D -> Int] /\ \A i \in D : f[i] \in Int
        BY <1>1
    <2> QED
        BY <1>1, <2>1, TotalSplits, TotalGrows, TotalType
<1>10. Total(Part(f, From(d))) \in Nat /\ Total(Part(f, From(d + 1))) \in Nat
    BY <1>4, <1>9
<1>11. d <= Dates => Total(Part(f, From(d))) = (IF d \in D THEN f[d] ELSE 0) + Total(Part(f, From(d + 1)))
    <2>1. CASE d \notin D
        BY <1>6, <1>10, <2>1
    <2>2. CASE d \in D
        <3>1. d <= Dates => Total(Part(f, From(d))) = Total(Part(f, From(d + 1))) + f[d]
            BY <1>4, <1>5, <1>9, <2>2
        <3>2. f[d] \in Nat
            BY <1>1, <2>2
        <3> QED
            BY <1>10, <2>2, <3>1, <3>2
    <2> QED
        BY <2>1, <2>2
<1>12. Total(Part(f, From(Dates + 1))) = 0 /\ (f # Nothing => Total(Part(f, From(DateOf(Current)))) = Need(t))
    BY <1>1, <1>7, <1>8, <1>9
<1> QED
    BY <1>2, <1>10, <1>11, <1>12 DEF f, D

(* While a date is open, a task without a quota of the date gets nothing,  *)
(* and what the others are to get is their quota and what they carry, as   *)
(* far as they need it; a need is made of what was placed on this date,    *)
(* what is carried and the quotas to come.                                 *)
OpenAccounts(t) ==
    /\ HasQuota(t) => target[t] = Least(left[t] + spent[t], quota[t][DateOf(slot)] + carry[t])
    /\ ~HasQuota(t) => target[t] = 0 /\ spent[t] = 0
    /\ quota[t] # Nothing => left[t] + spent[t] = carry[t] + QuotaOf(t, DateOf(slot) .. Dates)

DayAccounts ==
    \A t \in Tasks :
        /\ quota[t] = Quota(t)
        /\ spent[t] \in Nat
        /\ stage \in {"slot", "task"} => OpenAccounts(t)

CarryInv == DayAccounts /\ CarryKept

(* Quotas are computed once.                                               *)
LEMMA QuotasStay ==
    ASSUME UNCHANGED << input, quota >>, NEW t
    PROVE  Quota(t)' = Quota(t) /\ \A dates : QuotaOf(t, dates)' = QuotaOf(t, dates)
<1>1. Need(t)' = Need(t)
    BY DEF Need
<1>2. EligibleDates(t)' = EligibleDates(t)
    <2>1. \A p : Capacity(p, AllocationEnd(t))' = Capacity(p, AllocationEnd(t))
        BY DEF Capacity, Window, Current, AllocationEnd
    <2>2. \A p : Beside(t, p)' = Beside(t, p)
        BY DEF Beside, Current
    <2>3. Current' = Current
        BY DEF Current
    <2>4. EligibleDates(t)' = {DateOf(p) : p \in {q \in Slots :
              q >= Current' /\ ~Beside(t, q)' /\ Capacity(q, AllocationEnd(t))' > 0}}
        BY DEF EligibleDates
    <2> QED
        BY <2>1, <2>2, <2>3, <2>4 DEF EligibleDates
<1>3. Quota(t)' = Quota(t)
    BY <1>1, <1>2 DEF Quota
<1> QED
    BY <1>3 DEF QuotaOf

(* Nothing is carried or spent at first.                                   *)
LEMMA CarryInitially == Init => CarryInv
<1> SUFFICES ASSUME Init PROVE CarryInv
    OBVIOUS
<1>1. input \in Inputs /\ stage = "date" /\ slot = Current
    BY DEF Init
<1>2. ASSUME NEW t \in Tasks
      PROVE  quota[t] = Quota(t) /\ spent[t] = 0 /\ carry[t] = 0 /\ left[t] = Need(t)
    BY DEF Init, Zero
<1>3. DayAccounts
    BY <1>1, <1>2 DEF DayAccounts
<1>4. ASSUME NEW t \in Tasks, quota[t] # Nothing
      PROVE  left[t] = carry[t] + QuotaOf(t, DateOf(slot) .. Dates)
    <2>1. 1 \in 1 .. Dates + 1
        BY ConstantsAssumption
    <2>2. QuotaOf(t, DateOf(Current) .. Dates) = Need(t)
        BY <1>1, <1>2, <1>4, <2>1, QuotaOfSplits
    <2>3. Need(t) \in Nat
        BY <1>1, NeedType
    <2> QED
        BY <1>1, <1>2, <2>2, <2>3
<1>5. CarryKept
    BY <1>1, <1>4 DEF CarryKept
<1> QED
    BY <1>3, <1>5 DEF CarryInv

(* A date is opened with its quota and what is carried over.               *)
LEMMA OpenDateCarries ==
    ASSUME PlacementInv, CarryInv, OpenDate
    PROVE  CarryInv'
<1>1. /\ UNCHANGED << input, slot, left, quota, carry >>
      /\ stage = "date" /\ stage' = "slot"
      /\ spent' = Zero
      /\ target' = [t \in Tasks |->
             IF HasQuota(t) THEN Least(left[t], quota[t][DateOf(slot)] + carry[t]) ELSE 0]
    BY DEF OpenDate
<1>2. ASSUME NEW t \in Tasks
      PROVE  quota'[t] = Quota(t)' /\ spent'[t] \in Nat /\ OpenAccounts(t)'
    <2>1. quota'[t] = Quota(t)'
        BY <1>1, QuotasStay DEF CarryInv, DayAccounts
    <2>2. spent'[t] = 0 /\ left[t] \in Nat /\ left[t] + spent'[t] = left[t]
        BY <1>1 DEF Zero, PlacementInv, TypeOK
    <2>3. HasQuota(t)' = HasQuota(t)
        BY <1>1 DEF HasQuota
    <2>4. HasQuota(t) => target'[t] = Least(left[t] + spent'[t], quota[t][DateOf(slot)] + carry[t])
        BY <1>1, <2>2
    <2>5. ~HasQuota(t) => target'[t] = 0
        BY <1>1
    <2>6. quota[t] # Nothing => left[t] + spent'[t] = carry[t] + QuotaOf(t, DateOf(slot) .. Dates)
        BY <1>1, <2>2 DEF CarryInv, CarryKept
    <2>7. QuotaOf(t, DateOf(slot) .. Dates)' = QuotaOf(t, DateOf(slot) .. Dates)
        BY <1>1 DEF QuotaOf
    <2>8. OpenAccounts(t)'
        BY <1>1, <2>2, <2>3, <2>4, <2>5, <2>6, <2>7 DEF OpenAccounts
    <2> QED
        BY <2>1, <2>2, <2>8
<1>3. DayAccounts'
    BY <1>2 DEF DayAccounts
<1>4. CarryKept'
    BY <1>1 DEF CarryKept
<1> QED
    BY <1>3, <1>4 DEF CarryInv

(* Neither the loop over the periods of a date nor a stutter moves minutes *)
(* or leaves the date.                                                     *)
LEMMA SameDateCarries ==
    ASSUME CarryInv, UNCHANGED << input, left, quota, target, spent, carry >>,
           DateOf(slot)' = DateOf(slot),
           stage' = stage \/ (stage \in {"slot", "task"} /\ stage' \in {"slot", "task"})
    PROVE  CarryInv'
<1>1. ASSUME NEW t \in Tasks
      PROVE  /\ quota'[t] = Quota(t)'
             /\ spent'[t] \in Nat
             /\ stage' \in {"slot", "task"} => OpenAccounts(t)'
    <2>1. quota'[t] = Quota(t)' /\ spent'[t] \in Nat
        BY QuotasStay DEF CarryInv, DayAccounts
    <2>2. HasQuota(t)' = HasQuota(t)
        BY DEF HasQuota
    <2>3. QuotaOf(t, DateOf(slot) .. Dates)' = QuotaOf(t, DateOf(slot) .. Dates)
        BY DEF QuotaOf
    <2>4. OpenAccounts(t)' = OpenAccounts(t)
        BY <2>2, <2>3 DEF OpenAccounts
    <2> QED
        BY <2>1, <2>4 DEF CarryInv, DayAccounts
<1>2. DayAccounts'
    BY <1>1 DEF DayAccounts
<1>3. CarryKept'
    <2>1. CASE stage' = stage
        <3>1. ASSUME NEW t \in Tasks
              PROVE  QuotaOf(t, DateOf(slot) .. Dates)' = QuotaOf(t, DateOf(slot) .. Dates)
            BY DEF QuotaOf
        <3> QED
            BY <2>1, <3>1 DEF CarryInv, CarryKept
    <2>2. CASE stage' \in {"slot", "task"}
        BY <2>2 DEF CarryKept
    <2> QED
        BY <2>1, <2>2
<1> QED
    BY <1>2, <1>3 DEF CarryInv

(* What a task is given is spent of the target of the date.                *)
LEMMA TryTaskCarries ==
    ASSUME PlacementInv, CarryInv, NEW t \in Tasks, TryTask(t)
    PROVE  CarryInv'
<1> DEFINE a == Allocation(t)
<1>0. TypeOK /\ a \in Nat /\ a <= left[t]
    BY AllocationBounds DEF PlacementInv
<1>1. /\ UNCHANGED << input, stage, slot, quota, target, carry >>
      /\ stage = "task"
      /\ left' = [left EXCEPT ![t] = @ - a]
      /\ spent' = [spent EXCEPT ![t] = @ + a]
    BY DEF TryTask
<1>2. ~HasQuota(t) => a = 0
    <2>1. SUFFICES ASSUME ~HasQuota(t) PROVE a = 0
        OBVIOUS
    <2>2. target[t] - spent[t] = 0
        BY <1>1, <2>1 DEF CarryInv, DayAccounts, OpenAccounts
    <2>3. slot \in Slots /\ left[t] \in Nat /\ room[slot] \in Int
        BY <1>0 DEF TypeOK
    <2>4. Capacity(slot, CycleEnd) \in Nat /\ Capacity(slot, AllocationEnd(t)) \in Nat
        BY <1>0, <2>3, CapacityType DEF TypeOK
    <2>5. Placed \in Int
        BY <2>3, <2>4 DEF Placed
    <2> QED
        BY <2>2, <2>3, <2>4, <2>5 DEF Allocation, Least, AtLeastZero
<1> HIDE DEF a
<1>3. ASSUME NEW u \in Tasks
      PROVE  /\ left'[u] + spent'[u] = left[u] + spent[u]
             /\ spent'[u] \in Nat
             /\ ~HasQuota(u) => spent'[u] = spent[u]
    <2>1. left[u] \in Nat /\ spent[u] \in Nat
        BY <1>0 DEF TypeOK, CarryInv, DayAccounts
    <2>2. /\ left'[u] = IF u = t THEN left[u] - a ELSE left[u]
          /\ spent'[u] = IF u = t THEN spent[u] + a ELSE spent[u]
        BY <1>0, <1>1 DEF TypeOK
    <2> QED
        BY <1>0, <1>2, <2>1, <2>2
<1>4. ASSUME NEW u \in Tasks
      PROVE  quota'[u] = Quota(u)' /\ spent'[u] \in Nat /\ OpenAccounts(u)'
    <2>1. quota'[u] = Quota(u)'
        BY <1>1, QuotasStay DEF CarryInv, DayAccounts
    <2>2. HasQuota(u)' = HasQuota(u) /\ DateOf(slot)' = DateOf(slot)
        BY <1>1 DEF HasQuota, DateOf
    <2>3. QuotaOf(u, DateOf(slot) .. Dates)' = QuotaOf(u, DateOf(slot) .. Dates)
        BY <1>1, <2>2 DEF QuotaOf
    <2>4. OpenAccounts(u)
        BY <1>1 DEF CarryInv, DayAccounts
    <2>5. OpenAccounts(u)'
        BY <1>1, <1>3, <2>2, <2>3, <2>4 DEF OpenAccounts
    <2> QED
        BY <1>3, <2>1, <2>5
<1>5. DayAccounts'
    BY <1>4 DEF DayAccounts
<1>6. CarryKept'
    BY <1>1 DEF CarryKept
<1> QED
    BY <1>5, <1>6 DEF CarryInv

(* At the end of a date, what a task still needs is what it carries on and *)
(* the quotas of the dates after it.                                       *)
LEMMA DateLeaves ==
    ASSUME PlacementInv, CarryInv, SlotDone, NEW t \in Tasks, quota[t] # Nothing
    PROVE  left[t] = Carried[t] + QuotaOf(t, DateOf(slot) + 1 .. Dates)
<1> DEFINE d == DateOf(slot)
           later == QuotaOf(t, d + 1 .. Dates)
           all == QuotaOf(t, d .. Dates)
<1>1. /\ input \in Inputs
      /\ left[t] \in Nat
      /\ carry[t] \in Int
      /\ spent[t] \in Nat
      /\ quota[t] = Quota(t)
      /\ OpenAccounts(t)
    BY DEF PlacementInv, TypeOK, CarryInv, DayAccounts, SlotDone
<1>2. d \in 1 .. Dates /\ Dates \in Nat
    BY DatesInRange, ConstantsAssumption DEF PlacementInv, TypeOK
<1>3. d \in 1 .. Dates + 1 /\ d + 1 \in 1 .. Dates + 1 /\ d <= Dates
    <2> HIDE DEF d
    <2> QED
        BY <1>2
<1> HIDE DEF d
<1>4. all \in Nat /\ later \in Nat
    BY <1>1, <1>3, QuotaOfSplits
<1>5. all = (IF d \in DOMAIN quota[t] THEN quota[t][d] ELSE 0) + later
    BY <1>1, <1>3, QuotaOfSplits
<1>6. left[t] + spent[t] = carry[t] + all
    BY <1>1 DEF OpenAccounts, d
<1>7. CASE d \in DOMAIN quota[t]
    <2>1. quota[t][d] \in Nat
        BY <1>7 DEF PlacementInv, TypeOK
    <2>2. target[t] = Least(left[t] + spent[t], quota[t][d] + carry[t])
        BY <1>1, <1>7 DEF OpenAccounts, HasQuota, d
    <2>3. Carried[t] = target[t] - spent[t]
        BY <1>7 DEF Carried, HasQuota, d
    <2>4. all = quota[t][d] + later
        BY <1>5, <1>7
    <2> HIDE DEF all, later
    <2>5. target[t] = quota[t][d] + carry[t]
        BY <1>1, <1>4, <1>6, <2>1, <2>2, <2>4 DEF Least
    <2>6. left[t] = Carried[t] + later
        BY <1>1, <1>4, <1>6, <2>1, <2>3, <2>4, <2>5
    <2> QED
        BY <2>6 DEF later, d
<1>8. CASE d \notin DOMAIN quota[t]
    <2>1. spent[t] = 0
        BY <1>1, <1>8 DEF OpenAccounts, HasQuota, d
    <2>2. Carried[t] = carry[t]
        BY <1>8 DEF Carried, HasQuota, d
    <2>3. all = 0 + later
        BY <1>5, <1>8
    <2> HIDE DEF all, later
    <2>4. left[t] = Carried[t] + later
        BY <1>1, <1>4, <1>6, <2>1, <2>2, <2>3
    <2> QED
        BY <2>4 DEF later, d
<1> QED
    BY <1>7, <1>8

(* What is not spent is carried to the next date, or beyond the last.      *)
LEMMA CloseDateCarries ==
    ASSUME PlacementInv, CarryInv, CloseDate \/ Finish
    PROVE  CarryInv'
<1>1. /\ UNCHANGED << input, left, quota, spent >>
      /\ SlotDone
      /\ carry' = Carried
      /\ stage' \in {"date", "done"}
    BY DEF CloseDate, Finish
<1>2. DayAccounts'
    <2>1. ASSUME NEW t \in Tasks
          PROVE  quota'[t] = Quota(t)' /\ spent'[t] \in Nat
        BY <1>1, QuotasStay DEF CarryInv, DayAccounts
    <2> QED
        BY <1>1, <2>1 DEF DayAccounts
<1>3. ASSUME NEW t \in Tasks
      PROVE  quota[t] # Nothing => left[t] = Carried[t] + QuotaOf(t, DateOf(slot) + 1 .. Dates)
    BY <1>1, DateLeaves
<1>4. CASE CloseDate
    <2>1. slot \in Slots
        BY DEF PlacementInv, TypeOK
    <2>2. slot' = slot + 1 /\ stage' = "date" /\ DateOf(slot') = DateOf(slot) + 1
        BY <1>4, <2>1, NextDate DEF CloseDate
    <2>3. ASSUME NEW t \in Tasks
          PROVE  QuotaOf(t, DateOf(slot) .. Dates)' = QuotaOf(t, DateOf(slot) + 1 .. Dates)
        <3>1. DateOf(slot)' = DateOf(slot) + 1
            BY <2>2 DEF DateOf
        <3> QED
            BY <1>1, <3>1 DEF QuotaOf
    <2>4. CarryKept'
        BY <1>1, <1>3, <2>2, <2>3 DEF CarryKept
    <2> QED
        BY <1>2, <2>4 DEF CarryInv
<1>5. CASE Finish
    <2>1. stage' = "done" /\ DateOf(slot) = Dates
        BY <1>5, LastDate DEF Finish
    <2>2. ASSUME NEW t \in Tasks, quota[t] # Nothing
          PROVE  left[t] = Carried[t]
        <3>1. 1 \in 1 .. Dates + 1
            BY ConstantsAssumption
        <3>2. QuotaOf(t, DateOf(slot) + 1 .. Dates) = 0
            BY <2>1, <3>1, QuotaOfSplits DEF PlacementInv, TypeOK, CarryInv, DayAccounts
        <3>3. Carried[t] \in Int
            BY CarriedType DEF PlacementInv
        <3> QED
            BY <1>3, <2>2, <3>2, <3>3
    <2>3. CarryKept'
        BY <1>1, <2>1, <2>2 DEF CarryKept
    <2> QED
        BY <1>2, <2>3 DEF CarryInv
<1> QED
    BY <1>4, <1>5

(* Every step keeps the accounts.                                          *)
LEMMA CarryStep ==
    ASSUME PlacementInv, CarryInv, [Next]_vars
    PROVE  CarryInv'
<1>1. CASE OpenDate
    BY <1>1, OpenDateCarries
<1>2. CASE OpenSlot
    <2>1. /\ UNCHANGED << input, slot, left, quota, target, spent, carry >>
          /\ stage \in {"slot", "task"} /\ stage' \in {"slot", "task"}
        BY <1>2 DEF OpenSlot
    <2>2. DateOf(slot)' = DateOf(slot)
        BY <2>1 DEF DateOf
    <2> QED
        BY <2>1, <2>2, SameDateCarries
<1>3. CASE \E t \in Tasks : TryTask(t)
    BY <1>3, TryTaskCarries
<1>4. CASE CloseSlot
    <2>1. /\ UNCHANGED << input, left, quota, target, spent, carry >>
          /\ stage \in {"slot", "task"} /\ stage' \in {"slot", "task"}
        BY <1>4 DEF CloseSlot, SlotDone
    <2>2. DateOf(slot)' = DateOf(slot)
        <3>1. slot' = slot + 1 /\ DateOf(slot + 1) = DateOf(slot)
            BY <1>4, NextDate DEF CloseSlot, PlacementInv, TypeOK
        <3> QED
            BY <3>1 DEF DateOf
    <2> QED
        BY <2>1, <2>2, SameDateCarries
<1>5. CASE CloseDate \/ Finish
    BY <1>5, CloseDateCarries
<1>6. CASE UNCHANGED vars
    <2>1. UNCHANGED << input, slot, left, quota, target, spent, carry, stage >>
        BY <1>6 DEF vars
    <2>2. DateOf(slot)' = DateOf(slot)
        BY <2>1 DEF DateOf
    <2> QED
        BY <2>1, <2>2, SameDateCarries
<1> QED
    BY <1>1, <1>2, <1>3, <1>4, <1>5, <1>6 DEF Next

(* No minute is forgotten from date to date, whatever a date could take.   *)
THEOREM NothingForgotten == Spec => []CarryKept
<1>1. PlacementInv /\ CarryInv /\ [Next]_vars => CarryInv'
    BY CarryStep
<1>2. Spec => []CarryInv
    BY <1>1, CarryInitially, PlacementInvariant, PTL DEF Spec
<1>3. CarryInv => CarryKept
    BY DEF CarryInv
<1> QED
    BY <1>2, <1>3, PTL

(***************************************************************************)
(* Amounts                                                                 *)
(***************************************************************************)
(* Amounts are written by the last step.                                   *)
AmountsInv == AmountsWhole /\ (stage # "done" => \A t \in Tasks : amounts[t] = Nothing)

(* An amount that is written is the whole number of units of its task, with*)
(* at least one in every block.                                            *)
LEMMA AmountWritten ==
    ASSUME PlacementInv, NEW t \in Tasks, Amount(t) # Nothing
    PROVE  /\ Total(Amount(t)) = input.units[t]
           /\ DOMAIN Amount(t) = Blocks(t)
           /\ \A p \in Blocks(t) : Amount(t)[p] >= 1
           /\ left[t] = 0
           /\ input.checked[t] = 0 /\ ~input.history[t]
<1> DEFINE D == Blocks(t)
           m == [p \in Blocks(t) |-> plan[t][p]]
<1>1. /\ left[t] = 0 /\ ~input.history[t]
      /\ D # {} /\ input.units[t] >= Cardinality(D)
      /\ Amount(t) = Shares(input.units[t], m)
    BY DEF Amount
<1>2. input \in Inputs /\ input.checked[t] \in Nat /\ input.units[t] \in Nat
    BY ConstantsAssumption DEF PlacementInv, TypeOK, InputType
<1>3. input.checked[t] = 0
    BY <1>1, <1>2, ConstantsAssumption
<1>4. D \subseteq Slots /\ IsFiniteSet(D) /\ D \in SUBSET Int
    <2>1. D \subseteq Slots
        BY DEF Blocks
    <2>2. IsFiniteSet(Slots) /\ Slots \subseteq Int
        BY SlotsExist, FS_Interval
    <2> HIDE DEF D
    <2> QED
        BY <2>1, <2>2, FS_Subset
<1>5. m \in [D -> Nat \ {0}]
    BY DEF Blocks, PlacementInv, TypeOK
<1> HIDE DEF D, m
<1>6. Amount(t) \in [D -> Nat \ {0}] /\ Total(Amount(t)) = input.units[t]
    BY <1>1, <1>2, <1>4, <1>5, SharesExact
<1>7. DOMAIN Amount(t) = D /\ \A p \in D : Amount(t)[p] >= 1
    BY <1>6
<1> QED
    BY <1>1, <1>3, <1>6, <1>7 DEF D

(* Amounts are written once, at the end.                                   *)
LEMMA AmountsStep ==
    ASSUME PlacementInv, AmountsInv, [Next]_vars
    PROVE  AmountsInv'
<1>1. CASE Finish
    <2>1. /\ UNCHANGED << input, left, plan >>
          /\ amounts' = [t \in Tasks |-> Amount(t)]
          /\ stage' = "done"
        BY <1>1 DEF Finish
    <2>2. \A t \in Tasks : Blocks(t)' = Blocks(t)
        BY <2>1 DEF Blocks
    <2>3. AmountsWhole'
        BY <2>1, <2>2, AmountWritten DEF AmountsWhole
    <2> QED
        BY <2>1, <2>3 DEF AmountsInv
<1>2. CASE OpenDate \/ OpenSlot \/ (\E t \in Tasks : TryTask(t)) \/ CloseSlot \/ CloseDate
    <2>1. stage # "done" /\ amounts' = amounts
        BY <1>2 DEF OpenDate, OpenSlot, TryTask, CloseSlot, CloseDate, SlotDone
    <2>2. \A t \in Tasks : amounts'[t] = Nothing
        BY <2>1 DEF AmountsInv
    <2> QED
        BY <2>2 DEF AmountsInv, AmountsWhole
<1>3. CASE UNCHANGED vars
    <2>1. UNCHANGED << input, left, plan, amounts, stage >>
        BY <1>3 DEF vars
    <2>2. \A t \in Tasks : Blocks(t)' = Blocks(t)
        BY <2>1 DEF Blocks
    <2> QED
        BY <2>1, <2>2 DEF AmountsInv, AmountsWhole
<1> QED
    BY <1>1, <1>2, <1>3 DEF Next

(* The amount of a task is written in full on its blocks, each of which    *)
(* gets a unit, or not at all, whatever the minutes of the blocks are.     *)
THEOREM AmountsAreWhole == Spec => []AmountsWhole
<1>1. Init => AmountsInv
    BY DEF Init, AmountsInv, AmountsWhole
<1>2. PlacementInv /\ AmountsInv /\ [Next]_vars => AmountsInv'
    BY AmountsStep
<1>3. Spec => []AmountsInv
    BY <1>1, <1>2, PlacementInvariant, PTL DEF Spec
<1>4. AmountsInv => AmountsWhole
    BY DEF AmountsInv
<1> QED
    BY <1>3, <1>4, PTL

=============================================================================
