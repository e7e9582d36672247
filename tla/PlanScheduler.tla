---------------------------- MODULE PlanScheduler ----------------------------
(***************************************************************************)
(* How minutes of tasks become blocks of a plan: schedule_plan_blocks of   *)
(* app/services/plan_block_service.py, after it has deleted the blocks it  *)
(* replaces.  A run goes through the dates of the cycle, the periods of a  *)
(* date and the tasks in the order of their deadlines; each step is one    *)
(* turn of one of these loops.  Nobody else runs: what other transactions  *)
(* do between its queries is in Settlement.                                *)
(*                                                                         *)
(* Time is a line of minutes from the start of the first date, cut into    *)
(* periods (slots) of one length; instants are whole minutes.  Tasks are   *)
(* numbered by creation time and id.                                       *)
(***************************************************************************)
EXTENDS PlanArithmetic

CONSTANTS
    Tasks,            \* ACTIVE tasks with remaining minutes
    Dates,            \* number of dates of the cycle
    PeriodsPerDate,
    WindowMinutes,    \* length of a period
    LimitMinutes,     \* minutes a plan may take of a period (240)
    NoDeadline,
    Inputs            \* what the queries may return

Slots == 1 .. Dates * PeriodsPerDate
CycleEnd == Dates * PeriodsPerDate * WindowMinutes
Minutes == 0 .. CycleEnd - 1

InputType ==
    [now : Minutes,                                \* the logical clock
     busy : SUBSET Minutes,                        \* covered by fixed schedules
     remaining : [Tasks -> Nat],
     checked : [Tasks -> Nat],                     \* CHECKED in the current period
     checkedAll : Nat,                             \* and with tasks that need nothing any more
     deadline : [Tasks -> Nat \union {NoDeadline}],
     units : [Tasks -> Nat],                       \* of an amount like "3 pages", 0 without one
     history : [Tasks -> BOOLEAN]]                 \* has a CHECKED or COMPLETED block

ASSUME ConstantsAssumption ==
    /\ Tasks \subseteq Nat
    /\ IsFiniteSet(Tasks)
    /\ {Dates, PeriodsPerDate, WindowMinutes} \subseteq Nat \ {0}
    /\ LimitMinutes \in Nat
    /\ NoDeadline \notin Nat
    /\ Inputs \subseteq InputType
    \* Blocks checked now are among those that were ever checked or completed.
    /\ \A i \in Inputs, t \in Tasks : i.checked[t] > 0 => i.history[t]

VARIABLES
    input,     \* chosen at the start, then constant
    stage,     \* which loop takes the next turn: "date", "slot", "task", or "done"
    slot,      \* the period it is in
    tried,     \* tasks that have had their turn in this period
    left,      \* minutes a task still needs
    room,      \* minutes a period still has
    plan,      \* minutes of the new block of a task in a period
    quota,     \* minutes of a task on the dates it may be planned on
    target,    \* what a task is to get on this date
    spent,     \* what it got on this date
    carry,     \* what it did not get on the dates before
    amounts    \* units written on the blocks of a task

vars == << input, stage, slot, tried, left, room, plan, quota, target, spent, carry, amounts >>

DateOf(p) == ((p - 1) \div PeriodsPerDate) + 1
LastOfDate(p) == p % PeriodsPerDate = 0
LastSlot == Dates * PeriodsPerDate
Window(p) == (p - 1) * WindowMinutes .. p * WindowMinutes - 1
Current == (input.now \div WindowMinutes) + 1

(* Minutes of a period a plan may take before an instant.  Of the current  *)
(* period only what the clock leaves counts, and its checked blocks count  *)
(* against the limit.                                                      *)
Capacity(p, end) ==
    LET open == {m \in Window(p) : m < end}
        limit == Least(LimitMinutes, Cardinality(open)) - Cardinality(open \intersect input.busy)
        clock == {m \in open \ input.busy : m >= input.now}
    IN  IF p = Current
        THEN Least(AtLeastZero(limit - input.checkedAll), Cardinality(clock))
        ELSE AtLeastZero(limit)

Need(t) == AtLeastZero(input.remaining[t] - input.checked[t])

AllocationEnd(t) ==
    IF input.deadline[t] = NoDeadline THEN CycleEnd ELSE Least(input.deadline[t], CycleEnd)

(* A task without a deadline comes after all others.                       *)
Before(t, u) ==
    LET Due(x) == IF input.deadline[x] = NoDeadline THEN CycleEnd + 1 ELSE AllocationEnd(x)
    IN  Due(t) < Due(u) \/ (Due(t) = Due(u) /\ t < u)

\* Mutant of Beside: a task may be planned beside its checked block.
BesideNothing(t, p) == FALSE

(* A task has at most one block in a period.                               *)
Beside(t, p) == p = Current /\ input.checked[t] > 0

EligibleDates(t) ==
    {DateOf(p) : p \in {q \in Slots : q >= Current /\ ~Beside(t, q) /\ Capacity(q, AllocationEnd(t)) > 0}}

(* What is left of an amount cannot be told once a block was completed.    *)
Quota(t) ==
    TaskQuotas(Need(t), EligibleDates(t), IF input.history[t] THEN 0 ELSE input.units[t])

Zero == [t \in Tasks |-> 0]

Init ==
    /\ input \in Inputs
    /\ stage = "date"
    /\ slot = Current
    /\ tried = {}
    /\ left = [t \in Tasks |-> Need(t)]
    /\ room = [p \in Slots |-> Capacity(p, CycleEnd)]
    /\ plan = [t \in Tasks |-> [p \in Slots |-> 0]]
    /\ quota = [t \in Tasks |-> Quota(t)]
    /\ target = Zero
    /\ spent = Zero
    /\ carry = Zero
    /\ amounts = [t \in Tasks |-> Nothing]

HasQuota(t) == DateOf(slot) \in DOMAIN quota[t]

\* Mutant of OpenDate: what an earlier date could not take is forgotten.
OpenDateWithoutCarry ==
    /\ stage = "date"
    /\ target' = [t \in Tasks |-> IF HasQuota(t) THEN Least(left[t], quota[t][DateOf(slot)]) ELSE 0]
    /\ spent' = Zero
    /\ stage' = "slot"
    /\ UNCHANGED << input, slot, tried, left, room, plan, quota, carry, amounts >>

OpenDate ==
    /\ stage = "date"
    /\ target' = [t \in Tasks |->
          IF HasQuota(t) THEN Least(left[t], quota[t][DateOf(slot)] + carry[t]) ELSE 0]
    /\ spent' = Zero
    /\ stage' = "slot"
    /\ UNCHANGED << input, slot, tried, left, room, plan, quota, carry, amounts >>

OpenSlot ==
    /\ stage = "slot"
    /\ tried' = {}
    /\ stage' = "task"
    /\ UNCHANGED << input, slot, left, room, plan, quota, target, spent, carry, amounts >>

Placed == Capacity(slot, CycleEnd) - room[slot]

\* Mutant of Allocation: the room of the period is not looked at.
AllocationOverRoom(t) ==
    IF Beside(t, slot) THEN 0
    ELSE AtLeastZero(Least(Least(left[t], target[t] - spent[t]), Capacity(slot, AllocationEnd(t))))

\* Mutant of Allocation: what more urgent tasks took of the time before the
\* deadline is not counted.
AllocationAlone(t) ==
    IF Beside(t, slot) THEN 0
    ELSE AtLeastZero(Least(Least(left[t], target[t] - spent[t]),
                           Least(room[slot], Capacity(slot, AllocationEnd(t)))))

(* What a task gets in its turn.                                           *)
Allocation(t) ==
    IF Beside(t, slot) THEN 0
    ELSE AtLeastZero(Least(Least(left[t], target[t] - spent[t]),
                           Least(room[slot], AtLeastZero(Capacity(slot, AllocationEnd(t)) - Placed))))

TryTask(t) ==
    /\ stage = "task"
    /\ room[slot] >= 1
    /\ t \notin tried
    /\ \A u \in Tasks \ tried : u = t \/ Before(t, u)
    /\ tried' = tried \union {t}
    /\ plan' = [plan EXCEPT ![t][slot] = @ + Allocation(t)]
    /\ left' = [left EXCEPT ![t] = @ - Allocation(t)]
    /\ spent' = [spent EXCEPT ![t] = @ + Allocation(t)]
    /\ room' = [room EXCEPT ![slot] = @ - Allocation(t)]
    /\ UNCHANGED << input, stage, slot, quota, target, carry, amounts >>

SlotDone == stage = "task" /\ (room[slot] < 1 \/ tried = Tasks)

CloseSlot ==
    /\ SlotDone
    /\ ~LastOfDate(slot)
    /\ slot' = slot + 1
    /\ stage' = "slot"
    /\ UNCHANGED << input, tried, left, room, plan, quota, target, spent, carry, amounts >>

Carried == [t \in Tasks |-> IF HasQuota(t) THEN target[t] - spent[t] ELSE carry[t]]

CloseDate ==
    /\ SlotDone
    /\ LastOfDate(slot)
    /\ slot < LastSlot
    /\ carry' = Carried
    /\ slot' = slot + 1
    /\ stage' = "date"
    /\ UNCHANGED << input, tried, left, room, plan, quota, target, spent, amounts >>

Blocks(t) == {p \in Slots : plan[t][p] > 0}

\* Mutant of Amount: an amount of which a part was done is shared out again.
AmountAgain(t) ==
    IF input.units[t] >= Cardinality(Blocks(t)) /\ Blocks(t) # {}
    THEN Shares(input.units[t], [p \in Blocks(t) |-> plan[t][p]])
    ELSE Nothing

(* Only blocks that are all of a task carry its amount.                    *)
Amount(t) ==
    IF left[t] = 0 /\ ~input.history[t] /\ Blocks(t) # {} /\ input.units[t] >= Cardinality(Blocks(t))
    THEN Shares(input.units[t], [p \in Blocks(t) |-> plan[t][p]])
    ELSE Nothing

Finish ==
    /\ SlotDone
    /\ slot = LastSlot
    /\ carry' = Carried
    /\ amounts' = [t \in Tasks |-> Amount(t)]
    /\ stage' = "done"
    /\ UNCHANGED << input, slot, tried, left, room, plan, quota, target, spent >>

Next ==
    \/ OpenDate
    \/ OpenSlot
    \/ \E t \in Tasks : TryTask(t)
    \/ CloseSlot
    \/ CloseDate
    \/ Finish

Spec == Init /\ [][Next]_vars

(***************************************************************************)
(* Properties                                                              *)
(***************************************************************************)
TypeOK ==
    /\ input \in Inputs
    /\ stage \in {"date", "slot", "task", "done"}
    /\ slot \in Slots
    /\ tried \subseteq Tasks
    /\ left \in [Tasks -> Nat]
    /\ room \in [Slots -> Nat]
    /\ plan \in [Tasks -> [Slots -> Nat]]
    /\ \A t \in Tasks : \A d \in DOMAIN quota[t] : quota[t][d] \in Nat
    /\ {target, spent, carry} \subseteq [Tasks -> Int]

(* Whoever works on the blocks of a period in the order of their deadlines *)
(* meets all of them: each block and the more urgent ones of its period    *)
(* fit into what the period has before the deadline: what the limit leaves *)
(* beside the fixed schedules and the checked blocks and, in the current   *)
(* period, what the clock leaves.                                          *)
DoneInTime ==
    \A t \in Tasks : \A p \in Blocks(t) :
        Total([u \in {x \in Tasks : x = t \/ Before(x, t)} |-> plan[u][p]]) <= Capacity(p, AllocationEnd(t))

(* A task gets no block in the current period beside a checked one, which  *)
(* the UNIQUE constraint of plan_blocks would refuse.                      *)
NothingBesideChecked == \A t \in Tasks : input.checked[t] > 0 => plan[t][Current] = 0

QuotaOf(t, dates) == Total([d \in DOMAIN quota[t] \intersect dates |-> quota[t][d]])

(* Nothing that a date could not take is forgotten: what a task still      *)
(* needs is what it carries and the quotas to come.                        *)
CarryKept ==
    \A t \in Tasks :
        quota[t] # Nothing =>
            /\ stage = "date" => left[t] = carry[t] + QuotaOf(t, DateOf(slot) .. Dates)
            /\ stage = "done" => left[t] = carry[t]

(* The amount of a task is written on its blocks in full or not at all:    *)
(* every block has a unit, the units add up, and no part of the task is    *)
(* left, planned elsewhere or done.                                        *)
AmountsWhole ==
    \A t \in Tasks :
        amounts[t] # Nothing =>
            /\ Total(amounts[t]) = input.units[t]
            /\ DOMAIN amounts[t] = Blocks(t)
            /\ \A p \in Blocks(t) : amounts[t][p] >= 1
            /\ left[t] = 0
            /\ input.checked[t] = 0 /\ ~input.history[t]

(* ScheduleResult says of the minutes it returns as unplaced that the time *)
(* from now to the end of the cycle had no capacity for them.              *)
UnplacedWhenFull ==
    stage = "done" =>
        \A t \in Tasks, p \in Slots :
            left[t] > 0 /\ p >= Current /\ ~Beside(t, p) /\ Capacity(p, AllocationEnd(t)) > 0 => room[p] = 0

(* The loops keep the promise of PlacementContract.                        *)
Contract == INSTANCE PlacementContract
    WITH Tasks <- Tasks, Slots <- Slots, left <- left, room <- room, plan <- plan
ImplementsPlacement == Contract!Spec

=============================================================================
