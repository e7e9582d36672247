------------------------------ MODULE Settlement ------------------------------
(***************************************************************************)
(* Settlement of the periods of one planning cycle: the worker of each     *)
(* server process (workers/check_in_worker.py), the two transactions that  *)
(* settle a period (services/check_in_settlement_service.py), and what     *)
(* runs beside them: the check toggle (services/plan_block_service.py) and *)
(* an ACTIVE_CYCLE execution (services/active_cycle_execution_service.py). *)
(*                                                                         *)
(* Dates and periods are one index 0..Last; index p is the clock while     *)
(* period p is current, and p is closed when now > p.  Minutes are counted *)
(* in blocks.  The scheduler places any number of blocks a task still      *)
(* needs in any open period, which leaves capacity and quotas open.        *)
(*                                                                         *)
(* RemovableInAnyStatus, MissingCheckIns, ScheduledWithoutEnd,             *)
(* NewestTarget, CycleNotLocked, EndAtAnyEmptyPeriod and                   *)
(* UpdateForgettingChecked are plausible bugs of the operator that follows *)
(* them; no action uses them.                                              *)
(***************************************************************************)
EXTENDS Integers, FiniteSets

CONSTANTS
  Tasks,
  Last,           \* the last evening of the cycle
  Procs,
  None,
  InitialMinutes, \* blocks each task is estimated to take
  Eager,          \* TRUE: one task and one day, so the scheduler is earliest first
  MaxFaults,      \* bound: database errors of the worker
  MaxCrashes,     \* bound: process kills
  MaxOverruns,    \* bound: boundaries during a start, a run or an execution
  MaxRaces,       \* bound: toggles between the query and the delete of a replan
  MaxExecs        \* bound: ACTIVE_CYCLE executions

ASSUME LastAssumption == Last \in Nat
ASSUME NoneAssumption == None \notin Tasks \cup Procs
ASSUME MinutesAssumption == InitialMinutes \in Nat \ {0}

VARIABLES
  now,
  \* the database
  cycle,          \* planning_cycles.status
  block,          \* plan_blocks: at most one per task and period
  checkIn,        \* check_ins: absent, not finalized, finalized
  startedAt,      \* check_ins.finalization_started_at ...
  startedBy,      \*   ... ties are broken by who wrote it
  taskStatus, remaining, estimated,
  \* the settlement worker of each process
  mode,
  rounds,         \* scans the current run has left: 3 timed, 1 at startup
  queue,          \* targets of the current scan
  clock,          \* the moment the run started
  stage,          \* where settle_period is with the first target
  removable,      \* PLANNED rows schedule_plan_blocks has read and not yet deleted
  \* requests being served
  tap,            \* a check toggle that has read the clock
  exec,           \* an execution that has read the clock
  faults, crashes, overruns, races, execs

cycleVars == <<cycle, taskStatus, remaining, estimated>>
checkInVars == <<checkIn, startedAt, startedBy>>
workerVars == <<mode, rounds, queue, clock, stage, removable>>
apiVars == <<tap, exec, execs>>
luckVars == <<faults, crashes, overruns, races>>
vars == <<now, cycleVars, block, checkInVars, workerVars, apiVars, luckVars>>

Periods == 0..Last
Blocks == Tasks \X Periods
EndOfTime == Last + 2   \* a boundary at which the cycle has nothing to settle
BlockStatus == {"none", "PLANNED", "CHECKED", "COMPLETED", "NOT_DONE"}
Settleable == {"PLANNED", "CHECKED"}
Settled == {"COMPLETED", "NOT_DONE"}

TypeOK ==
  /\ now \in 0..EndOfTime
  /\ cycle \in {"ACTIVE", "ENDED"}
  /\ block \in [Tasks -> [Periods -> BlockStatus]]
  /\ checkIn \in [Periods -> {"none", "open", "final"}]
  /\ startedAt \in [Periods -> 0..EndOfTime]
  /\ startedBy \in [Periods -> Procs \cup {None}]
  /\ taskStatus \in [Tasks -> {"ACTIVE", "COMPLETED", "CANCELLED"}]
  /\ remaining \in [Tasks -> Nat]
  /\ estimated \in [Tasks -> Nat]
  /\ mode \in [Procs -> {"down", "starting", "serving"}]
  /\ rounds \in [Procs -> 0..3]
  /\ queue \in [Procs -> SUBSET Periods]
  /\ clock \in [Procs -> 0..EndOfTime]
  /\ stage \in [Procs -> {"idle", "opened", "planning"}]
  /\ removable \in [Procs -> SUBSET Blocks]
  /\ tap \in [by : Procs, task : Tasks, at : 0..EndOfTime] \cup {None}
  /\ exec \in [by : Procs, at : 0..EndOfTime] \cup {None}
  /\ faults \in Nat /\ crashes \in Nat /\ overruns \in Nat /\ races \in Nat
  /\ execs \in Nat

SmallerOf(m, n) == IF m < n THEN m ELSE n
Less(m, n) == IF m > n THEN m - n ELSE 0
CountOf(blk, t, s) == Cardinality({p \in Periods : blk[t][p] = s})

-----------------------------------------------------------------------------
(* schedule_plan_blocks(now = the start of period c)                       *)

RemovableInAnyStatus(blk, c) == {x \in Blocks : blk[x[1]][x[2]] # "none" /\ x[2] >= c}

\* PLANNED rows of the current and later periods.
Removable(blk, c) ==
  {x \in Blocks : blk[x[1]][x[2]] = "PLANNED" /\ x[2] >= c}

Delete(blk, rows) ==
  [t \in Tasks |-> [p \in Periods |-> IF <<t, p>> \in rows THEN "none" ELSE blk[t][p]]]

CheckedNow(blk, t, c) == c \in Periods /\ blk[t][c] = "CHECKED"

\* Periods a task may be placed in, and the blocks it still needs.
Eligible(blk, t, c) == {p \in c..Last : ~(p = c /\ CheckedNow(blk, t, c))}
Need(blk, t, c, left, st) ==
  IF st[t] = "ACTIVE" THEN Less(left[t], IF CheckedNow(blk, t, c) THEN 1 ELSE 0)
                      ELSE 0

EarliestOf(S, n) == {p \in S : Cardinality({q \in S : q < p}) < n}

\* The placements the scheduler may choose.
Plans(blk, c, left, st) ==
  IF Eager
  THEN {[t \in Tasks |-> EarliestOf(Eligible(blk, t, c), Need(blk, t, c, left, st))]}
  ELSE {plan \in [Tasks -> SUBSET (c..Last)] : \A t \in Tasks :
          /\ plan[t] \subseteq Eligible(blk, t, c)
          /\ Cardinality(plan[t]) <= Need(blk, t, c, left, st)}

\* uq_plan_blocks_task_date_period
Fits(blk, plan) == \A t \in Tasks : \A p \in plan[t] : blk[t][p] = "none"

Place(blk, plan) ==
  [t \in Tasks |-> [p \in Periods |-> IF p \in plan[t] THEN "PLANNED" ELSE blk[t][p]]]

Empty == [t \in Tasks |-> [p \in Periods |-> "none"]]

\* The cycle has just been created and planned in its first period.
Init ==
  /\ now = 0
  /\ cycle = "ACTIVE"
  /\ taskStatus = [t \in Tasks |-> "ACTIVE"]
  /\ remaining = [t \in Tasks |-> InitialMinutes]
  /\ estimated = [t \in Tasks |-> InitialMinutes]
  /\ \E plan \in Plans(Empty, 0, remaining, taskStatus) : block = Place(Empty, plan)
  /\ checkIn = [p \in Periods |-> "none"]
  /\ startedAt = [p \in Periods |-> 0]
  /\ startedBy = [p \in Periods |-> None]
  /\ mode = [p \in Procs |-> "serving"]
  /\ rounds = [p \in Procs |-> 0]
  /\ queue = [p \in Procs |-> {}]
  /\ clock = [p \in Procs |-> 0]
  /\ stage = [p \in Procs |-> "idle"]
  /\ removable = [p \in Procs |-> {}]
  /\ tap = None /\ exec = None
  /\ faults = 0 /\ crashes = 0 /\ overruns = 0 /\ races = 0 /\ execs = 0

-----------------------------------------------------------------------------
(* The worker of a process                                                 *)

Idle(p) == rounds[p] = 0 /\ queue[p] = {}
Busy == exec # None \/ \E p \in Procs : ~Idle(p) \/ mode[p] = "starting"

\* A boundary.  The loop of every serving process that is asleep starts a run;
\* a loop that is still in its run computes the next boundary only afterwards.
Tick ==
  /\ Busy => overruns < MaxOverruns
  /\ overruns' = IF Busy THEN overruns + 1 ELSE overruns
  /\ now' = SmallerOf(now + 1, EndOfTime)
  /\ LET wakes == {p \in Procs : mode[p] = "serving" /\ Idle(p)}
     IN  /\ rounds' = [p \in Procs |-> IF p \in wakes THEN 3 ELSE rounds[p]]
         /\ clock' = [p \in Procs |-> IF p \in wakes THEN now' ELSE clock[p]]
  /\ UNCHANGED <<cycleVars, block, checkInVars, mode, queue, stage, removable, apiVars,
                 faults, crashes, races>>

\* check_in_lifespan: recovery before the process serves.
StartProcess(p) ==
  /\ mode[p] = "down"
  /\ mode' = [mode EXCEPT ![p] = "starting"]
  /\ rounds' = [rounds EXCEPT ![p] = 1]
  /\ clock' = [clock EXCEPT ![p] = now]
  /\ UNCHANGED <<now, cycleVars, block, checkInVars, queue, stage, removable, apiVars,
                 luckVars>>

Serve(p) ==
  /\ mode[p] = "starting" /\ Idle(p)
  /\ mode' = [mode EXCEPT ![p] = "serving"]
  /\ UNCHANGED <<now, cycleVars, block, checkInVars, rounds, queue, clock, stage, removable,
                 apiVars, luckVars>>

MissingCheckIns(c) == {p \in Periods : cycle = "ACTIVE" /\ checkIn[p] = "none" /\ c > p}

\* find_recovery_targets: open check-ins of any cycle, and closed periods of an
\* ACTIVE cycle that have no check-in.
RecoveryTargets(c) ==
  {p \in Periods : \/ checkIn[p] = "open"
                   \/ cycle = "ACTIVE" /\ checkIn[p] = "none" /\ c > p}

ScheduledWithoutEnd(c) == IF cycle = "ACTIVE" THEN {c - 1} ELSE {}

\* find_targets_for_period(latest_closed_period)
ScheduledTargets(c) == IF cycle = "ACTIVE" THEN Periods \cap {c - 1} ELSE {}

\* A run scans for recovery, for the period that has just closed, and for
\* recovery again; the run at startup only once.
Scan(p) ==
  /\ rounds[p] > 0 /\ queue[p] = {}
  /\ rounds' = [rounds EXCEPT ![p] = @ - 1]
  /\ queue' = [queue EXCEPT ![p] = IF rounds[p] = 2 THEN ScheduledTargets(clock[p])
                                                    ELSE RecoveryTargets(clock[p])]
  /\ UNCHANGED <<now, cycleVars, block, checkInVars, mode, clock, stage, removable, apiVars,
                 luckVars>>

\* A scan that raises ends the whole run.
ScanFails(p) ==
  /\ rounds[p] > 0 /\ queue[p] = {}
  /\ faults < MaxFaults
  /\ faults' = faults + 1
  /\ rounds' = [rounds EXCEPT ![p] = 0]
  /\ UNCHANGED <<now, cycleVars, block, checkInVars, mode, queue, clock, stage, removable,
                 apiVars, crashes, overruns, races>>

-----------------------------------------------------------------------------
(* settle_period for the oldest target of the scan                         *)

NewestTarget(p) == CHOOSE q \in queue[p] : \A other \in queue[p] : q >= other
Target(p) == CHOOSE q \in queue[p] : \A other \in queue[p] : q <= other
SettleableTasks(q) == {t \in Tasks : block[t][q] \in Settleable}

\* The rows of the cycle and, for one period, its blocks are locked from the
\* start of the second transaction to its end.
Planner(p) == stage[p] = "planning"
CycleNotLocked == FALSE
CycleLocked == \E p \in Procs : Planner(p)

At(p, s) == queue[p] # {} /\ stage[p] = s

\* The target is dealt with or given up; _run_targets goes on with the next.
NextTarget(p) ==
  /\ queue' = [queue EXCEPT ![p] = @ \ {Target(p)}]
  /\ stage' = [stage EXCEPT ![p] = "idle"]
  /\ removable' = [removable EXCEPT ![p] = {}]
  /\ UNCHANGED <<mode, rounds, clock>>

Goto(p, s) ==
  /\ stage' = [stage EXCEPT ![p] = s]
  /\ UNCHANGED <<mode, rounds, queue, clock>>

\* First transaction: the check-in is created, or found open.
StartSettlement(p) ==
  LET q == Target(p)
  IN  /\ At(p, "idle") /\ ~CycleLocked
      /\ \/ /\ checkIn[q] = "open"
            /\ UNCHANGED checkInVars
         \/ /\ checkIn[q] = "none" /\ cycle = "ACTIVE" /\ SettleableTasks(q) # {}
            /\ checkIn' = [checkIn EXCEPT ![q] = "open"]
            /\ startedAt' = [startedAt EXCEPT ![q] = clock[p]]
            /\ startedBy' = [startedBy EXCEPT ![q] = p]
      /\ Goto(p, "opened")
      /\ UNCHANGED <<now, cycleVars, block, removable, apiVars, luckVars>>

\* ALREADY_FINALIZED, CYCLE_NOT_SETTLEABLE and NO_BLOCKS.
SkipTarget(p) ==
  LET q == Target(p)
  IN  /\ At(p, "idle") /\ ~CycleLocked
      /\ \/ checkIn[q] = "final"
         \/ checkIn[q] = "none" /\ cycle # "ACTIVE"
         \/ checkIn[q] = "none" /\ SettleableTasks(q) = {} /\ q # Last
      /\ NextTarget(p)
      /\ UNCHANGED <<now, cycleVars, block, checkInVars, apiVars, luckVars>>

\* _cancel_remaining_tasks_and_end_cycle
EndCycle(left, st) ==
  /\ taskStatus' = [t \in Tasks |-> IF st[t] = "ACTIVE" /\ left[t] > 0
                                    THEN "CANCELLED" ELSE st[t]]
  /\ cycle' = "ENDED"

EndAtAnyEmptyPeriod(p) ==
  LET q == Target(p)
  IN  /\ At(p, "idle") /\ ~CycleLocked
      /\ checkIn[q] = "none" /\ cycle = "ACTIVE" /\ SettleableTasks(q) = {}
      /\ EndCycle(remaining, taskStatus)
      /\ NextTarget(p)
      /\ UNCHANGED <<now, remaining, estimated, block, checkInVars, apiVars, luckVars>>

\* The last evening has no block.
EndWithoutCheckIn(p) ==
  LET q == Target(p)
  IN  /\ At(p, "idle") /\ ~CycleLocked
      /\ q = Last /\ checkIn[q] = "none" /\ cycle = "ACTIVE" /\ SettleableTasks(q) = {}
      /\ EndCycle(remaining, taskStatus)
      /\ NextTarget(p)
      /\ UNCHANGED <<now, remaining, estimated, block, checkInVars, apiVars, luckVars>>

\* Blocks and tasks after settling period q.
SettledBlocks(q) ==
  [t \in Tasks |-> [block[t] EXCEPT ![q] =
     IF @ = "CHECKED" THEN "COMPLETED" ELSE IF @ = "PLANNED" THEN "NOT_DONE" ELSE @]]
SettledMinutes(q) ==
  [t \in Tasks |-> IF block[t][q] = "CHECKED" /\ taskStatus[t] # "COMPLETED"
                   THEN Less(remaining[t], 1) ELSE remaining[t]]
SettledTasks(q) ==
  [t \in Tasks |-> IF block[t][q] = "CHECKED" /\ taskStatus[t] = "ACTIVE"
                      /\ SettledMinutes(q)[t] = 0
                   THEN "COMPLETED" ELSE taskStatus[t]]

\* finalized_at_after_start: another process may have started later.
FinalizedInTime(p, q) == startedAt[q] <= clock[p]
SurelyInTime(p, q) == startedAt[q] < clock[p] \/ startedBy[q] = p

\* Second transaction up to the query of schedule_plan_blocks.
BeginReplan(p) ==
  LET q == Target(p)
  IN  /\ At(p, "opened") /\ ~CycleLocked
      /\ checkIn[q] = "open" /\ SettleableTasks(q) # {} /\ q # Last
      /\ removable' = [removable EXCEPT ![p] = Removable(block, q + 1)]
      /\ Goto(p, "planning")
      /\ UNCHANGED <<now, cycleVars, block, checkInVars, apiVars, luckVars>>

\* The rest of it: the rows read are deleted by id, whatever they have become.
FinishReplan(p) ==
  LET q == Target(p)
      kept == Delete(SettledBlocks(q), removable[p])
  IN  /\ At(p, "planning")
      /\ FinalizedInTime(p, q)
      /\ \E plan \in Plans(kept, q + 1, SettledMinutes(q), SettledTasks(q)) :
            Fits(kept, plan) /\ block' = Place(kept, plan)
      /\ remaining' = SettledMinutes(q)
      /\ taskStatus' = SettledTasks(q)
      /\ checkIn' = [checkIn EXCEPT ![q] = "final"]
      /\ NextTarget(p)
      /\ UNCHANGED <<now, cycle, estimated, startedAt, startedBy, apiVars, luckVars>>

\* A constraint of the database rolls the second transaction back.
ReplanRefused(p) ==
  LET q == Target(p)
      kept == Delete(SettledBlocks(q), removable[p])
  IN  /\ At(p, "planning")
      /\ \/ ~SurelyInTime(p, q)
         \/ \E plan \in Plans(kept, q + 1, SettledMinutes(q), SettledTasks(q)) :
               ~Fits(kept, plan)
      /\ NextTarget(p)
      /\ UNCHANGED <<now, cycleVars, block, checkInVars, apiVars, luckVars>>

\* The second transaction of the last evening.
SettleLastEvening(p) ==
  LET q == Target(p)
  IN  /\ At(p, "opened") /\ ~CycleLocked
      /\ checkIn[q] = "open" /\ SettleableTasks(q) # {} /\ q = Last
      /\ FinalizedInTime(p, q)
      /\ block' = SettledBlocks(q)
      /\ remaining' = SettledMinutes(q)
      /\ EndCycle(SettledMinutes(q), SettledTasks(q))
      /\ checkIn' = [checkIn EXCEPT ![q] = "final"]
      /\ NextTarget(p)
      /\ UNCHANGED <<now, estimated, startedAt, startedBy, apiVars, luckVars>>

\* The second transaction finds nothing to do: finalized meanwhile, or an open
\* check-in without blocks (RuntimeError), or written too early.
FinalizeStops(p) ==
  LET q == Target(p)
  IN  /\ At(p, "opened") /\ ~CycleLocked
      /\ \/ checkIn[q] = "final"
         \/ checkIn[q] = "open" /\ SettleableTasks(q) = {}
         \/ checkIn[q] = "open" /\ q = Last /\ ~SurelyInTime(p, q)
      /\ NextTarget(p)
      /\ UNCHANGED <<now, cycleVars, block, checkInVars, apiVars, luckVars>>

\* Either transaction fails and is rolled back.
SettleFails(p) ==
  /\ queue[p] # {}
  /\ faults < MaxFaults
  /\ faults' = faults + 1
  /\ NextTarget(p)
  /\ UNCHANGED <<now, cycleVars, block, checkInVars, apiVars, crashes, overruns, races>>

\* A kill: transactions roll back, the requests the process serves end.
Crash(p) ==
  /\ mode[p] # "down" /\ crashes < MaxCrashes
  /\ crashes' = crashes + 1
  /\ mode' = [mode EXCEPT ![p] = "down"]
  /\ rounds' = [rounds EXCEPT ![p] = 0]
  /\ queue' = [queue EXCEPT ![p] = {}]
  /\ stage' = [stage EXCEPT ![p] = "idle"]
  /\ removable' = [removable EXCEPT ![p] = {}]
  /\ tap' = IF tap # None /\ tap.by = p THEN None ELSE tap
  /\ exec' = IF exec # None /\ exec.by = p THEN None ELSE exec
  /\ UNCHANGED <<now, cycleVars, block, checkInVars, clock, execs, faults, overruns,
                 races>>

-----------------------------------------------------------------------------
(* set_plan_block_check_state: the clock is read before the row is locked. *)

BeginTap(p, t) ==
  /\ mode[p] = "serving" /\ tap = None
  /\ tap' = [by |-> p, task |-> t, at |-> now]
  /\ UNCHANGED <<now, cycleVars, block, checkInVars, workerVars, exec, execs, luckVars>>

\* Blocks of the period being settled are locked until that commits.
RowLocked(q) == \E p \in Procs : Planner(p) /\ Target(p) = q

CanToggle(t, q) == q \in Periods /\ cycle = "ACTIVE" /\ block[t][q] \in Settleable

CommitTap ==
  /\ tap # None /\ ~RowLocked(tap.at)
  /\ CycleLocked => races < MaxRaces
  /\ races' = IF CycleLocked THEN races + 1 ELSE races
  /\ LET t == tap.task
         q == tap.at
     IN  /\ CanToggle(t, q)
         /\ block' = [block EXCEPT ![t][q] = IF @ = "PLANNED" THEN "CHECKED" ELSE "PLANNED"]
  /\ tap' = None
  /\ UNCHANGED <<now, cycleVars, checkInVars, workerVars, exec, execs, faults, crashes,
                 overruns>>

RefuseTap ==
  /\ tap # None /\ ~RowLocked(tap.at)
  /\ ~CanToggle(tap.task, tap.at)
  /\ tap' = None
  /\ UNCHANGED <<now, cycleVars, block, checkInVars, workerVars, exec, execs, luckVars>>

-----------------------------------------------------------------------------
(* execute_active_cycle: the clock is read before the locks are taken.     *)

BeginExecution(p) ==
  /\ mode[p] = "serving" /\ exec = None
  /\ execs < MaxExecs
  /\ execs' = execs + 1
  /\ exec' = [by |-> p, at |-> now]
  /\ UNCHANGED <<now, cycleVars, block, checkInVars, workerVars, tap, luckVars>>

\* No open check-in, and no CHECKED block before the current period.
MayExecute(c) ==
  /\ cycle = "ACTIVE"
  /\ \A p \in Periods : checkIn[p] # "open"
  /\ \A t \in Tasks, p \in Periods : p < c => block[t][p] # "CHECKED"

\* A card of task t, then the new plan, in one transaction that has locked the
\* cycle and every block it deletes.
ExecuteCard(t, left, total, st) ==
  LET c == exec.at
      kept == Delete(block, Removable(block, c))
  IN  /\ taskStatus[t] = "ACTIVE"
      /\ remaining' = [remaining EXCEPT ![t] = left]
      /\ estimated' = [estimated EXCEPT ![t] = total]
      /\ taskStatus' = [taskStatus EXCEPT ![t] = st]
      /\ \E plan \in Plans(kept, c, remaining', taskStatus') :
            Fits(kept, plan) /\ block' = Place(kept, plan)

UpdateForgettingChecked(t, left) ==
  /\ left > 0
  /\ ExecuteCard(t, left, CountOf(block, t, "COMPLETED")
                          + (IF CheckedNow(block, t, exec.at) THEN 1 ELSE 0) + left, "ACTIVE")

\* _apply_task_update: the minutes the card says are left; checked ones of the
\* current period are deducted by settlement later.
UpdateMinutes(t, left) ==
  LET checked == IF CheckedNow(block, t, exec.at) THEN 1 ELSE 0
  IN  /\ left + checked > 0
      /\ ExecuteCard(t, left + checked, CountOf(block, t, "COMPLETED") + checked + left, "ACTIVE")

CancelTask(t) == ExecuteCard(t, remaining[t], estimated[t], "CANCELLED")

CommitExecution ==
  /\ exec # None /\ ~CycleLocked
  /\ MayExecute(exec.at)
  /\ \E t \in Tasks : CancelTask(t) \/ \E left \in 0..InitialMinutes : UpdateMinutes(t, left)
  /\ exec' = None
  /\ UNCHANGED <<now, cycle, checkInVars, workerVars, tap, execs, luckVars>>

\* Any refusal or error rolls the execution back.
FailExecution ==
  /\ exec # None
  /\ exec' = None
  /\ UNCHANGED <<now, cycleVars, block, checkInVars, workerVars, tap, execs, luckVars>>

-----------------------------------------------------------------------------
WorkerStep(p) ==
  \/ Scan(p) \/ StartSettlement(p) \/ SkipTarget(p) \/ EndWithoutCheckIn(p)
  \/ BeginReplan(p) \/ FinishReplan(p) \/ ReplanRefused(p) \/ SettleLastEvening(p)
  \/ FinalizeStops(p) \/ Serve(p)

Next ==
  \/ Tick
  \/ \E p \in Procs :
       \/ WorkerStep(p) \/ StartProcess(p) \/ ScanFails(p) \/ SettleFails(p) \/ Crash(p)
       \/ \E t \in Tasks : BeginTap(p, t)
       \/ BeginExecution(p)
  \/ CommitTap \/ RefuseTap \/ CommitExecution \/ FailExecution

Spec == Init /\ [][Next]_vars

\* Boundaries come, the worker runs, and the thread of an execution ends.
FairSpec ==
  /\ Spec
  /\ WF_vars(Tick)
  /\ WF_vars(CommitExecution \/ FailExecution)
  /\ \A p \in Procs : WF_vars(WorkerStep(p))

-----------------------------------------------------------------------------
(* Properties                                                              *)

\* What is left of a task is its estimate less its completed blocks, however
\* often a settlement was started, failed, repeated or raced with an execution.
MinutesOnce ==
  \A t \in Tasks : remaining[t] = Less(estimated[t], CountOf(block, t, "COMPLETED"))

\* Worker steps that come late, twice or from two processes never rewrite a
\* result: a settled block and a finalized check-in stay as they are.
ResultsKept ==
  [][/\ \A t \in Tasks, p \in Periods :
          block[t][p] \in Settled => block'[t][p] = block[t][p]
     /\ \A p \in Periods : checkIn[p] = "final" => checkIn'[p] = "final"]_vars

\* The cycle ends after its last evening, with that evening settled, and leaves
\* no task to work on; no execution revives one.
CycleEndsOnce ==
  cycle = "ENDED" =>
    /\ now > Last
    /\ checkIn[Last] # "open" /\ SettleableTasks(Last) = {}
    /\ \A t \in Tasks : taskStatus[t] # "ACTIVE"

\* While runs end in time, the database answers and no toggle lands inside a
\* replan, periods are settled oldest first: behind a finalized period, and in
\* it, nothing is left to settle, so no block is planned into the past.  Kills
\* and restarts of one process do not change this.  (With a second process that
\* goes on serving, a check in a later period can make the plan of the retry
\* meet the UNIQUE constraint, and the later period is settled first.)
OldestFirst ==
  (faults = 0 /\ overruns = 0 /\ races = 0) =>
    \A p, q \in Periods :
      (q <= p /\ checkIn[p] = "final") => checkIn[q] # "open" /\ SettleableTasks(q) = {}

\* A closed period of an ACTIVE cycle that has blocks, or an open check-in.
Due(p) ==
  \/ checkIn[p] = "open"
  \/ cycle = "ACTIVE" /\ now > p /\ SettleableTasks(p) # {} /\ checkIn[p] = "none"

\* Under the same conditions, once nothing is due, an ACTIVE task has no more
\* blocks ahead than minutes left: a plan replaces the one before it, whatever
\* was checked, executed or settled meanwhile.
PlannedWithinNeed ==
  (faults = 0 /\ overruns = 0 /\ races = 0 /\ \A p \in Periods : ~Due(p)) =>
    \A t \in Tasks :
      taskStatus[t] = "ACTIVE" =>
        CountOf(block, t, "PLANNED") + CountOf(block, t, "CHECKED") <= remaining[t]

\* Settlement needs no visit of the app: once kills and errors are over, a due
\* period is settled unless every process stays down.
DuePeriodsSettle ==
  \A p \in Periods :
    (Due(p) /\ faults = MaxFaults /\ crashes = MaxCrashes)
      ~> (~Due(p) \/ \A s \in Procs : mode[s] = "down")

\* check_in_settlement_service.py:320, the RuntimeError of _finalize_settlement:
\* an open check-in always has a block to settle.
OpenCheckInSettleable ==
  \A p \in Periods : checkIn[p] = "open" => SettleableTasks(p) # {}

\* schedule_plan_blocks, docstring: CHECKED blocks of the current period are
\* not touched by replanning.  Only the user takes a check back.
CheckedKept ==
  [][\A t \in Tasks, p \in Periods :
       block[t][p] = "CHECKED" =>
         block'[t][p] \in {"CHECKED", "COMPLETED"} \/ (tap # None /\ tap' = None)]_vars

\* IMPLEMENTATION_CONTEXT.md, recovery: a period that has ended without a
\* check-in is found and settled; so none with blocks is left by an ENDED cycle.
EndedCycleSettled ==
  cycle = "ENDED" =>
    \A p \in Periods : checkIn[p] = "none" => SettleableTasks(p) = {}

\* IMPLEMENTATION_CONTEXT.md, settlement step 2: every CHECKED or PLANNED block
\* of the period has become COMPLETED or NOT_DONE when the check-in is final.
FinalPeriodSettled ==
  \A p \in Periods : checkIn[p] = "final" => SettleableTasks(p) = {}
===============================================================================
