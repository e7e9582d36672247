# Verification of the E-um (이음) planner

E-um is a weekly planner. A user describes what has to be done in a chat with
the SOLAR language model; when the user confirms, the server executes the
request: it opens a seven-day *planning cycle*, or changes the active one, and
places *plan blocks* in the morning, afternoon and evening of each day. When a
period ends the server *settles* it: checked blocks become completed, the
others not done, the rest is planned again, and the last evening ends the cycle.
A mobile app shows the plan and polls the server while a request executes.

Paths are relative to `src/apps/server/app/` unless they start with `src/`.
`M` stands for `src/apps/mobile/`.

## 1. Inventory

| Component | State | Operations | Talks to |
|---|---|---|---|
| SOLAR execution worker `workers/solar_execution_worker.py` | `_pending` set and thread pool per process; an advisory lock per request in PostgreSQL | register, run, record FAILED, startup recovery, shutdown | the request table; the two execution services |
| SOLAR request life cycle `services/solar_request_service.py`, `models/solar_*.py` | `solar_requests` (status, attempt count, cycle), `solar_request_items` (cards), `solar_messages` | create, message, decision, reopen, delete, execute, retry, acknowledge | AI clients between two transactions; the dispatcher after the commit |
| NEW_CYCLE execution `services/new_cycle_execution_service.py` | cycle, tasks, fixed schedules | one transaction under the user's lock | scheduler; request and cards in the same commit |
| ACTIVE_CYCLE execution `services/active_cycle_execution_service.py` | tasks, fixed schedules, plan blocks | one transaction under user, cycle and block locks | scheduler; competes with settlement |
| Check-in settlement `services/check_in_settlement_service.py`, `workers/check_in_worker.py` | `check_ins`, plan blocks, tasks, cycle status | start or resume, finalize, recovery scan, timed run | scheduler; runs beside the API |
| Plan blocks and scheduler `services/plan_block_service.py` | `plan_blocks` | check and uncheck, reschedule, `schedule_plan_blocks` | called by both executions and by settlement |
| Check-in acknowledgement `services/check_in_service.py` | `acknowledged_at` | acknowledge a result and the older ones | home screen |
| Account deletion `services/account_deletion_service.py`, `services/supabase_admin_client.py` | every row of a user, the identity in Supabase | delete | Supabase admin API |
| Read models (`home`, `bootstrap`, `calendar`, `plan_management`, `deadline_warning`, `profile` services) | none (two small writes) | queries | |
| AI clients `services/solar_client.py`, `services/gemini_change_input_client.py` | none | analyse a message | external HTTP |
| Auth, configuration, routing, migrations | none | | |
| Mobile refresh coordination `M src/features/app-sync/`, `M app/_layout.tsx` | timers, watched request, epochs, events | poll, foreground, boundary, bootstrap, reset | the REST API; the screens |
| Mobile plan management `M src/features/plan-management/` | shown state, loads and actions in flight | load, execute, retry, acknowledge, chat | the REST API; app-sync |
| Mobile home, calendar, settings, withdrawal | caches of server state | loads, optimistic check | the REST API |

What is hard in this code, and where it bites, is listed under `hazards` in
`PROJECT.json`: a registration that is dropped, two workers on one request, a
slow worker that records an outcome for a later attempt, a kill between two
commits, a lost lock connection, settlement racing with the check toggle and
with executions, settlements that fail and are overtaken by later ones, AI calls
between the transaction that reads and the one that writes, client events sent
twice, merges of cards that leave a question without a card, quotas with
remainders and deadlines inside periods, a deletion that is cut between its two
databases, a poll that stops although an execution goes on, and answers that
arrive after a newer one.

What makes each component correct:

* worker and life cycle: one effective execution per request, an outcome only
  for one's own attempt, no attempt forgotten, recovery after a restart;
* conversation: an answer applied once and only to the question it answers, a
  collecting request always asks something that can be answered, only complete
  cards are reviewed and executed;
* executions: a cycle only from a completed request, cards and request in step,
  all or nothing;
* settlement: every block of a closed period settled once, in order, minutes
  deducted once, a cycle ended once and never before its blocks;
* scheduler: capacity and deadlines respected, no block in the past or beside a
  checked one, nothing that was not placed is forgotten, amounts shared in full;
* deletion: safe to repeat after any failure, nothing comes back;
* app: a screen that shows an execution learns its end; old answers are dropped.

## 2. Plan and what became of it

| Order | Module | State |
|---|---|---|
| 1 | `SolarExecution`, abstract `ExecutionContract`, `SolarExecutionProofs` | done |
| 2 | `Settlement`, `SettlementProofs` | done, proved |
| 3 | `PlanArithmetic`, `PlanQuestions`, `PlanScheduler`, abstract `PlacementContract`, `FoldFacts`, `PlanArithmeticProofs`, `PlanSchedulerProofs` | done, proved |
| 4 | `SolarConversation`, abstract `ConversationContract`, `SolarConversationProofs` | done, proved |
| 5 | `AccountDeletion`, `AccountDeletionProofs` | done |
| 6 | `AppSync`, `AppSyncProofs` | plan-management screen done, its safety proved |

How they compose: `SolarConversation` ends where `SolarExecution` begins (its
`Prepare` is the conversation in one step, its statuses are the ones of the
conversation), `SolarExecution` commits what `Settlement` and `PlanScheduler`
work on, and `AppSync` watches the status `SolarExecution` moves. The product of
two of these modules is out of TLC's reach; each keeps of its neighbour what
can disturb it: `Settlement` has an execution and a toggle beside the worker,
`SolarConversation` has execution, settlement of a task and end of the cycle,
`SolarExecution` has creation, deletion and the end of the cycle.

Modules that are proved about use no RECURSIVE operator.

## 3. Modules

Operators that a comment calls a mutant are plausible bugs that the runs must
notice; no action uses them. They stand beside the operator they change.

### SolarExecution

| Model | Code |
|---|---|
| `status`, `attempt`, `target` | columns of `solar_requests`; `ACKED` is COMPLETED with `result_acknowledged_at`, `ABSENT` and `DELETED` are no row |
| `executed` | every card of the request is EXECUTED |
| `activeCycle` | the ACTIVE planning cycle of a user, named by the request that created it |
| `applied` | history: how often an execution of the request committed |
| `lock` | `pg_try_advisory_lock` on the request id, held by a session of a process |
| `mode`, `recovering` | lifespan of a server process, ids read by startup recovery |
| `registering` | API threads between the commit of EXECUTING and `dispatcher.register` |
| `pending`, `pc` | `_pending` and where the job of a request is in the pool |
| `seen` | attempt a running job has read |

One action per handler or per step between two commits. API: `Prepare` (the
conversation up to FINAL_REVIEW, one step), `StartExecution` (execute and retry),
`DeleteRequest`, `AcknowledgeResult`, `EndCycle` (settlement of the last
evening). Dispatcher: `RegisterAfterCommit`, `RegisterRaises`, `StartProcess`,
`RecoverOne`, `RecoveryFails`, `RecoveryDone`, `Drain`, `Stopped`, `Crash`.
Worker: `Dequeue`, `Lock`, `LockBusy`, `LockFails`, `ReadRequest`,
`SkipRequest`, `ExecuteCommits`, `ExecuteFails`, `FinalizeAsFailed`,
`WorkerInfraError`, `Unlock`, `Leave`, and `LockLost` from outside.

An execution is one step at its commit: it reads under the user's transaction
lock and everything it writes commits together. What it reads without that lock,
the request, is a step of its own (`ReadRequest`). A FAILED row does not accept
COMPLETED because `completed_state_consistency` wants `error_code` empty;
`CanComplete` says so, and it is what stops a worker whose lock was lost.

`ExecutionContract` is the same requests without processes: submit, begin,
succeed, fail, withdraw, acknowledge. `SolarExecution` implements it with the
identity on `status`, `attempt` and `applied`.

### SolarConversation

The current request of one user from creation to FINAL_REVIEW, and what ends it.

| Model | Code |
|---|---|
| `request` | the row: status, purpose, cycle, `current_item_order` (`cursor`); `minted` gives card ids |
| `cards` | `solar_request_items` by `item_order`: entity, action, target, `missing_fields`, pending question, attempts, update fields, times; a value is only present or not (`unset`) |
| `question` | the metadata of the last message |
| `used`, `turns` | client event ids of the messages; how many messages and decisions were taken |
| `cycle`, `live` | the latest planning cycle, its entities a change may name |
| `call` | per server thread: the read transaction's result while the model is asked |
| `refusal` | why the step just taken has refused (a 4xx, a 5xx or a rolled back crash) |

A message is `BeginMessage` (the read transaction: idempotency, status, which
kind of dispatch, and the context the language model gets), the call itself,
during which anything may happen, and `FinishMessage` or `StaleMessage` (the
write transaction, with its lock and every check of the dispatch kind: `Fits`)
or `AnalysisFails`. What the model may answer is what the response parsers let
through (`CardAnswers`, `RecurrenceAnswers`, `TargetAnswers`, `ChangeAnswers`,
`FirstAnalyses`). Creation is the same with `BeginCreate`, `FinishCreate`,
`CreateRefused`. Merging, patching, cancelling, renumbering and recomputing
cards (`Merged`, `PatchItem`, `CancelCard`, `AdvanceCard`, `Recompute`...) are
operators on a draft of the request, named after the service's functions.
`Decide`, `Reopen`, `Delete`, `Execute`, `ExecutionEnds`, `Acknowledge` are one
transaction each; `TaskSettled` and `EndCycle` are settlement.

`ConversationContract` has only the status, the accepted events and whether all
cards are complete. `SolarConversation` implements it.

### Settlement

One cycle and its worker. A period is an index 0..`Last`; index `p` is also the
clock while period `p` is current, so `p` is closed when `now > p`. A minute of
the model is one block; a task needs as many blocks as it has `remaining`.

| Model | Code |
|---|---|
| `block[t][p]` | the `plan_blocks` row of a task in a period (UNIQUE), or none |
| `checkIn[p]`, `startedAt`, `startedBy` | `check_ins`: absent, open, finalized; who started it when |
| `cycle`, `taskStatus`, `remaining`, `estimated` | `planning_cycles.status`, columns of `tasks` |
| `mode`, `rounds`, `clock` | lifespan of a process; scans a run has left; the `now` of the run |
| `queue`, `stage` | targets of the scan; where `settle_period` is with the oldest one |
| `removable` | rows `schedule_plan_blocks` has selected and not yet deleted |
| `tap`, `exec` | a toggle and an execution that have read the clock and wait for their locks |

Boundaries are `Tick`, which starts the run of every loop that is asleep; a loop
that is busy, or a process still in its startup recovery, misses the boundary.
`Scan` and `ScanFails` load targets. `StartSettlement`, `SkipTarget` and
`EndWithoutCheckIn` are the outcomes of the first transaction; `BeginReplan`,
`FinishReplan`, `ReplanRefused`, `SettleLastEvening` and `FinalizeStops` those
of the second; `SettleFails` is an error in either, after which `_run_targets`
goes on with the next target. The second transaction is two steps because it
reads rows of the next period that it has not locked; everything else in a
transaction is one step, as it holds the row of the cycle. `BeginTap`,
`CommitTap`, `RefuseTap` and `BeginExecution`, `CommitExecution`,
`FailExecution` run beside it.

`Plans` is what the scheduler may do: any placement of at most the blocks a task
still needs, in the current period or later. With `Eager` it is what the
scheduler does with one task in a cycle of one day: the earliest periods. The
replan is given the moment the settled period ended, not the real time: this is
how the code calls it, and why a late settlement can plan into the past.

### PlanArithmetic, PlanScheduler and PlacementContract

`PlanArithmetic` has the pure functions of `plan_block_service.py`: daily quotas
with remainders, evenly spaced dates, shares of an amount by largest remainder,
the minutes that overlapping fixed schedules take, by sorting and merging a list of
intervals. `PlanQuestions` asks each of them every question within bounds and
compares the answer with a definition that says what it is for.

`PlanScheduler` is `schedule_plan_blocks` after its delete: dates, periods of a
date, tasks by deadline, one step per turn of a loop (`OpenDate`, `OpenSlot`,
`TryTask`, `CloseSlot`, `CloseDate`, `Finish`). `input` is what its queries
return, `left` and `room` the minutes a task still needs and a period still has,
`quota`, `target`, `spent` and `carry` the bookkeeping of a date, `plan` the rows
it adds, `amounts` the units in their titles. Time is a line of whole minutes.

`PlacementContract` says only that needed minutes move into periods that have
room, one block per task and period, in the order of time. The three nested
loops implement it.

### AccountDeletion

`rows` is the set of tables that have committed rows of the user, `auth` the
identity in Supabase. A call is `BeginCall`, `ReadProfile`, `LockProfile`, the
DELETE statements one by one (`SkipRows`, `DeleteRows`; `SkipAll` without a
profile), `CommitRows`, then the attempts at the Auth account: `AuthDeleted`,
`AuthAbsent`, `AuthRestricted`, `AuthFails`, `AuthRefuses`, `NextAttempt`. An
answer that is lost is a fault: the account is gone and the call sees an error.
`Parents` and `ReferredToBy` are the foreign keys; a DELETE that would meet a
referring row goes to "conflict". Writers run every transaction that inserts
rows of the user, with the row locks it takes first and the key-share lock an
INSERT takes on its parents; `AbortCall` and `AbortWrite` include the database's
deadlock detection. `Onboard` makes a profile again.

### AppSync

`AppSyncProvider`, `usePlanManagement` and `BootstrapProvider` around one request.
JavaScript runs one callback at a time, so an action is the run of a callback up
to its next `await`; what interleaves are answers, timers, the user, and React,
which renders queued state later and runs effects then (`Render`). A call is
sent, read by the server (`ReadPoll`, `ReadLoad`, `ReadSync`), and answered or
failed. The provider: `Timer`, `PollAnswered`, `PollFailed`, `Boundary`,
`Background`, `Foreground`, `SyncAnswered`, `SyncFailed`, `LateSyncAnswered`,
`SignOut`, `SessionExpired`, `SignIn`. The screen: `Focus`, `Blur`,
`LoadAnswered`, `LoadFailed`, `Begin`, `StartAnswered`, `AcknowledgeAnswered`,
`ActionRefused`, `ActionOver`. The server: `ServeAction`, `ServerFinishes`. The
tables of variables and refs are in the module's declarations. `missed` is a
ghost: a load or a sync failed and nothing was answered since; the app then
waits for the user, by design.

## 4. Runs

| Run | Instance | Shows |
|---|---|---|
| `SolarExecution_safety` | 1 user, 2 requests, 2 processes, pool 1, 2 attempts, 1 fault, 1 kill; 1.2M states | types, one worker per request, no stale outcome, cycles have a creator, first attempts have a worker |
| `SolarExecution_recovery` | 1 request, 2 processes, 2 attempts, 1 fault, 1 kill, 1 lost lock | exactly-once effect; the contract; recovery decides what it found |
| `SolarExecution_retry` | 1 request, 1 process, pool 4, 2 attempts, no failure | violated: a retry can be lost |
| `SolarConversation_race` | 2 threads, 4 events, 1 task, 1 line per answer, 4 turns, 2 cycles | an answer meets its own question, an event counts once, an entity keeps one card, collecting requests ask |
| `SolarConversation_cards` | 1 thread, a task and a schedule, 2 lines per answer, 4 turns | rows fit their constraints; new tasks are complete; what is asked is written; the contract |
| `Settlement_safety` | 1 task, 3 periods, 2 blocks, 1 process; 1 fault, kill, missed boundary, race and execution; 1.3M states | types, minutes once, results kept, cycle ends once |
| `Settlement_prompt` | 3 blocks; 1 kill, 1 execution | settled oldest first, plans replace each other, due periods are settled |
| `Settlement_lostcheck` | 1 toggle inside a replan | violated: a check is lost |
| `PlanScheduler_plans` | 2 tasks, 4 periods of 3 minutes with a limit of 2 | deadlines can be met, nothing unplaced is forgotten, no block beside a checked one, amounts whole; the contract |
| `PlanArithmetic_small` | needs up to 9, 6 dates, 3 blocks, lists of 3 intervals in any order | divisions lose nothing and are even; unions count once |
| `AccountDeletion_repeated` | 2 calls, 1 writer with 2 transactions, 3 faults, 1 onboarding | statements fit the foreign keys; what is gone stays gone; repeating is enough |
| `AppSync_watch` | 1 execution; any failures, tab changes, backgrounds, sign-outs; 0.5M states | polling goes on, loads bring news, the screen leaves EXECUTING |

### Why the bounds are enough

*SolarExecution.* Two processes and one request are enough for a race on the
lock, two requests of one user for a race on the cycle, pool size 1 for a full
pool; two attempts give a retry. `MaxAttempts`, `MaxFaults`, `MaxCrashes` and
`MaxLockLosses` bound the history and nothing else. Processes are symmetric in
the safety run, and so are the requests of one user.

*SolarConversation.* Two threads are a message and anything that overtakes it
(another message, its own repetition, a deletion and a new request: the request
number moves on). Four turns are an answer, a change, a second change of the same
card and the answer to its question, which is where cards are merged; two lines
or operations per answer are where one refuses after another has changed cards.
The fields are the ones with rules of their own (deadlines are completed by the
server, amounts are asked, starts and ends are compared); titles are treated like
amounts. The question of a client event is its identity, so events are symmetric.

*Settlement.* Three periods are a period being settled, one to plan into and a
last evening. `MaxFaults`, `MaxCrashes`, `MaxOverruns` (boundaries during a run, a
startup or an execution), `MaxRaces` (toggles between the query and the delete of
a replan) and `MaxExecs` bound what may go wrong. `OldestFirst` and
`PlannedWithinNeed` hold only while faults, overruns and races are zero, and say
so; the counterexamples below show what each of them breaks. Two processes are in
`Settlement_race` (below). With two processes and a kill `OldestFirst` fails,
which its comment says.

*PlanScheduler.* Two tasks compete, two dates carry from one to the next, two
periods of a date are filled in turn; periods of three minutes with a limit of two
tell the limit from the window and put deadlines inside a period. Any whole minute
may be a deadline or the clock in the code; the instances choose those that fall
inside, at the end of and after periods.

*AccountDeletion.* One writer is any transaction beside the calls, two give a
deletion that meets another deletion's effects and a later transaction.

*AppSync.* One execution suffices for the watch, its loss and its resumption;
`AppSync_retry` has two.

Deadlock is checked where the system cannot rest: in Settlement (a boundary
always comes), AccountDeletion (a call can always be repeated) and AppSync (the
user can always act). Elsewhere the system may stop: with no user the server
rests, and a run of the scheduler ends.

### Violations

`SolarExecution_retry`: a job commits FAILED and leaves `_pending` only later, in
the `finally` of `_run`. A retry that commits EXECUTING in between is registered
into a set that still holds the id and dropped. Later calls find EXECUTING and
answer idempotently, delete refuses, and nothing happens until the server
restarts. `Settlement_lostcheck`: settlement selects the PLANNED rows of the
period that has just begun without locking them; a check that commits before
they are deleted by id is lost.

### More runs to do by hand

These configurations are kept beside the listed runs. Two of them pass:
`Settlement_race` (two processes of the worker, none killed, one execution:
`OldestFirst` and `PlannedWithinNeed`, which section 5 proves for any number) and `AppSync_retry` (both first screens, two attempts;
2.0M states). Each of the others checks one statement and ends in a behaviour of
the code that contradicts it:

| Configuration | What happens |
|---|---|
| `Settlement_stranded` | after two errors and a kill a settlement leaves an open check-in none of whose blocks can be settled; `_finalize_settlement` raises its RuntimeError (`check_in_settlement_service.py:320`) on every retry, so due periods need not settle once errors are allowed |
| `Settlement_ended` | the last evening is settled although an older period failed; that one's blocks stay PLANNED or CHECKED in an ENDED cycle, which the scan skips |
| `Settlement_late` | an execution whose clock was read before a boundary plans into a period that is settled meanwhile |
| `SolarConversation_unreadable` | a free edit that names no single card stores its candidates under the key of cards; an answer that is again not single stores them under the key of entities and keeps the kind, so the next message finds no candidates |
| `SolarConversation_ambiguous` | an answer that resolves a card *and* says the change is looked up among the entities and refused, although the card exists |
| `SolarConversation_twice` | a first message that names one entity in two lines gives it two cards, and execution stops at the second |
| `SolarConversation_inverted` | a start given after the end, in a message of its own, is not compared with it, and a schedule that ends when or before it starts reaches the review |
| `SolarConversation_crash` | an update that leaves one time of a schedule open compares it with None inside the write transaction: the call answers 500 |
| `SolarConversation_endedcycle` | an answer is applied after the cycle it was given about has ended; execution refuses the request later |
| `PlanScheduler_unplaced` | minutes come back as unplaced although an earlier date has room, because a date takes no more than its quota and what it carries |
| `AppSync_boundary` | `reset()` clears the timer of the period boundaries (`M src/features/app-sync/app-sync-context.tsx:302`) and signing in again starts none, so the refresh `src/docs/ai/IMPLEMENTATION_CONTEXT.md:212` describes stops until the app has been in the background |
| `AppSync_signedout` | the answer to an execute call that arrives after the session has expired starts a watch, although a reset is said to drop the ownership of stale responses (`src/docs/ai/AI_USAGE_LOG.md:71`) |
| `AppSync_oldattempt` | a poll read before a retry and answered after it shows the old result until the next poll, as events are compared by request and not by attempt |

Read but not run: the update of a schedule may ask for an end and not write the
answer (`IMPLEMENTATION_CONTEXT.md:278`); `ExecutionTerminalTracker` never
answers false; a reload that the stale-epoch effect starts on a terminal poll is
discarded by the event effect of the same render; a failed sync or load on
return to the front leaves polling stopped until the user acts (`missed`); the
app handles `REQUEST_ALREADY_EXECUTING`, which this server never sends.

### Fairness

`SolarExecution.FairSpec` asks weak fairness of recovery, of an API thread that is
about to register, and of each job: these are threads that only wait for the
database. Nothing is asked of users, operators, failures or restarts. Weak
fairness of a queued job is enough because the pool is first in first out and jobs
end. `RecoveryResolves` speaks of a process that recovers alone: beside another
one its job may find the request locked by a worker that decides nothing.

`Settlement.FairSpec` asks it of time (`Tick`), of the worker's thread and of the
thread of an execution. Nothing restarts a process: `DuePeriodsSettle` excepts the
case that all of them stay down, and starts when no more kills come.

`AccountDeletion.RepeatingSpec` asks weak fairness of calls and transactions,
strong fairness of an insert that waits for the profile (the database grants a
lock in the order of asking), and that the user repeats the call, as the
docstring of the service asks for after a failure.

`AppSync.FairSpec`: timers fire, React renders, loads and syncs are answered or
fail, executions end; a poll may fail, but not for ever (strong fairness, as it is
sent again and again). The user owes nothing, nor does the answer to an action.

## 5. Proofs

All theorems hold for every value of the constants that satisfies the named
assumptions of the module, so for any number of users, threads, tasks and periods.

`SolarExecutionProofs`, from the assumptions that every request has an owner and
that `NoProc` and `NoCycle` are not among the processes and requests:

* `TypeCorrect`; `WorkersExclusive`, `AttemptsOwned`, `EffectsOnce`,
  `CyclesCreated` from one inductive invariant, `ExecutionInv`. It adds two facts
  to the properties: `LockHeld` (a job past the lock is its holder, which makes
  exclusion inductive) and `ExecutedIffCompleted` (cards and status change
  together, which makes a second effect impossible even when the lock is lost);
* `ImplementsExecutionContract`: each action maps to a step of the contract or
  to a stutter. `ExecuteCommits` is the case that needs the invariant: it must
  not start from COMPLETED;
* `FirstAttemptsHaveWorkers` from a second invariant in four parts, each proved
  inductive by itself: `MemoryInv` (a process that is down has no memory),
  `DispatcherInv` (an id in `_pending` has a job while nothing has failed),
  `AttemptInv` (before a first attempt nothing runs, and during it one source of
  work exists at a time) and `DoneInv` (a job that unlocks has decided).

`SolarConversationProofs`, from the assumptions of `SolarConversation`, which say
that threads are finitely many and that the bound on cycles is not zero:

* `EventsOnce`: the write transaction is the only step that counts a message,
  and it adds an event it has checked to be new;
* `ReviewsComplete` and `ImplementsConversationContract` from `ConversationInv`:
  an answer never leads to a review while a card misses something. What carries
  the argument is that every write ends in `Recompute` or asks a question
  (`RecomputeTells`, `AdvanceTells`, `OutcomesTell`); what a thread keeps
  of its read transaction is part of the invariant (`CallsAnswer`).
* `TypeCorrect`, `RowsAccepted`, `CollectingGoesOn`, `NewTasksComplete`,
  `UpdatesWriteWhatTheyAsk` from `CardsInv`, which is about a row (`CardFits`), the
  rows (`RowsFit`), the question (`Asks`), what each thread keeps while its model
  is asked (`CallFits`) and the entities (`CycleFits`). It has one lemma for
  each operator on a draft, up to `OutcomesFit` for every answer that the parsers
  let through. What is inductive is stronger than what is checked: a marked new card
  misses its totals and nothing else, and the field asked is one that is missing.
  That `TypeOK` bounds the counters needs a count of threads (`CountersFit`).
* `AnswersFitQuestions`, the action property `AnswersItsQuestion`. For a card the
  write transaction compares enough: the pending question of the card at the cursor is
  what the last message asks (`Asks`), and the answer gives its field or nothing
  (`GivesOnly`). For the totals of a recurring task it looks only at the
  marker of the card, not at the question; that this is enough is the invariant
  `QuestionsHeld`: the question goes on to another card only when the totals are
  given, which takes the marker away, and no later step sets one (`KeepsMarks`).
* `LaterMessagesMerge`: after the first message no step gives an entity a second
  card. `OneCardEach` states the checked property for first messages of at most
  one line; with two lines the first message itself may name an entity twice, which
  the code does not merge: the property is false there (`SolarConversation_twice.cfg`,
  section 4), and the run that checks it has `MaxLines` 1.

`SettlementProofs`, from the assumptions that the last evening is a natural number,
estimates are positive and `None` is no task and no process:

* `TypeCorrect`, `MinutesDeductedOnce`, `CyclesEndOnce`, `ResultsStay` from one
  invariant, `SettlementInv`, for any number of processes and of faults. A run
  works only on closed periods (`OnlyClosed`), so what it settles or replans lies
  before the next boundary. The second transaction of a settlement holds
  the cycle row (`OneSettlement`) and excludes every writer of blocks but the check
  toggle, so the rows a replan deletes by id are still PLANNED or CHECKED
  (`RowsUnsettled`): it cannot delete a result. Therefore a block becomes COMPLETED
  only in the commit that deducts its minutes (`SettledOnce`). Status and minutes
  fit each other (`StatusFitsMinutes`), so a cycle that ends has cancelled or
  completed every task, and nothing is planned on its last evening again.
* That a non-empty set of targets has an oldest one (`OldestExists`) is proved
  from the well-founded subset order of finite sets, as induction is not at hand.
* `SettledOldestFirst`, `PlansFitRemaining` and `ProcessesInStep`. `OldestFirst` and
  `PlannedWithinNeed` speak of `Timely` behaviours: no error, no overrun and no
  toggle inside a replan so far. In these `OrderInv` holds: what is final has
  nothing unsettled behind it (`ResultsInOrder`), an open check-in is of the oldest
  period with blocks to settle (`OpenIsOldest`), at most the period that has just
  ended is not settled when a block is checked (`ChecksRecent`), runs and
  executions see the current time (`ClocksTrue`, `ExecutionTrue`), and what lies
  behind the target of a replan is deleted by it or checked in the next period
  (`ReplansFit`). With it, the rows from now on stay within the remaining blocks
  (`PlansWithinNeed`). All of this is kept by any processes that catch up, and that
  they do is shown twice:
  * for one process, which may be killed and restarted, what is due is in the queue
    of the run that has scanned (`RunsCatchUp`), and a check-in that it has opened is
    open when its second transaction begins (`OpenedStaysOpen`);
  * for any number of processes that are not killed, one at least still has the
    period that has just ended before it (`NothingMissed`): no process leaves it
    before its check-in is opened, and then the one that opened it stays at it. A
    process that comes to a check-in of another one may finish it, or be refused by
    the CHECK constraint of `check_ins` because its own run began a little earlier;
    the one that opened it is never refused (`NoneRefused`).

  With a kill of one of several processes neither argument holds: what the killed
  one has opened stays open while the others, once refused, go on, and
  `OldestFirst` is false.

`PlanSchedulerProofs`, from the assumptions on the sizes of the grid:

* `TypeCorrect`: needs and rooms never go below zero; it rests on
  `AllocationBounds` (a block is at most what the task needs and the period has)
  and on the capacities being naturals (`CapacityType`);
* `BlocksInTime`, the part of `DoneInTime` about one block, and
  `NoneBesideChecked`, from `PlacementInv`;
* `PlacementImplemented`: a turn of the task loop is a step of the contract, the
  other loops are stutters. The order of time needs the invariant that nothing is
  planned after the period the loops are in (`Untouched`);
* `AllDoneInTime` from `UrgencyInv`: within a period tasks take their turn in the
  order of their deadlines (`UrgentFirst`), and the room that is left and the blocks
  planned are together what the period has (`RoomAccounts`);
* `NothingForgotten` from `CarryInv`: within a date, what is left is what the date
  owes and the quotas of later dates (`DayAccounts`); at the end of a date the
  quotas of the dates split into that date and the rest (`QuotaOfSplits`);
* `AmountsAreWhole` from `AmountsInv` and `SharesExact` below. It needs that a task
  with blocks checked now has a history, which the module assumes of its inputs: the
  query for history (`plan_block_service.py:909`) asks for all CHECKED or COMPLETED
  blocks of the tasks, the query for checked ones (`:887`) for their CHECKED blocks
  in the current period.

`PlanArithmeticProofs` is about the pure functions, for inputs of any size:

* `TaskQuotasAddUp`: the quotas of a task add up to its need. The first `need % n`
  dates get a minute more, so the proof counts the dates before one (`RanksCount`)
  and shows that every rank is some date's (`RankReached`).
* `SharesExact`: largest remainder gives out an amount in full, with a unit for each
  block and never fewer for a longer one. The floors leave less than one unit per
  block, so every extra unit has a block of its own (`RemaindersAddUp`); a longer
  block has a larger floor, or the same floor and a larger remainder
  (`LongerGetsMore`).
* `DatesEvenlySpaced`: the chosen dates are the floors of the multiples of `n / count`,
  which grow by one of two neighbouring numbers (`StepsEven`), so each gap is a step
  and the last one ends at `n` (`GapsEven`).
* `MinutesCountedOnce`: after each interval of the sorted list, the sum and the open
  run are together the minutes covered so far, those of the sum before the run
  (`RunFits`); at the end this counts the union (`MergedCounts`).
* `DivisionsAreExact`, `UnionsCountOnce`: hence every question of `PlanQuestions`
  is answered as it is meant, within any bounds.

`AccountDeletionProofs`:

* `TypeCorrect`, `NeverConflicts`, `GoneForGood` from one invariant: one call at a
  time deletes, and none while an insert is open (`LocksExclude`); what has no
  profile has no rows and no insert under way (`NoOrphans`); a call has emptied the
  tables before its next statement (`Progress`); a transaction that goes on is one
  of those that insert rows (`WritesKnown`); a profile has its Auth account, and a
  reported deletion has none (`AccountFollows`). `OrderFits` is the fact about the
  code that they rest on: no table is deleted before the tables that refer to it.

`AppSyncProofs`, from the assumption that the markers for "nothing" (`None`, `Unread`,
`Failed`) are no values of the model:

* `TypeCorrect` and `NewsOnTheWay` from `PollInv`. A timer runs and a poll is in
  flight only for a request that is watched (`WatchFits`), so watching it again,
  which does nothing when the watch is on and complete, is enough. What the
  screen shows was rendered from a state whose update started the watch
  (`RenderFits`, `NewsComes`), and what stops the watch leaves the screen stale:
  its next effect loads (`TabsFit`, `BootLoads`);
* `LoadsAreNews` from `LoadInv`: nothing the app holds is ahead of the server
  (`NothingAhead`), so a load in flight is behind only what the app has learned
  since, and whatever teaches the app something drops the load.

`FoldFacts` proves what the sums and the list operations rest on. The folds of the
community modules recurse on the subsets of a finite set, which the library's
induction theorems cannot handle, as they take an operator as a parameter. The module
has the operation and the property as CONSTANTS instead, and proves induction
on them from the well-founded subset order; who needs a fact writes
`Adding == INSTANCE FoldFacts WITH Op <- Plus, Good <- IsInteger` and cites
`Adding!UnfoldsOnce`. The fold of a list is a chain of values, one per prefix, each
made of the one before (`FoldLeftSteps`), so that an invariant of the chain can be
carried along it with `CountUp`.

Every safety property of the passing runs is stated by one of these theorems. Only
model-checked:

* all liveness (`RecoveryResolves`, `DuePeriodsSettle`, `DeletionCompletes`,
  `ScreenCatchesUp`), which with fairness is beyond the prover, and the violations;
* `PlannedWithinNeed` with several processes and a kill, which TLC finds to hold for
  two processes and one kill. `OldestFirst` is false there;
* nothing is proved of `OneCardPerTarget` with longer first messages, where it is
  false.

## 6. Not modelled

* Check-in acknowledgement: one transaction that nothing else depends on. Two
  acknowledgements of different results lock their rows in different orders; the
  database aborts one (read, not modelled).
* The rows an execution creates from cards, beyond minutes and status: titles,
  amounts, fixed schedules and new tasks of an ACTIVE_CYCLE execution. The
  `reschedule_plan_block` operation has no caller.
* Read models: queries without state, apart from the deadline-warning
  acknowledgement and the profile name.
* AI clients: prompts, HTTP and parsing; what they let through is the input of
  `SolarConversation`.
* Authentication, configuration, routing, migrations: no state of their own; the
  constraints of the schema are in the modules.
* The app's home screen, calendar, settings, chat view and withdrawal screen. The
  home screen shares one load in flight between a focus and an acknowledgement,
  and a load read before a toggle may show the old check until the next one
  (read, not modelled). Epochs of other screens and the token refresh inside a
  bootstrap call are left out of `AppSync`.
* Content, wording and layout of messages, cards, plans and results.

`PROJECT.json` gives the reason for each component and the line of each hazard.
