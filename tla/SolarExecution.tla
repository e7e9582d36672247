---------------------------- MODULE SolarExecution ----------------------------
(***************************************************************************)
(* Execution of SOLAR requests: execute/retry/delete/acknowledge in the    *)
(* API (services/solar_request_service.py), the per-process dispatcher and *)
(* its thread pool, the worker that runs one request under a session-level *)
(* advisory lock (workers/solar_execution_worker.py), server restarts with *)
(* startup recovery, and the effect an execution commits                   *)
(* (services/new_cycle_execution_service.py and                            *)
(* services/active_cycle_execution_service.py).                            *)
(*                                                                         *)
(* A planning cycle is named by the request that created it.  What an      *)
(* execution writes inside its one transaction is a single step: it holds  *)
(* the user's transaction lock and ends in one commit.                     *)
(***************************************************************************)
EXTENDS Integers, FiniteSets

CONSTANTS
  Users,
  Requests,
  Owner,        \* the user of each request
  Procs,        \* server processes sharing the database
  NoProc,
  NoCycle,
  PoolSize,     \* ThreadPoolExecutor(max_workers)
  MaxAttempts,  \* bound: attempts per request
  MaxFaults,    \* bound: infrastructure errors
  MaxCrashes,   \* bound: process kills
  MaxLockLosses \* bound: advisory-lock connections dropped by the network

ASSUME OwnerAssumption == Owner \in [Requests -> Users]
ASSUME NoProcAssumption == NoProc \notin Procs
ASSUME NoCycleAssumption == NoCycle \notin Requests

VARIABLES
  \* the database
  status,       \* solar_requests.status; ACKED: COMPLETED and acknowledged
  target,       \* solar_requests.plan_cycle_id; NoCycle: purpose NEW_CYCLE
  attempt,      \* solar_requests.execution_attempt_count
  executed,     \* every solar_request_items row of the request is EXECUTED
  activeCycle,  \* the ACTIVE planning cycle of each user
  applied,      \* history: committed executions of each request
  lock,         \* process whose session holds the request's advisory lock
  \* each server process
  mode,
  recovering,   \* ids startup recovery has read and not yet registered
  registering,  \* API threads between the commit and dispatcher.register
  pending,      \* SolarExecutionDispatcher._pending
  pc,           \* where the job of a request is in the process's pool
  seen,         \* the attempt a running job read from the database
  \* what went wrong so far
  faults, crashes, lockLosses

dbVars == <<status, target, attempt, executed, activeCycle, applied>>
procVars == <<mode, recovering, registering>>
jobVars == <<pending, pc, seen>>
faultVars == <<faults, crashes, lockLosses>>
vars == <<dbVars, lock, procVars, jobVars, faultVars>>

Status == {"ABSENT", "FINAL_REVIEW", "EXECUTING", "FAILED", "COMPLETED",
           "ACKED", "DELETED"}
Mode == {"down", "recovering", "serving", "draining"}
JobState == {"idle", "queued", "locking", "locked", "executing", "failing",
             "unlocking", "leaving"}

\* Requests the partial unique index counts as the user's current request.
Current(r) == status[r] \in {"FINAL_REVIEW", "EXECUTING", "FAILED", "COMPLETED"}

\* States in which a job believes that it holds the advisory lock.
InLock == {"locked", "executing", "failing", "unlocking"}
\* States in which a job has read the request and not yet recorded an outcome.
InAttempt == {"executing", "failing"}
\* States of a job that has yet to decide the request.
Undecided == {"queued", "locking", "locked", "executing", "failing"}
Running == JobState \ {"idle", "queued"}

TypeOK ==
  /\ status \in [Requests -> Status]
  /\ target \in [Requests -> Requests \cup {NoCycle}]
  /\ attempt \in [Requests -> Nat]
  /\ executed \in [Requests -> BOOLEAN]
  /\ activeCycle \in [Users -> Requests \cup {NoCycle}]
  /\ applied \in [Requests -> Nat]
  /\ lock \in [Requests -> Procs \cup {NoProc}]
  /\ mode \in [Procs -> Mode]
  /\ recovering \in [Procs -> SUBSET Requests]
  /\ registering \subseteq Procs \X Requests \X Nat
  /\ pending \in [Procs -> SUBSET Requests]
  /\ pc \in [Procs -> [Requests -> JobState]]
  /\ seen \in [Procs -> [Requests -> Nat]]
  /\ faults \in Nat /\ crashes \in Nat /\ lockLosses \in Nat

Init ==
  /\ status = [r \in Requests |-> "ABSENT"]
  /\ target = [r \in Requests |-> NoCycle]
  /\ attempt = [r \in Requests |-> 0]
  /\ executed = [r \in Requests |-> FALSE]
  /\ activeCycle = [u \in Users |-> NoCycle]
  /\ applied = [r \in Requests |-> 0]
  /\ lock = [r \in Requests |-> NoProc]
  /\ mode = [p \in Procs |-> "down"]
  /\ recovering = [p \in Procs |-> {}]
  /\ registering = {}
  /\ pending = [p \in Procs |-> {}]
  /\ pc = [p \in Procs |-> [r \in Requests |-> "idle"]]
  /\ seen = [p \in Procs |-> [r \in Requests |-> 0]]
  /\ faults = 0 /\ crashes = 0 /\ lockLosses = 0

Fault == faults < MaxFaults /\ faults' = faults + 1 /\ UNCHANGED <<crashes, lockLosses>>
NoFault == UNCHANGED faultVars

-------------------------------------------------------------------------------
(* The API.  A handler is one transaction under the request's row lock.     *)

\* The conversation, from creation to FINAL_REVIEW, in one step: the purpose
\* follows from the ACTIVE cycle and the unique index admits one current
\* request per user.
Prepare(r) ==
  /\ status[r] = "ABSENT"
  /\ \E p \in Procs : mode[p] = "serving"
  /\ \A s \in Requests : Owner[s] = Owner[r] => ~Current(s)
  /\ status' = [status EXCEPT ![r] = "FINAL_REVIEW"]
  /\ target' = [target EXCEPT ![r] = activeCycle[Owner[r]]]
  /\ UNCHANGED <<attempt, executed, activeCycle, applied, lock, procVars, jobVars, faultVars>>

\* A NEW_CYCLE request needs the absence of an ACTIVE cycle, an ACTIVE_CYCLE
\* request the cycle it was made for.
CycleMatches(r) == activeCycle[Owner[r]] = target[r]

\* execute (from FINAL_REVIEW) and retry (from FAILED): a refused call changes
\* nothing; the call that makes the transition registers after its commit.
StartExecution(p, r) ==
  /\ mode[p] = "serving"
  /\ status[r] \in {"FINAL_REVIEW", "FAILED"}
  /\ CycleMatches(r)
  /\ attempt[r] < MaxAttempts
  /\ status' = [status EXCEPT ![r] = "EXECUTING"]
  /\ attempt' = [attempt EXCEPT ![r] = @ + 1]
  /\ registering' = registering \cup {<<p, r, attempt[r] + 1>>}
  /\ UNCHANGED <<target, executed, activeCycle, applied, lock, mode, recovering, jobVars, faultVars>>

\* Mutant of DeleteRequest: a finished request can be deleted.
DeleteFinished(r) ==
  /\ \E p \in Procs : mode[p] = "serving"
  /\ status[r] \in {"FINAL_REVIEW", "FAILED", "COMPLETED"}
  /\ status' = [status EXCEPT ![r] = "DELETED"]
  /\ UNCHANGED <<target, attempt, executed, activeCycle, applied, lock, procVars, jobVars, faultVars>>

DeleteRequest(r) ==
  /\ \E p \in Procs : mode[p] = "serving"
  /\ status[r] \in {"FINAL_REVIEW", "FAILED"}
  /\ status' = [status EXCEPT ![r] = "DELETED"]
  /\ UNCHANGED <<target, attempt, executed, activeCycle, applied, lock, procVars, jobVars, faultVars>>

\* Mutant of AcknowledgeResult: the screen mode is stored as the status.
AcknowledgeAsScreenMode(r) ==
  /\ \E p \in Procs : mode[p] = "serving"
  /\ status[r] = "COMPLETED"
  /\ status' = [status EXCEPT ![r] = "EXECUTION_SUCCESS"]
  /\ UNCHANGED <<target, attempt, executed, activeCycle, applied, lock, procVars, jobVars, faultVars>>

AcknowledgeResult(r) ==
  /\ \E p \in Procs : mode[p] = "serving"
  /\ status[r] = "COMPLETED"
  /\ status' = [status EXCEPT ![r] = "ACKED"]
  /\ UNCHANGED <<target, attempt, executed, activeCycle, applied, lock, procVars, jobVars, faultVars>>

\* Settlement of the last evening ends the user's cycle.
EndCycle(u) ==
  /\ activeCycle[u] # NoCycle
  /\ activeCycle' = [activeCycle EXCEPT ![u] = NoCycle]
  /\ UNCHANGED <<status, target, attempt, executed, applied, lock, procVars, jobVars, faultVars>>

-------------------------------------------------------------------------------
(* The dispatcher.                                                          *)

\* dispatcher.register: a request already in _pending is dropped silently,
\* any other is added and submitted to the pool.
Register(p, r) ==
  IF r \in pending[p]
  THEN UNCHANGED <<pending, pc>>
  ELSE /\ pending' = [pending EXCEPT ![p] = @ \cup {r}]
       /\ pc' = [pc EXCEPT ![p][r] = "queued"]

\* The API thread registers after its commit.
RegisterAfterCommit(p, r, n) ==
  /\ <<p, r, n>> \in registering
  /\ registering' = registering \ {<<p, r, n>>}
  /\ Register(p, r)
  /\ NoFault
  /\ UNCHANGED <<dbVars, lock, mode, recovering, seen>>

\* pool.submit raises after _pending.add: the error is logged, the id stays in
\* _pending and no job exists.
RegisterRaises(p, r, n) ==
  /\ <<p, r, n>> \in registering
  /\ registering' = registering \ {<<p, r, n>>}
  /\ pending' = [pending EXCEPT ![p] = @ \cup {r}]
  /\ r \notin pending[p]
  /\ Fault
  /\ UNCHANGED <<dbVars, lock, mode, recovering, pc, seen>>

-------------------------------------------------------------------------------
(* Server start, startup recovery, shutdown and crash.                      *)

\* Lifespan: recovery reads the EXECUTING ids before the API serves.
StartProcess(p) ==
  /\ mode[p] = "down"
  /\ mode' = [mode EXCEPT ![p] = "recovering"]
  /\ recovering' = [recovering EXCEPT ![p] = {r \in Requests : status[r] = "EXECUTING"}]
  /\ UNCHANGED <<dbVars, lock, registering, jobVars, faultVars>>

RecoverOne(p, r) ==
  /\ r \in recovering[p]
  /\ recovering' = [recovering EXCEPT ![p] = @ \ {r}]
  /\ Register(p, r)
  /\ NoFault
  /\ UNCHANGED <<dbVars, lock, mode, registering, seen>>

\* A failed scan is logged and the server serves without the rest of it.
RecoveryFails(p) ==
  /\ mode[p] = "recovering"
  /\ mode' = [mode EXCEPT ![p] = "serving"]
  /\ recovering' = [recovering EXCEPT ![p] = {}]
  /\ Fault
  /\ UNCHANGED <<dbVars, lock, registering, jobVars>>

RecoveryDone(p) ==
  /\ mode[p] = "recovering"
  /\ recovering[p] = {}
  /\ mode' = [mode EXCEPT ![p] = "serving"]
  /\ UNCHANGED <<dbVars, lock, recovering, registering, jobVars, faultVars>>

\* Mutant of Drain: shutdown(cancel_futures=True).
DrainCancelling(p) ==
  /\ mode[p] = "serving"
  /\ \A x \in registering : x[1] # p
  /\ mode' = [mode EXCEPT ![p] = "draining"]
  /\ pc' = [pc EXCEPT ![p] = [r \in Requests |-> IF @[r] = "queued" THEN "idle" ELSE @[r]]]
  /\ UNCHANGED <<dbVars, lock, recovering, registering, pending, seen, faultVars>>

\* Graceful shutdown: the handlers in flight end first, then
\* pool.shutdown(wait=True) runs every submitted job to its end.
Drain(p) ==
  /\ mode[p] = "serving"
  /\ \A x \in registering : x[1] # p
  /\ mode' = [mode EXCEPT ![p] = "draining"]
  /\ UNCHANGED <<dbVars, lock, recovering, registering, jobVars, faultVars>>

Stopped(p) ==
  /\ mode[p] = "draining"
  /\ \A r \in Requests : pc[p][r] = "idle"
  /\ mode' = [mode EXCEPT ![p] = "down"]
  /\ pending' = [pending EXCEPT ![p] = {}]
  /\ UNCHANGED <<dbVars, lock, recovering, registering, pc, seen, faultVars>>

\* A kill: everything in memory is gone, open transactions roll back and the
\* sessions of the process, with their advisory locks, end.
Crash(p) ==
  /\ mode[p] # "down"
  /\ crashes < MaxCrashes
  /\ crashes' = crashes + 1
  /\ mode' = [mode EXCEPT ![p] = "down"]
  /\ recovering' = [recovering EXCEPT ![p] = {}]
  /\ registering' = {x \in registering : x[1] # p}
  /\ pending' = [pending EXCEPT ![p] = {}]
  /\ pc' = [pc EXCEPT ![p] = [r \in Requests |-> "idle"]]
  /\ seen' = [seen EXCEPT ![p] = [r \in Requests |-> 0]]
  /\ lock' = [r \in Requests |-> IF lock[r] = p THEN NoProc ELSE lock[r]]
  /\ UNCHANGED <<dbVars, faults, lockLosses>>

-------------------------------------------------------------------------------
(* The worker of request r in process p.                                    *)

Goto(p, r, from, to) == pc[p][r] = from /\ pc' = [pc EXCEPT ![p][r] = to]

\* A pool thread takes the job.
Dequeue(p, r) ==
  /\ Cardinality({s \in Requests : pc[p][s] \in Running}) < PoolSize
  /\ Goto(p, r, "queued", "locking")
  /\ UNCHANGED <<dbVars, lock, procVars, pending, seen, faultVars>>

\* Mutant of Lock: the result of pg_try_advisory_lock is ignored.
LockIgnored(p, r) ==
  /\ Goto(p, r, "locking", "locked")
  /\ lock' = [lock EXCEPT ![r] = p]
  /\ UNCHANGED <<dbVars, procVars, pending, seen, faultVars>>

\* pg_try_advisory_lock
Lock(p, r) ==
  /\ lock[r] = NoProc
  /\ Goto(p, r, "locking", "locked")
  /\ lock' = [lock EXCEPT ![r] = p]
  /\ UNCHANGED <<dbVars, procVars, pending, seen, faultVars>>

\* Another session holds it: the job returns without a trace.
LockBusy(p, r) ==
  /\ lock[r] # NoProc
  /\ Goto(p, r, "locking", "leaving")
  /\ UNCHANGED <<dbVars, lock, procVars, pending, seen, faultVars>>

\* The connection for the lock cannot be made.
LockFails(p, r) ==
  /\ Goto(p, r, "locking", "leaving")
  /\ Fault
  /\ UNCHANGED <<dbVars, lock, procVars, pending, seen>>

\* The execution transaction begins and reads the request, without a row lock.
ReadRequest(p, r) ==
  /\ status[r] = "EXECUTING"
  /\ Goto(p, r, "locked", "executing")
  /\ seen' = [seen EXCEPT ![p][r] = attempt[r]]
  /\ UNCHANGED <<dbVars, lock, procVars, pending, faultVars>>

\* Any other status: nothing to do.
SkipRequest(p, r) ==
  /\ status[r] # "EXECUTING"
  /\ Goto(p, r, "locked", "unlocking")
  /\ UNCHANGED <<dbVars, lock, procVars, pending, seen, faultVars>>

\* Mutant of CanComplete: cards already EXECUTED are executed again.
CanCompleteAgain(r) ==
  /\ CycleMatches(r)
  /\ status[r] \in {"EXECUTING", "COMPLETED"}

\* Success needs the cycle the request is for, cards that are all READY, and a
\* row that accepts COMPLETED: a FAILED row still carries error_code, which the
\* completed_state_consistency CHECK refuses, and a deleted row is gone.
CanComplete(r) ==
  /\ CycleMatches(r)
  /\ ~executed[r]
  /\ status[r] \in {"EXECUTING", "COMPLETED"}

\* Plan, cards EXECUTED and request COMPLETED in one commit.
ExecuteCommits(p, r) ==
  /\ CanComplete(r)
  /\ Goto(p, r, "executing", "unlocking")
  /\ status' = [status EXCEPT ![r] = "COMPLETED"]
  /\ executed' = [executed EXCEPT ![r] = TRUE]
  /\ applied' = [applied EXCEPT ![r] = @ + 1]
  /\ activeCycle' = IF target[r] = NoCycle
                    THEN [activeCycle EXCEPT ![Owner[r]] = r]
                    ELSE activeCycle
  /\ seen' = [seen EXCEPT ![p][r] = 0]
  /\ UNCHANGED <<target, attempt, lock, procVars, pending, faultVars>>

\* Mutant of ExecuteFails: the lock is released before FAILED is recorded.
ExecuteFailsUnlocking(p, r) ==
  /\ Goto(p, r, "executing", "failing")
  /\ lock' = [lock EXCEPT ![r] = IF @ = p THEN NoProc ELSE @]
  /\ UNCHANGED <<dbVars, procVars, pending, seen, faultVars>>

\* Any exception inside the execution rolls back and becomes a domain failure.
ExecuteFails(p, r) ==
  /\ Goto(p, r, "executing", "failing")
  /\ UNCHANGED <<dbVars, lock, procVars, pending, seen, faultVars>>

\* Mutant of FinalizeAsFailed: the UPDATE has no WHERE status = EXECUTING.
FinalizeUnconditionally(p, r) ==
  /\ Goto(p, r, "failing", "unlocking")
  /\ status' = [status EXCEPT ![r] = "FAILED"]
  /\ seen' = [seen EXCEPT ![p][r] = 0]
  /\ UNCHANGED <<target, attempt, executed, activeCycle, applied, lock, procVars, pending, faultVars>>

\* Mutant of FinalizeAsFailed: FAILED is written in the transaction that rolls
\* back.
FinalizeRolledBack(p, r) ==
  /\ Goto(p, r, "failing", "unlocking")
  /\ seen' = [seen EXCEPT ![p][r] = 0]
  /\ UNCHANGED <<dbVars, lock, procVars, pending, faultVars>>

\* _finalize_as_failed: a transaction of its own, only if still EXECUTING.
FinalizeAsFailed(p, r) ==
  /\ Goto(p, r, "failing", "unlocking")
  /\ status' = IF status[r] = "EXECUTING" THEN [status EXCEPT ![r] = "FAILED"] ELSE status
  /\ seen' = [seen EXCEPT ![p][r] = 0]
  /\ UNCHANGED <<target, attempt, executed, activeCycle, applied, lock, procVars, pending, faultVars>>

\* The session, the read, the commit or the FAILED record hits an
\* infrastructure error: it is logged and the request keeps its status.
WorkerInfraError(p, r) ==
  /\ pc[p][r] \in {"locked", "executing", "failing"}
  /\ pc' = [pc EXCEPT ![p][r] = "unlocking"]
  /\ seen' = [seen EXCEPT ![p][r] = 0]
  /\ Fault
  /\ UNCHANGED <<dbVars, lock, procVars, pending>>

\* pg_advisory_unlock; when it fails the connection, and with it the lock, is
\* dropped.
Unlock(p, r) ==
  /\ Goto(p, r, "unlocking", "leaving")
  /\ lock' = [lock EXCEPT ![r] = IF @ = p THEN NoProc ELSE @]
  /\ UNCHANGED <<dbVars, procVars, pending, seen, faultVars>>

\* finally: _pending.discard
Leave(p, r) ==
  /\ Goto(p, r, "leaving", "idle")
  /\ pending' = [pending EXCEPT ![p] = @ \ {r}]
  /\ UNCHANGED <<dbVars, lock, procVars, seen, faultVars>>

\* The idle lock connection is dropped under a running job, which goes on.
LockLost(p, r) ==
  /\ lock[r] = p
  /\ lockLosses < MaxLockLosses
  /\ lockLosses' = lockLosses + 1
  /\ lock' = [lock EXCEPT ![r] = NoProc]
  /\ UNCHANGED <<dbVars, procVars, jobVars, faults, crashes>>

WorkerStep(p, r) ==
  \/ Dequeue(p, r) \/ Lock(p, r) \/ LockBusy(p, r)
  \/ ReadRequest(p, r) \/ SkipRequest(p, r)
  \/ ExecuteCommits(p, r) \/ ExecuteFails(p, r) \/ FinalizeAsFailed(p, r)
  \/ Unlock(p, r) \/ Leave(p, r)

WorkerTrouble(p, r) == LockFails(p, r) \/ WorkerInfraError(p, r) \/ LockLost(p, r)

UserStep ==
  \/ \E r \in Requests : Prepare(r) \/ DeleteRequest(r) \/ AcknowledgeResult(r)
  \/ \E p \in Procs, r \in Requests : StartExecution(p, r)
  \/ \E u \in Users : EndCycle(u)

RegisterStep(p) == \E r \in Requests, n \in 1..MaxAttempts : RegisterAfterCommit(p, r, n)

RecoveryStep(p) == RecoveryDone(p) \/ \E r \in Requests : RecoverOne(p, r)

ProcessStep ==
  \E p \in Procs :
    \/ StartProcess(p) \/ RecoveryStep(p) \/ RecoveryFails(p)
    \/ Drain(p) \/ Stopped(p) \/ Crash(p) \/ RegisterStep(p)
    \/ \E r \in Requests, n \in 1..MaxAttempts : RegisterRaises(p, r, n)

Next ==
  \/ UserStep
  \/ ProcessStep
  \/ \E p \in Procs, r \in Requests : WorkerStep(p, r) \/ WorkerTrouble(p, r)

Spec == Init /\ [][Next]_vars

\* Threads that can run do run; users, operators and failures owe nothing.
Fairness ==
  \A p \in Procs :
    /\ WF_vars(RecoveryStep(p))
    /\ WF_vars(RegisterStep(p))
    /\ \A r \in Requests : WF_vars(WorkerStep(p, r))

FairSpec == Spec /\ Fairness

-------------------------------------------------------------------------------
(* Properties.                                                              *)

\* The effect of a request is committed exactly once if it completed and never
\* otherwise: no attempt that failed, was repeated by recovery or by a second
\* worker after its lock connection dropped leaves or doubles an effect.
AppliedOnce ==
  \A r \in Requests :
    applied[r] = IF status[r] \in {"COMPLETED", "ACKED"} THEN 1 ELSE 0

\* The cards of a request are EXECUTED exactly when the request completed.
ExecutedIffCompleted ==
  \A r \in Requests : executed[r] <=> status[r] \in {"COMPLETED", "ACKED"}

\* A job past the lock is the holder of the lock.
LockHeld ==
  lockLosses = 0 =>
    \A p \in Procs, r \in Requests : pc[p][r] \in InLock => lock[r] = p

\* requestId advisory lock: with no lock connection lost, two processes are
\* never both inside the locked part of the worker for one request.
SingleWorker ==
  lockLosses = 0 =>
    \A r \in Requests, p, q \in Procs :
      (pc[p][r] \in InLock /\ pc[q][r] \in InLock) => p = q

\* What a worker read is not stale when it records an outcome: the request is
\* still EXECUTING and in the attempt the worker read, so a slow worker cannot
\* fail or complete a later retry.
WorkerOwnsAttempt ==
  lockLosses = 0 =>
    \A r \in Requests, p \in Procs :
      pc[p][r] \in InAttempt => status[r] = "EXECUTING" /\ attempt[r] = seen[p][r]

\* A user's ACTIVE cycle was created by a completed NEW_CYCLE request of that
\* user, whose effect it is.
CycleHasCreator ==
  \A u \in Users :
    LET c == activeCycle[u]
    IN  c # NoCycle =>
          /\ Owner[c] = u /\ target[c] = NoCycle
          /\ status[c] \in {"COMPLETED", "ACKED"} /\ executed[c]

\* Somebody is going to carry the request out: an API thread about to register
\* it, a recovery about to register it, or a job that will still read it.
HasWorker(r) ==
  \/ \E x \in registering : x[2] = r
  \/ \E p \in Procs : \/ r \in recovering[p]
                       \/ pc[p][r] \in Undecided

\* The first execution of a request is never left without a worker unless an
\* infrastructure error or a kill took it: registering after the commit, the
\* race of recovery with the API, and a shutdown lose nothing.
FirstAttemptHasWorker ==
  \A r \in Requests :
    (status[r] = "EXECUTING" /\ attempt[r] = 1 /\ faults = 0 /\ crashes = 0) => HasWorker(r)

\* Restart recovers: once no more failures come, a request that startup
\* recovery read leaves EXECUTING.  The process recovers alone: beside another
\* one its job may find the request locked by a worker that decides nothing.
RecoveryResolves ==
  \A p \in Procs, r \in Requests :
    (/\ r \in recovering[p]
     /\ faults = MaxFaults /\ crashes = MaxCrashes /\ lockLosses = MaxLockLosses
     /\ \A q \in Procs \ {p} : mode[q] = "down")
      ~> (status[r] # "EXECUTING")

\* IMPLEMENTATION_CONTEXT.md, 5: while a request is EXECUTING the server's work
\* goes on until COMPLETED or FAILED.  Every attempt, retries included, is
\* decided as long as the processes keep serving.
EveryAttemptResolves ==
  \A r \in Requests :
    status[r] = "EXECUTING"
      ~> (status[r] # "EXECUTING" \/ \E p \in Procs : mode[p] # "serving")

\* The execution machinery implements the contract the user is given.
ContractOf == INSTANCE ExecutionContract
  WITH Users <- Users, Requests <- Requests, Owner <- Owner,
       status <- status, attempt <- attempt, applied <- applied
ImplementsContract == ContractOf!Contract
===============================================================================
