------------------------- MODULE SolarExecutionProofs -------------------------
(***************************************************************************)
(* Theorems about SolarExecution, for any users, requests and processes    *)
(* and any bounds.                                                         *)
(***************************************************************************)
EXTENDS SolarExecution, TLAPS

\* What a registration does to the dispatcher's two structures.
LEMMA RegisterType ==
  ASSUME TypeOK, NEW p \in Procs, NEW r \in Requests, Register(p, r)
  PROVE  /\ pending' \in [Procs -> SUBSET Requests]
         /\ pc' \in [Procs -> [Requests -> JobState]]
<1>1. CASE r \in pending[p]
  BY <1>1 DEF TypeOK, Register
<1>2. CASE r \notin pending[p]
  <2>1. pending[p] \cup {r} \in SUBSET Requests
    BY DEF TypeOK
  <2>2. pending' \in [Procs -> SUBSET Requests]
    BY <1>2, <2>1 DEF TypeOK, Register
  <2>3. pc' \in [Procs -> [Requests -> JobState]]
    <3>1. "queued" \in JobState
      BY DEF JobState
    <3>2. pc[p] \in [Requests -> JobState]
      BY DEF TypeOK
    <3>3. [pc[p] EXCEPT ![r] = "queued"] \in [Requests -> JobState]
      BY <3>1, <3>2
    <3>4. pc' = [pc EXCEPT ![p] = [pc[p] EXCEPT ![r] = "queued"]]
      BY <1>2 DEF Register
    <3> QED
      BY <3>3, <3>4 DEF TypeOK
  <2> QED
    BY <2>2, <2>3
<1> QED
  BY <1>1, <1>2

\* Every step of the specification keeps the types.
LEMMA TypeStep == ASSUME TypeOK, [Next]_vars PROVE TypeOK'
<1> USE OwnerAssumption DEF TypeOK, Status, Mode, JobState, dbVars, procVars, jobVars, faultVars
<1>1. ASSUME NEW r \in Requests, Prepare(r) PROVE TypeOK'
  BY <1>1 DEF Prepare
<1>2. ASSUME NEW r \in Requests, DeleteRequest(r) PROVE TypeOK'
  BY <1>2 DEF DeleteRequest
<1>3. ASSUME NEW r \in Requests, AcknowledgeResult(r) PROVE TypeOK'
  BY <1>3 DEF AcknowledgeResult
<1>4. ASSUME NEW p \in Procs, NEW r \in Requests, StartExecution(p, r) PROVE TypeOK'
  <2>1. registering' \subseteq Procs \X Requests \X Nat
    <3>1. attempt[r] + 1 \in Nat
      OBVIOUS
    <3>2. <<p, r, attempt[r] + 1>> \in Procs \X Requests \X Nat
      BY <3>1
    <3> QED
      BY <1>4, <3>2 DEF StartExecution
  <2> QED
    BY <1>4, <2>1 DEF StartExecution
<1>5. ASSUME NEW u \in Users, EndCycle(u) PROVE TypeOK'
  BY <1>5 DEF EndCycle
<1>6. ASSUME NEW p \in Procs, StartProcess(p) PROVE TypeOK'
  BY <1>6 DEF StartProcess
<1>7. ASSUME NEW p \in Procs, NEW r \in Requests, RecoverOne(p, r) PROVE TypeOK'
  <2>1. pending' \in [Procs -> SUBSET Requests] /\ pc' \in [Procs -> [Requests -> JobState]]
    BY <1>7, RegisterType DEF RecoverOne
  <2> QED
    BY <1>7, <2>1 DEF RecoverOne, NoFault
<1>8. ASSUME NEW p \in Procs, RecoveryFails(p) PROVE TypeOK'
  BY <1>8 DEF RecoveryFails, Fault
<1>9. ASSUME NEW p \in Procs, RecoveryDone(p) PROVE TypeOK'
  BY <1>9 DEF RecoveryDone
<1>10. ASSUME NEW p \in Procs, Drain(p) PROVE TypeOK'
  BY <1>10 DEF Drain
<1>11. ASSUME NEW p \in Procs, Stopped(p) PROVE TypeOK'
  BY <1>11 DEF Stopped
<1>12. ASSUME NEW p \in Procs, Crash(p) PROVE TypeOK'
  BY <1>12 DEF Crash
<1>13. ASSUME NEW p \in Procs, NEW r \in Requests, NEW n \in 1..MaxAttempts, RegisterAfterCommit(p, r, n) PROVE TypeOK'
  <2>1. pending' \in [Procs -> SUBSET Requests] /\ pc' \in [Procs -> [Requests -> JobState]]
    BY <1>13, RegisterType DEF RegisterAfterCommit
  <2> QED
    BY <1>13, <2>1 DEF RegisterAfterCommit, NoFault
<1>14. ASSUME NEW p \in Procs, NEW r \in Requests, NEW n \in 1..MaxAttempts, RegisterRaises(p, r, n) PROVE TypeOK'
  BY <1>14 DEF RegisterRaises, Fault
<1>15. ASSUME NEW p \in Procs, NEW r \in Requests, Dequeue(p, r) PROVE TypeOK'
  BY <1>15 DEF Dequeue, Goto
<1>16. ASSUME NEW p \in Procs, NEW r \in Requests, Lock(p, r) PROVE TypeOK'
  BY <1>16 DEF Lock, Goto
<1>17. ASSUME NEW p \in Procs, NEW r \in Requests, LockBusy(p, r) PROVE TypeOK'
  BY <1>17 DEF LockBusy, Goto
<1>18. ASSUME NEW p \in Procs, NEW r \in Requests, LockFails(p, r) PROVE TypeOK'
  BY <1>18 DEF LockFails, Goto, Fault
<1>19. ASSUME NEW p \in Procs, NEW r \in Requests, ReadRequest(p, r) PROVE TypeOK'
  BY <1>19 DEF ReadRequest, Goto
<1>20. ASSUME NEW p \in Procs, NEW r \in Requests, SkipRequest(p, r) PROVE TypeOK'
  BY <1>20 DEF SkipRequest, Goto
<1>21. ASSUME NEW p \in Procs, NEW r \in Requests, ExecuteCommits(p, r) PROVE TypeOK'
  BY <1>21 DEF ExecuteCommits, Goto, CanComplete, CycleMatches
<1>22. ASSUME NEW p \in Procs, NEW r \in Requests, ExecuteFails(p, r) PROVE TypeOK'
  BY <1>22 DEF ExecuteFails, Goto
<1>23. ASSUME NEW p \in Procs, NEW r \in Requests, FinalizeAsFailed(p, r) PROVE TypeOK'
  BY <1>23 DEF FinalizeAsFailed, Goto
<1>24. ASSUME NEW p \in Procs, NEW r \in Requests, WorkerInfraError(p, r) PROVE TypeOK'
  BY <1>24 DEF WorkerInfraError, Fault
<1>25. ASSUME NEW p \in Procs, NEW r \in Requests, Unlock(p, r) PROVE TypeOK'
  BY <1>25 DEF Unlock, Goto
<1>26. ASSUME NEW p \in Procs, NEW r \in Requests, Leave(p, r) PROVE TypeOK'
  BY <1>26 DEF Leave, Goto
<1>27. ASSUME NEW p \in Procs, NEW r \in Requests, LockLost(p, r) PROVE TypeOK'
  BY <1>27 DEF LockLost
<1>28. CASE UNCHANGED vars
  BY <1>28 DEF vars
<1> QED
  BY <1>1, <1>2, <1>3, <1>4, <1>5, <1>6, <1>7, <1>8, <1>9, <1>10, <1>11,
     <1>12, <1>13, <1>14, <1>15, <1>16, <1>17, <1>18, <1>19, <1>20, <1>21,
     <1>22, <1>23, <1>24, <1>25, <1>26, <1>27, <1>28 DEF Next, UserStep,
     ProcessStep, RecoveryStep, RegisterStep, WorkerStep, WorkerTrouble

\* Type correctness of every variable in every reachable state.
THEOREM TypeCorrect == Spec => []TypeOK
<1>1. Init => TypeOK
  BY DEF Init, TypeOK, Status, Mode, JobState
<1>2. QED
  BY <1>1, TypeStep, PTL DEF Spec

\* A registration moves no job but the one it queues, and a request it adds to
\* _pending has that job.
LEMMA RegisterQueues ==
  ASSUME TypeOK, NEW p \in Procs, NEW r \in Requests, Register(p, r)
  PROVE  \A q \in Procs, s \in Requests :
           /\ \/ pc'[q][s] = pc[q][s]
              \/ q = p /\ s = r /\ r \notin pending[p] /\ pc'[q][s] = "queued" /\ s \in pending'[q]
           /\ s \in pending'[q] => s \in pending[q] \/ pc'[q][s] = "queued"
           /\ s \in pending[q] => s \in pending'[q]
<1>1. CASE r \in pending[p]
  BY <1>1 DEF Register
<1>2. CASE r \notin pending[p]
  BY <1>2 DEF TypeOK, Register
<1> QED
  BY <1>1, <1>2

\* A request that _pending does not hold gets its job.
LEMMA RegisterAccepts ==
  ASSUME TypeOK, NEW p \in Procs, NEW r \in Requests, Register(p, r), r \notin pending[p]
  PROVE  pc'[p][r] = "queued"
BY DEF TypeOK, Register

\* The lock table follows the jobs.
LEMMA LockStep == ASSUME TypeOK, LockHeld, [Next]_vars PROVE LockHeld'
<1> USE OwnerAssumption, NoProcAssumption, NoCycleAssumption
    DEF TypeOK, LockHeld, InLock, dbVars, procVars, jobVars, faultVars
<1>1. ASSUME NEW r \in Requests, Prepare(r) PROVE LockHeld'
  BY <1>1 DEF Prepare
<1>2. ASSUME NEW r \in Requests, DeleteRequest(r) PROVE LockHeld'
  BY <1>2 DEF DeleteRequest
<1>3. ASSUME NEW r \in Requests, AcknowledgeResult(r) PROVE LockHeld'
  BY <1>3 DEF AcknowledgeResult
<1>4. ASSUME NEW p \in Procs, NEW r \in Requests, StartExecution(p, r) PROVE LockHeld'
  BY <1>4 DEF StartExecution, CycleMatches
<1>5. ASSUME NEW u \in Users, EndCycle(u) PROVE LockHeld'
  BY <1>5 DEF EndCycle
<1>6. ASSUME NEW p \in Procs, StartProcess(p) PROVE LockHeld'
  BY <1>6 DEF StartProcess
<1>7. ASSUME NEW p \in Procs, NEW r \in Requests, RecoverOne(p, r) PROVE LockHeld'
  <2>1. \A q \in Procs, s \in Requests : pc'[q][s] = pc[q][s] \/ pc'[q][s] = "queued"
    BY <1>7, RegisterQueues DEF RecoverOne
  <2>2. UNCHANGED <<status, attempt, lock, seen, lockLosses>>
    BY <1>7 DEF RecoverOne, NoFault
  <2> QED
    BY <2>1, <2>2
<1>8. ASSUME NEW p \in Procs, RecoveryFails(p) PROVE LockHeld'
  BY <1>8 DEF RecoveryFails, Fault
<1>9. ASSUME NEW p \in Procs, RecoveryDone(p) PROVE LockHeld'
  BY <1>9 DEF RecoveryDone
<1>10. ASSUME NEW p \in Procs, Drain(p) PROVE LockHeld'
  BY <1>10 DEF Drain
<1>11. ASSUME NEW p \in Procs, Stopped(p) PROVE LockHeld'
  BY <1>11 DEF Stopped
<1>12. ASSUME NEW p \in Procs, Crash(p) PROVE LockHeld'
  BY <1>12 DEF Crash
<1>13. ASSUME NEW p \in Procs, NEW r \in Requests, NEW n \in 1..MaxAttempts, RegisterAfterCommit(p, r, n) PROVE LockHeld'
  <2>1. \A q \in Procs, s \in Requests : pc'[q][s] = pc[q][s] \/ pc'[q][s] = "queued"
    BY <1>13, RegisterQueues DEF RegisterAfterCommit
  <2>2. UNCHANGED <<status, attempt, lock, seen, lockLosses>>
    BY <1>13 DEF RegisterAfterCommit, NoFault
  <2> QED
    BY <2>1, <2>2
<1>14. ASSUME NEW p \in Procs, NEW r \in Requests, NEW n \in 1..MaxAttempts, RegisterRaises(p, r, n) PROVE LockHeld'
  BY <1>14 DEF RegisterRaises, Fault
<1>15. ASSUME NEW p \in Procs, NEW r \in Requests, Dequeue(p, r) PROVE LockHeld'
  BY <1>15 DEF Dequeue, Goto
<1>16. ASSUME NEW p \in Procs, NEW r \in Requests, Lock(p, r) PROVE LockHeld'
  BY <1>16 DEF Lock, Goto
<1>17. ASSUME NEW p \in Procs, NEW r \in Requests, LockBusy(p, r) PROVE LockHeld'
  BY <1>17 DEF LockBusy, Goto
<1>18. ASSUME NEW p \in Procs, NEW r \in Requests, LockFails(p, r) PROVE LockHeld'
  BY <1>18 DEF LockFails, Goto, Fault
<1>19. ASSUME NEW p \in Procs, NEW r \in Requests, ReadRequest(p, r) PROVE LockHeld'
  BY <1>19 DEF ReadRequest, Goto
<1>20. ASSUME NEW p \in Procs, NEW r \in Requests, SkipRequest(p, r) PROVE LockHeld'
  BY <1>20 DEF SkipRequest, Goto
<1>21. ASSUME NEW p \in Procs, NEW r \in Requests, ExecuteCommits(p, r) PROVE LockHeld'
  BY <1>21 DEF ExecuteCommits, Goto, CanComplete, CycleMatches
<1>22. ASSUME NEW p \in Procs, NEW r \in Requests, ExecuteFails(p, r) PROVE LockHeld'
  BY <1>22 DEF ExecuteFails, Goto
<1>23. ASSUME NEW p \in Procs, NEW r \in Requests, FinalizeAsFailed(p, r) PROVE LockHeld'
  BY <1>23 DEF FinalizeAsFailed, Goto
<1>24. ASSUME NEW p \in Procs, NEW r \in Requests, WorkerInfraError(p, r) PROVE LockHeld'
  BY <1>24 DEF WorkerInfraError, Fault
<1>25. ASSUME NEW p \in Procs, NEW r \in Requests, Unlock(p, r) PROVE LockHeld'
  BY <1>25 DEF Unlock, Goto
<1>26. ASSUME NEW p \in Procs, NEW r \in Requests, Leave(p, r) PROVE LockHeld'
  BY <1>26 DEF Leave, Goto
<1>27. ASSUME NEW p \in Procs, NEW r \in Requests, LockLost(p, r) PROVE LockHeld'
  BY <1>27 DEF LockLost
<1>28. CASE UNCHANGED vars
  BY <1>28 DEF vars
<1> QED
  BY <1>1, <1>2, <1>3, <1>4, <1>5, <1>6, <1>7, <1>8, <1>9, <1>10, <1>11,
     <1>12, <1>13, <1>14, <1>15, <1>16, <1>17, <1>18, <1>19, <1>20, <1>21,
     <1>22, <1>23, <1>24, <1>25, <1>26, <1>27, <1>28 DEF Next, UserStep,
     ProcessStep, RecoveryStep, RegisterStep, WorkerStep, WorkerTrouble

\* A running attempt stays the current one.
LEMMA OwnStep == ASSUME TypeOK, LockHeld, WorkerOwnsAttempt, [Next]_vars PROVE WorkerOwnsAttempt'
<1> USE OwnerAssumption, NoProcAssumption, NoCycleAssumption
    DEF TypeOK, LockHeld, WorkerOwnsAttempt, InLock, InAttempt, dbVars, procVars, jobVars, faultVars
<1>1. ASSUME NEW r \in Requests, Prepare(r) PROVE WorkerOwnsAttempt'
  BY <1>1 DEF Prepare
<1>2. ASSUME NEW r \in Requests, DeleteRequest(r) PROVE WorkerOwnsAttempt'
  BY <1>2 DEF DeleteRequest
<1>3. ASSUME NEW r \in Requests, AcknowledgeResult(r) PROVE WorkerOwnsAttempt'
  BY <1>3 DEF AcknowledgeResult
<1>4. ASSUME NEW p \in Procs, NEW r \in Requests, StartExecution(p, r) PROVE WorkerOwnsAttempt'
  BY <1>4 DEF StartExecution, CycleMatches
<1>5. ASSUME NEW u \in Users, EndCycle(u) PROVE WorkerOwnsAttempt'
  BY <1>5 DEF EndCycle
<1>6. ASSUME NEW p \in Procs, StartProcess(p) PROVE WorkerOwnsAttempt'
  BY <1>6 DEF StartProcess
<1>7. ASSUME NEW p \in Procs, NEW r \in Requests, RecoverOne(p, r) PROVE WorkerOwnsAttempt'
  <2>1. \A q \in Procs, s \in Requests : pc'[q][s] = pc[q][s] \/ pc'[q][s] = "queued"
    BY <1>7, RegisterQueues DEF RecoverOne
  <2>2. UNCHANGED <<status, attempt, lock, seen, lockLosses>>
    BY <1>7 DEF RecoverOne, NoFault
  <2> QED
    BY <2>1, <2>2
<1>8. ASSUME NEW p \in Procs, RecoveryFails(p) PROVE WorkerOwnsAttempt'
  BY <1>8 DEF RecoveryFails, Fault
<1>9. ASSUME NEW p \in Procs, RecoveryDone(p) PROVE WorkerOwnsAttempt'
  BY <1>9 DEF RecoveryDone
<1>10. ASSUME NEW p \in Procs, Drain(p) PROVE WorkerOwnsAttempt'
  BY <1>10 DEF Drain
<1>11. ASSUME NEW p \in Procs, Stopped(p) PROVE WorkerOwnsAttempt'
  BY <1>11 DEF Stopped
<1>12. ASSUME NEW p \in Procs, Crash(p) PROVE WorkerOwnsAttempt'
  BY <1>12 DEF Crash
<1>13. ASSUME NEW p \in Procs, NEW r \in Requests, NEW n \in 1..MaxAttempts, RegisterAfterCommit(p, r, n) PROVE WorkerOwnsAttempt'
  <2>1. \A q \in Procs, s \in Requests : pc'[q][s] = pc[q][s] \/ pc'[q][s] = "queued"
    BY <1>13, RegisterQueues DEF RegisterAfterCommit
  <2>2. UNCHANGED <<status, attempt, lock, seen, lockLosses>>
    BY <1>13 DEF RegisterAfterCommit, NoFault
  <2> QED
    BY <2>1, <2>2
<1>14. ASSUME NEW p \in Procs, NEW r \in Requests, NEW n \in 1..MaxAttempts, RegisterRaises(p, r, n) PROVE WorkerOwnsAttempt'
  BY <1>14 DEF RegisterRaises, Fault
<1>15. ASSUME NEW p \in Procs, NEW r \in Requests, Dequeue(p, r) PROVE WorkerOwnsAttempt'
  BY <1>15 DEF Dequeue, Goto
<1>16. ASSUME NEW p \in Procs, NEW r \in Requests, Lock(p, r) PROVE WorkerOwnsAttempt'
  BY <1>16 DEF Lock, Goto
<1>17. ASSUME NEW p \in Procs, NEW r \in Requests, LockBusy(p, r) PROVE WorkerOwnsAttempt'
  BY <1>17 DEF LockBusy, Goto
<1>18. ASSUME NEW p \in Procs, NEW r \in Requests, LockFails(p, r) PROVE WorkerOwnsAttempt'
  BY <1>18 DEF LockFails, Goto, Fault
<1>19. ASSUME NEW p \in Procs, NEW r \in Requests, ReadRequest(p, r) PROVE WorkerOwnsAttempt'
  BY <1>19 DEF ReadRequest, Goto
<1>20. ASSUME NEW p \in Procs, NEW r \in Requests, SkipRequest(p, r) PROVE WorkerOwnsAttempt'
  BY <1>20 DEF SkipRequest, Goto
<1>21. ASSUME NEW p \in Procs, NEW r \in Requests, ExecuteCommits(p, r) PROVE WorkerOwnsAttempt'
  BY <1>21 DEF ExecuteCommits, Goto, CanComplete, CycleMatches
<1>22. ASSUME NEW p \in Procs, NEW r \in Requests, ExecuteFails(p, r) PROVE WorkerOwnsAttempt'
  BY <1>22 DEF ExecuteFails, Goto
<1>23. ASSUME NEW p \in Procs, NEW r \in Requests, FinalizeAsFailed(p, r) PROVE WorkerOwnsAttempt'
  BY <1>23 DEF FinalizeAsFailed, Goto
<1>24. ASSUME NEW p \in Procs, NEW r \in Requests, WorkerInfraError(p, r) PROVE WorkerOwnsAttempt'
  BY <1>24 DEF WorkerInfraError, Fault
<1>25. ASSUME NEW p \in Procs, NEW r \in Requests, Unlock(p, r) PROVE WorkerOwnsAttempt'
  BY <1>25 DEF Unlock, Goto
<1>26. ASSUME NEW p \in Procs, NEW r \in Requests, Leave(p, r) PROVE WorkerOwnsAttempt'
  BY <1>26 DEF Leave, Goto
<1>27. ASSUME NEW p \in Procs, NEW r \in Requests, LockLost(p, r) PROVE WorkerOwnsAttempt'
  BY <1>27 DEF LockLost
<1>28. CASE UNCHANGED vars
  BY <1>28 DEF vars
<1> QED
  BY <1>1, <1>2, <1>3, <1>4, <1>5, <1>6, <1>7, <1>8, <1>9, <1>10, <1>11,
     <1>12, <1>13, <1>14, <1>15, <1>16, <1>17, <1>18, <1>19, <1>20, <1>21,
     <1>22, <1>23, <1>24, <1>25, <1>26, <1>27, <1>28 DEF Next, UserStep,
     ProcessStep, RecoveryStep, RegisterStep, WorkerStep, WorkerTrouble

\* Cards, status and effect change together.
LEMMA EffectStep == ASSUME TypeOK, ExecutedIffCompleted, AppliedOnce, [Next]_vars PROVE (ExecutedIffCompleted /\ AppliedOnce)'
<1> USE OwnerAssumption, NoProcAssumption, NoCycleAssumption
    DEF TypeOK, ExecutedIffCompleted, AppliedOnce, dbVars, procVars, jobVars, faultVars
<1>1. ASSUME NEW r \in Requests, Prepare(r) PROVE (ExecutedIffCompleted /\ AppliedOnce)'
  BY <1>1 DEF Prepare
<1>2. ASSUME NEW r \in Requests, DeleteRequest(r) PROVE (ExecutedIffCompleted /\ AppliedOnce)'
  BY <1>2 DEF DeleteRequest
<1>3. ASSUME NEW r \in Requests, AcknowledgeResult(r) PROVE (ExecutedIffCompleted /\ AppliedOnce)'
  BY <1>3 DEF AcknowledgeResult
<1>4. ASSUME NEW p \in Procs, NEW r \in Requests, StartExecution(p, r) PROVE (ExecutedIffCompleted /\ AppliedOnce)'
  BY <1>4 DEF StartExecution, CycleMatches
<1>5. ASSUME NEW u \in Users, EndCycle(u) PROVE (ExecutedIffCompleted /\ AppliedOnce)'
  BY <1>5 DEF EndCycle
<1>6. ASSUME NEW p \in Procs, StartProcess(p) PROVE (ExecutedIffCompleted /\ AppliedOnce)'
  BY <1>6 DEF StartProcess
<1>7. ASSUME NEW p \in Procs, NEW r \in Requests, RecoverOne(p, r) PROVE (ExecutedIffCompleted /\ AppliedOnce)'
  BY <1>7 DEF RecoverOne, Register, NoFault
<1>8. ASSUME NEW p \in Procs, RecoveryFails(p) PROVE (ExecutedIffCompleted /\ AppliedOnce)'
  BY <1>8 DEF RecoveryFails, Fault
<1>9. ASSUME NEW p \in Procs, RecoveryDone(p) PROVE (ExecutedIffCompleted /\ AppliedOnce)'
  BY <1>9 DEF RecoveryDone
<1>10. ASSUME NEW p \in Procs, Drain(p) PROVE (ExecutedIffCompleted /\ AppliedOnce)'
  BY <1>10 DEF Drain
<1>11. ASSUME NEW p \in Procs, Stopped(p) PROVE (ExecutedIffCompleted /\ AppliedOnce)'
  BY <1>11 DEF Stopped
<1>12. ASSUME NEW p \in Procs, Crash(p) PROVE (ExecutedIffCompleted /\ AppliedOnce)'
  BY <1>12 DEF Crash
<1>13. ASSUME NEW p \in Procs, NEW r \in Requests, NEW n \in 1..MaxAttempts, RegisterAfterCommit(p, r, n) PROVE (ExecutedIffCompleted /\ AppliedOnce)'
  BY <1>13 DEF RegisterAfterCommit, Register, NoFault
<1>14. ASSUME NEW p \in Procs, NEW r \in Requests, NEW n \in 1..MaxAttempts, RegisterRaises(p, r, n) PROVE (ExecutedIffCompleted /\ AppliedOnce)'
  BY <1>14 DEF RegisterRaises, Fault
<1>15. ASSUME NEW p \in Procs, NEW r \in Requests, Dequeue(p, r) PROVE (ExecutedIffCompleted /\ AppliedOnce)'
  BY <1>15 DEF Dequeue, Goto
<1>16. ASSUME NEW p \in Procs, NEW r \in Requests, Lock(p, r) PROVE (ExecutedIffCompleted /\ AppliedOnce)'
  BY <1>16 DEF Lock, Goto
<1>17. ASSUME NEW p \in Procs, NEW r \in Requests, LockBusy(p, r) PROVE (ExecutedIffCompleted /\ AppliedOnce)'
  BY <1>17 DEF LockBusy, Goto
<1>18. ASSUME NEW p \in Procs, NEW r \in Requests, LockFails(p, r) PROVE (ExecutedIffCompleted /\ AppliedOnce)'
  BY <1>18 DEF LockFails, Goto, Fault
<1>19. ASSUME NEW p \in Procs, NEW r \in Requests, ReadRequest(p, r) PROVE (ExecutedIffCompleted /\ AppliedOnce)'
  BY <1>19 DEF ReadRequest, Goto
<1>20. ASSUME NEW p \in Procs, NEW r \in Requests, SkipRequest(p, r) PROVE (ExecutedIffCompleted /\ AppliedOnce)'
  BY <1>20 DEF SkipRequest, Goto
<1>21. ASSUME NEW p \in Procs, NEW r \in Requests, ExecuteCommits(p, r) PROVE (ExecutedIffCompleted /\ AppliedOnce)'
  BY <1>21 DEF ExecuteCommits, Goto, CanComplete, CycleMatches
<1>22. ASSUME NEW p \in Procs, NEW r \in Requests, ExecuteFails(p, r) PROVE (ExecutedIffCompleted /\ AppliedOnce)'
  BY <1>22 DEF ExecuteFails, Goto
<1>23. ASSUME NEW p \in Procs, NEW r \in Requests, FinalizeAsFailed(p, r) PROVE (ExecutedIffCompleted /\ AppliedOnce)'
  BY <1>23 DEF FinalizeAsFailed, Goto
<1>24. ASSUME NEW p \in Procs, NEW r \in Requests, WorkerInfraError(p, r) PROVE (ExecutedIffCompleted /\ AppliedOnce)'
  BY <1>24 DEF WorkerInfraError, Fault
<1>25. ASSUME NEW p \in Procs, NEW r \in Requests, Unlock(p, r) PROVE (ExecutedIffCompleted /\ AppliedOnce)'
  BY <1>25 DEF Unlock, Goto
<1>26. ASSUME NEW p \in Procs, NEW r \in Requests, Leave(p, r) PROVE (ExecutedIffCompleted /\ AppliedOnce)'
  BY <1>26 DEF Leave, Goto
<1>27. ASSUME NEW p \in Procs, NEW r \in Requests, LockLost(p, r) PROVE (ExecutedIffCompleted /\ AppliedOnce)'
  BY <1>27 DEF LockLost
<1>28. CASE UNCHANGED vars
  BY <1>28 DEF vars
<1> QED
  BY <1>1, <1>2, <1>3, <1>4, <1>5, <1>6, <1>7, <1>8, <1>9, <1>10, <1>11,
     <1>12, <1>13, <1>14, <1>15, <1>16, <1>17, <1>18, <1>19, <1>20, <1>21,
     <1>22, <1>23, <1>24, <1>25, <1>26, <1>27, <1>28 DEF Next, UserStep,
     ProcessStep, RecoveryStep, RegisterStep, WorkerStep, WorkerTrouble

\* The creator of an ACTIVE cycle stays.
LEMMA CreatorStep == ASSUME TypeOK, ExecutedIffCompleted, CycleHasCreator, [Next]_vars PROVE CycleHasCreator'
<1> USE OwnerAssumption, NoProcAssumption, NoCycleAssumption
    DEF TypeOK, ExecutedIffCompleted, CycleHasCreator, dbVars, procVars, jobVars, faultVars
<1>1. ASSUME NEW r \in Requests, Prepare(r) PROVE CycleHasCreator'
  BY <1>1 DEF Prepare
<1>2. ASSUME NEW r \in Requests, DeleteRequest(r) PROVE CycleHasCreator'
  BY <1>2 DEF DeleteRequest
<1>3. ASSUME NEW r \in Requests, AcknowledgeResult(r) PROVE CycleHasCreator'
  BY <1>3 DEF AcknowledgeResult
<1>4. ASSUME NEW p \in Procs, NEW r \in Requests, StartExecution(p, r) PROVE CycleHasCreator'
  BY <1>4 DEF StartExecution, CycleMatches
<1>5. ASSUME NEW u \in Users, EndCycle(u) PROVE CycleHasCreator'
  BY <1>5 DEF EndCycle
<1>6. ASSUME NEW p \in Procs, StartProcess(p) PROVE CycleHasCreator'
  BY <1>6 DEF StartProcess
<1>7. ASSUME NEW p \in Procs, NEW r \in Requests, RecoverOne(p, r) PROVE CycleHasCreator'
  BY <1>7 DEF RecoverOne, Register, NoFault
<1>8. ASSUME NEW p \in Procs, RecoveryFails(p) PROVE CycleHasCreator'
  BY <1>8 DEF RecoveryFails, Fault
<1>9. ASSUME NEW p \in Procs, RecoveryDone(p) PROVE CycleHasCreator'
  BY <1>9 DEF RecoveryDone
<1>10. ASSUME NEW p \in Procs, Drain(p) PROVE CycleHasCreator'
  BY <1>10 DEF Drain
<1>11. ASSUME NEW p \in Procs, Stopped(p) PROVE CycleHasCreator'
  BY <1>11 DEF Stopped
<1>12. ASSUME NEW p \in Procs, Crash(p) PROVE CycleHasCreator'
  BY <1>12 DEF Crash
<1>13. ASSUME NEW p \in Procs, NEW r \in Requests, NEW n \in 1..MaxAttempts, RegisterAfterCommit(p, r, n) PROVE CycleHasCreator'
  BY <1>13 DEF RegisterAfterCommit, Register, NoFault
<1>14. ASSUME NEW p \in Procs, NEW r \in Requests, NEW n \in 1..MaxAttempts, RegisterRaises(p, r, n) PROVE CycleHasCreator'
  BY <1>14 DEF RegisterRaises, Fault
<1>15. ASSUME NEW p \in Procs, NEW r \in Requests, Dequeue(p, r) PROVE CycleHasCreator'
  BY <1>15 DEF Dequeue, Goto
<1>16. ASSUME NEW p \in Procs, NEW r \in Requests, Lock(p, r) PROVE CycleHasCreator'
  BY <1>16 DEF Lock, Goto
<1>17. ASSUME NEW p \in Procs, NEW r \in Requests, LockBusy(p, r) PROVE CycleHasCreator'
  BY <1>17 DEF LockBusy, Goto
<1>18. ASSUME NEW p \in Procs, NEW r \in Requests, LockFails(p, r) PROVE CycleHasCreator'
  BY <1>18 DEF LockFails, Goto, Fault
<1>19. ASSUME NEW p \in Procs, NEW r \in Requests, ReadRequest(p, r) PROVE CycleHasCreator'
  BY <1>19 DEF ReadRequest, Goto
<1>20. ASSUME NEW p \in Procs, NEW r \in Requests, SkipRequest(p, r) PROVE CycleHasCreator'
  BY <1>20 DEF SkipRequest, Goto
<1>21. ASSUME NEW p \in Procs, NEW r \in Requests, ExecuteCommits(p, r) PROVE CycleHasCreator'
  BY <1>21 DEF ExecuteCommits, Goto, CanComplete, CycleMatches
<1>22. ASSUME NEW p \in Procs, NEW r \in Requests, ExecuteFails(p, r) PROVE CycleHasCreator'
  BY <1>22 DEF ExecuteFails, Goto
<1>23. ASSUME NEW p \in Procs, NEW r \in Requests, FinalizeAsFailed(p, r) PROVE CycleHasCreator'
  BY <1>23 DEF FinalizeAsFailed, Goto
<1>24. ASSUME NEW p \in Procs, NEW r \in Requests, WorkerInfraError(p, r) PROVE CycleHasCreator'
  BY <1>24 DEF WorkerInfraError, Fault
<1>25. ASSUME NEW p \in Procs, NEW r \in Requests, Unlock(p, r) PROVE CycleHasCreator'
  BY <1>25 DEF Unlock, Goto
<1>26. ASSUME NEW p \in Procs, NEW r \in Requests, Leave(p, r) PROVE CycleHasCreator'
  BY <1>26 DEF Leave, Goto
<1>27. ASSUME NEW p \in Procs, NEW r \in Requests, LockLost(p, r) PROVE CycleHasCreator'
  BY <1>27 DEF LockLost
<1>28. CASE UNCHANGED vars
  BY <1>28 DEF vars
<1> QED
  BY <1>1, <1>2, <1>3, <1>4, <1>5, <1>6, <1>7, <1>8, <1>9, <1>10, <1>11,
     <1>12, <1>13, <1>14, <1>15, <1>16, <1>17, <1>18, <1>19, <1>20, <1>21,
     <1>22, <1>23, <1>24, <1>25, <1>26, <1>27, <1>28 DEF Next, UserStep,
     ProcessStep, RecoveryStep, RegisterStep, WorkerStep, WorkerTrouble

\* The inductive invariant behind the lock and the effects.
ExecutionInv ==
  /\ TypeOK
  /\ LockHeld
  /\ WorkerOwnsAttempt
  /\ ExecutedIffCompleted
  /\ AppliedOnce
  /\ CycleHasCreator

\* Lock, attempts, cards and effects are consistent in every reachable state.
LEMMA ExecutionInvariant == Spec => []ExecutionInv
<1>1. Init => ExecutionInv
  BY NoCycleAssumption
     DEF Init, ExecutionInv, TypeOK, Status, Mode, JobState, LockHeld, InLock,
         WorkerOwnsAttempt, InAttempt, ExecutedIffCompleted, AppliedOnce, CycleHasCreator
<1>2. ExecutionInv /\ [Next]_vars => ExecutionInv'
  BY TypeStep, LockStep, OwnStep, EffectStep, CreatorStep DEF ExecutionInv
<1>3. QED
  BY <1>1, <1>2, PTL DEF Spec

\* Mutual exclusion by the requestId advisory lock: two processes are never
\* both between lock and unlock for one request, whatever crashes, restarts,
\* recoveries and retries happen, as long as no lock connection is lost.
THEOREM WorkersExclusive == Spec => []SingleWorker
<1>1. ExecutionInv => SingleWorker
  BY DEF ExecutionInv, LockHeld, SingleWorker
<1>2. QED
  BY <1>1, ExecutionInvariant, PTL

\* The outcome a worker records is for the attempt it read: no slow worker
\* fails or completes a later retry.
THEOREM AttemptsOwned == Spec => []WorkerOwnsAttempt
<1>1. ExecutionInv => WorkerOwnsAttempt
  BY DEF ExecutionInv
<1>2. QED
  BY <1>1, ExecutionInvariant, PTL

\* Exactly-once effect, with no assumption on the lock.
THEOREM EffectsOnce == Spec => []AppliedOnce
<1>1. ExecutionInv => AppliedOnce
  BY DEF ExecutionInv
<1>2. QED
  BY <1>1, ExecutionInvariant, PTL

\* Every ACTIVE cycle is the effect of a completed request of its user.
THEOREM CyclesCreated == Spec => []CycleHasCreator
<1>1. ExecutionInv => CycleHasCreator
  BY DEF ExecutionInv
<1>2. QED
  BY <1>1, ExecutionInvariant, PTL

\* Every step of the machinery is a step of the contract or a stutter.
LEMMA ContractStep ==
  ASSUME TypeOK, ExecutedIffCompleted, AppliedOnce, [Next]_vars
  PROVE  [ContractOf!ContractNext]_(ContractOf!contractVars)
<1> USE DEF dbVars
<1>1. ASSUME NEW r \in Requests, Prepare(r) PROVE [ContractOf!ContractNext]_(ContractOf!contractVars)
  <2>1. ContractOf!Submit(r)
    BY <1>1 DEF Prepare, Current, ContractOf!OwnCurrent, ContractOf!Move, ContractOf!Submit
  <2> QED
    BY <2>1 DEF ContractOf!ContractNext
<1>2. ASSUME NEW r \in Requests, DeleteRequest(r) PROVE [ContractOf!ContractNext]_(ContractOf!contractVars)
  <2>1. ContractOf!Withdraw(r)
    BY <1>2 DEF DeleteRequest, ContractOf!Move, ContractOf!Withdraw
  <2> QED
    BY <2>1 DEF ContractOf!ContractNext
<1>3. ASSUME NEW r \in Requests, AcknowledgeResult(r) PROVE [ContractOf!ContractNext]_(ContractOf!contractVars)
  <2>1. ContractOf!Acknowledge(r)
    BY <1>3 DEF AcknowledgeResult, ContractOf!Move, ContractOf!Acknowledge
  <2> QED
    BY <2>1 DEF ContractOf!ContractNext
<1>4. ASSUME NEW p \in Procs, NEW r \in Requests, StartExecution(p, r) PROVE [ContractOf!ContractNext]_(ContractOf!contractVars)
  <2>1. ContractOf!Begin(r)
    BY <1>4 DEF StartExecution, ContractOf!Move, ContractOf!Begin
  <2> QED
    BY <2>1 DEF ContractOf!ContractNext
<1>5. ASSUME NEW u \in Users, EndCycle(u) PROVE [ContractOf!ContractNext]_(ContractOf!contractVars)
  BY <1>5 DEF EndCycle, ContractOf!contractVars
<1>6. ASSUME NEW p \in Procs, StartProcess(p) PROVE [ContractOf!ContractNext]_(ContractOf!contractVars)
  BY <1>6 DEF StartProcess, ContractOf!contractVars
<1>7. ASSUME NEW p \in Procs, NEW r \in Requests, RecoverOne(p, r) PROVE [ContractOf!ContractNext]_(ContractOf!contractVars)
  BY <1>7 DEF RecoverOne, ContractOf!contractVars, NoFault
<1>8. ASSUME NEW p \in Procs, RecoveryFails(p) PROVE [ContractOf!ContractNext]_(ContractOf!contractVars)
  BY <1>8 DEF RecoveryFails, ContractOf!contractVars
<1>9. ASSUME NEW p \in Procs, RecoveryDone(p) PROVE [ContractOf!ContractNext]_(ContractOf!contractVars)
  BY <1>9 DEF RecoveryDone, ContractOf!contractVars
<1>10. ASSUME NEW p \in Procs, Drain(p) PROVE [ContractOf!ContractNext]_(ContractOf!contractVars)
  BY <1>10 DEF Drain, ContractOf!contractVars
<1>11. ASSUME NEW p \in Procs, Stopped(p) PROVE [ContractOf!ContractNext]_(ContractOf!contractVars)
  BY <1>11 DEF Stopped, ContractOf!contractVars
<1>12. ASSUME NEW p \in Procs, Crash(p) PROVE [ContractOf!ContractNext]_(ContractOf!contractVars)
  BY <1>12 DEF Crash, ContractOf!contractVars
<1>13. ASSUME NEW p \in Procs, NEW r \in Requests, NEW n \in 1..MaxAttempts, RegisterAfterCommit(p, r, n) PROVE [ContractOf!ContractNext]_(ContractOf!contractVars)
  BY <1>13 DEF RegisterAfterCommit, ContractOf!contractVars, NoFault
<1>14. ASSUME NEW p \in Procs, NEW r \in Requests, NEW n \in 1..MaxAttempts, RegisterRaises(p, r, n) PROVE [ContractOf!ContractNext]_(ContractOf!contractVars)
  BY <1>14 DEF RegisterRaises, ContractOf!contractVars
<1>15. ASSUME NEW p \in Procs, NEW r \in Requests, Dequeue(p, r) PROVE [ContractOf!ContractNext]_(ContractOf!contractVars)
  BY <1>15 DEF Dequeue, ContractOf!contractVars
<1>16. ASSUME NEW p \in Procs, NEW r \in Requests, Lock(p, r) PROVE [ContractOf!ContractNext]_(ContractOf!contractVars)
  BY <1>16 DEF Lock, ContractOf!contractVars
<1>17. ASSUME NEW p \in Procs, NEW r \in Requests, LockBusy(p, r) PROVE [ContractOf!ContractNext]_(ContractOf!contractVars)
  BY <1>17 DEF LockBusy, ContractOf!contractVars
<1>18. ASSUME NEW p \in Procs, NEW r \in Requests, LockFails(p, r) PROVE [ContractOf!ContractNext]_(ContractOf!contractVars)
  BY <1>18 DEF LockFails, ContractOf!contractVars
<1>19. ASSUME NEW p \in Procs, NEW r \in Requests, ReadRequest(p, r) PROVE [ContractOf!ContractNext]_(ContractOf!contractVars)
  BY <1>19 DEF ReadRequest, ContractOf!contractVars
<1>20. ASSUME NEW p \in Procs, NEW r \in Requests, SkipRequest(p, r) PROVE [ContractOf!ContractNext]_(ContractOf!contractVars)
  BY <1>20 DEF SkipRequest, ContractOf!contractVars
<1>21. ASSUME NEW p \in Procs, NEW r \in Requests, ExecuteCommits(p, r) PROVE [ContractOf!ContractNext]_(ContractOf!contractVars)
  <2>1. status[r] = "EXECUTING" /\ applied[r] = 0
    BY <1>21 DEF ExecuteCommits, CanComplete, ExecutedIffCompleted, AppliedOnce
  <2>2. ContractOf!Succeed(r)
    BY <1>21, <2>1 DEF ExecuteCommits, ContractOf!Move, ContractOf!Succeed, TypeOK
  <2> QED
    BY <2>2 DEF ContractOf!ContractNext
<1>22. ASSUME NEW p \in Procs, NEW r \in Requests, ExecuteFails(p, r) PROVE [ContractOf!ContractNext]_(ContractOf!contractVars)
  BY <1>22 DEF ExecuteFails, ContractOf!contractVars
<1>23. ASSUME NEW p \in Procs, NEW r \in Requests, FinalizeAsFailed(p, r) PROVE [ContractOf!ContractNext]_(ContractOf!contractVars)
  <2>1. CASE status[r] = "EXECUTING"
    <3>1. ContractOf!Fail(r)
      BY <1>23, <2>1 DEF FinalizeAsFailed, ContractOf!Move, ContractOf!Fail
    <3> QED
      BY <3>1 DEF ContractOf!ContractNext
  <2>2. CASE status[r] # "EXECUTING"
    BY <1>23, <2>2 DEF FinalizeAsFailed, ContractOf!contractVars
  <2> QED
    BY <2>1, <2>2
<1>24. ASSUME NEW p \in Procs, NEW r \in Requests, WorkerInfraError(p, r) PROVE [ContractOf!ContractNext]_(ContractOf!contractVars)
  BY <1>24 DEF WorkerInfraError, ContractOf!contractVars
<1>25. ASSUME NEW p \in Procs, NEW r \in Requests, Unlock(p, r) PROVE [ContractOf!ContractNext]_(ContractOf!contractVars)
  BY <1>25 DEF Unlock, ContractOf!contractVars
<1>26. ASSUME NEW p \in Procs, NEW r \in Requests, Leave(p, r) PROVE [ContractOf!ContractNext]_(ContractOf!contractVars)
  BY <1>26 DEF Leave, ContractOf!contractVars
<1>27. ASSUME NEW p \in Procs, NEW r \in Requests, LockLost(p, r) PROVE [ContractOf!ContractNext]_(ContractOf!contractVars)
  BY <1>27 DEF LockLost, ContractOf!contractVars
<1>28. CASE UNCHANGED vars
  BY <1>28 DEF vars, ContractOf!contractVars
<1> QED
  BY <1>1, <1>2, <1>3, <1>4, <1>5, <1>6, <1>7, <1>8, <1>9, <1>10, <1>11,
     <1>12, <1>13, <1>14, <1>15, <1>16, <1>17, <1>18, <1>19, <1>20, <1>21,
     <1>22, <1>23, <1>24, <1>25, <1>26, <1>27, <1>28 DEF Next, UserStep,
     ProcessStep, RecoveryStep, RegisterStep, WorkerStep, WorkerTrouble

\* The processes, locks and workers together implement the contract.
THEOREM ImplementsExecutionContract == Spec => ImplementsContract
<1>1. Init => ContractOf!ContractInit
  BY DEF Init, ContractOf!ContractInit
<1>2. ExecutionInv /\ [Next]_vars => [ContractOf!ContractNext]_(ContractOf!contractVars)
  BY ContractStep DEF ExecutionInv
<1>3. QED
  BY <1>1, <1>2, ExecutionInvariant, PTL DEF Spec, ImplementsContract, ContractOf!Contract

-------------------------------------------------------------------------------
\* A process that is down has nothing in memory; only a starting process
\* recovers and only a serving one has API threads to register for.
MemoryInv ==
  /\ \A p \in Procs : mode[p] = "down" =>
       pending[p] = {} /\ \A r \in Requests : pc[p][r] = "idle"
  /\ \A p \in Procs : mode[p] # "recovering" => recovering[p] = {}
  /\ \A x \in registering : mode[x[1]] = "serving"

\* Every job's request is in _pending, without faults no other is, and the lock
\* of a request belongs to a job past it.
DispatcherInv ==
  /\ \A p \in Procs, r \in Requests : pc[p][r] # "idle" => r \in pending[p]
  /\ faults = 0 => \A p \in Procs, r \in Requests : r \in pending[p] => pc[p][r] # "idle"
  /\ \A p \in Procs, r \in Requests : lock[r] = p => pc[p][r] \in InLock
  /\ \A p \in Procs, r \in Requests : r \in recovering[p] => pc[p][r] = "idle"

\* A request that was never executed is in no dispatcher, and the thread that
\* registers a first attempt finds the dispatcher free of it.
AttemptInv ==
  /\ \A r \in Requests :
       status[r] \in {"ABSENT", "FINAL_REVIEW"} =>
         /\ attempt[r] = 0
         /\ \A x \in registering : x[2] # r
         /\ \A p \in Procs : r \notin recovering[p] /\ pc[p][r] = "idle"
  /\ \A r \in Requests : status[r] \in {"EXECUTING", "FAILED"} => attempt[r] >= 1
  /\ \A x \in registering :
       /\ x[3] >= 1 /\ x[3] <= attempt[x[2]]
       /\ attempt[x[2]] = 1 => pc[x[1]][x[2]] = "idle"

\* A worker that is done leaves an EXECUTING request behind only if it is a
\* retry that started in the meantime.
DoneInv ==
  (faults = 0 /\ crashes = 0) =>
    \A p \in Procs, r \in Requests :
      (pc[p][r] = "unlocking" /\ status[r] = "EXECUTING") => attempt[r] >= 2

\* Memory follows the life of its process.
LEMMA MemoryStep == ASSUME TypeOK, MemoryInv, [Next]_vars PROVE MemoryInv'
<1> USE OwnerAssumption, NoProcAssumption, NoCycleAssumption
    DEF TypeOK, MemoryInv, Mode, dbVars, procVars, jobVars, faultVars
<1>1. ASSUME NEW r \in Requests, Prepare(r) PROVE MemoryInv'
  BY <1>1 DEF Prepare
<1>2. ASSUME NEW r \in Requests, DeleteRequest(r) PROVE MemoryInv'
  BY <1>2 DEF DeleteRequest
<1>3. ASSUME NEW r \in Requests, AcknowledgeResult(r) PROVE MemoryInv'
  BY <1>3 DEF AcknowledgeResult
<1>4. ASSUME NEW p \in Procs, NEW r \in Requests, StartExecution(p, r) PROVE MemoryInv'
  BY <1>4 DEF StartExecution, CycleMatches
<1>5. ASSUME NEW u \in Users, EndCycle(u) PROVE MemoryInv'
  BY <1>5 DEF EndCycle
<1>6. ASSUME NEW p \in Procs, StartProcess(p) PROVE MemoryInv'
  BY <1>6 DEF StartProcess
<1>7. ASSUME NEW p \in Procs, NEW r \in Requests, RecoverOne(p, r) PROVE MemoryInv'
  <2>1. mode[p] = "recovering" /\ mode' = mode /\ registering' = registering
    BY <1>7 DEF RecoverOne
  <2>2. \A q \in Procs : q # p => pending'[q] = pending[q] /\ pc'[q] = pc[q]
    <3>1. CASE r \in pending[p]
      BY <1>7, <3>1 DEF RecoverOne, Register
    <3>2. CASE r \notin pending[p]
      BY <1>7, <3>2 DEF RecoverOne, Register
    <3> QED
      BY <3>1, <3>2
  <2>3. \A q \in Procs : q # p => recovering'[q] = recovering[q]
    BY <1>7 DEF RecoverOne
  <2>4. (\A q \in Procs : mode[q] = "down" =>
           pending[q] = {} /\ \A s \in Requests : pc[q][s] = "idle")'
    <3> SUFFICES ASSUME NEW q \in Procs, mode'[q] = "down"
                 PROVE  pending'[q] = {} /\ \A s \in Requests : pc'[q][s] = "idle"
      OBVIOUS
    <3>1. q # p /\ mode[q] = "down"
      BY <2>1
    <3>2. pending[q] = {} /\ \A s \in Requests : pc[q][s] = "idle"
      BY <3>1
    <3> QED
      BY <2>2, <3>1, <3>2
  <2>5. (\A q \in Procs : mode[q] # "recovering" => recovering[q] = {})'
    BY <2>1, <2>3
  <2>6. (\A x \in registering : mode[x[1]] = "serving")'
    BY <2>1
  <2> QED
    BY <2>4, <2>5, <2>6 DEF MemoryInv
<1>8. ASSUME NEW p \in Procs, RecoveryFails(p) PROVE MemoryInv'
  BY <1>8 DEF RecoveryFails, Fault
<1>9. ASSUME NEW p \in Procs, RecoveryDone(p) PROVE MemoryInv'
  BY <1>9 DEF RecoveryDone
<1>10. ASSUME NEW p \in Procs, Drain(p) PROVE MemoryInv'
  BY <1>10 DEF Drain
<1>11. ASSUME NEW p \in Procs, Stopped(p) PROVE MemoryInv'
  BY <1>11 DEF Stopped
<1>12. ASSUME NEW p \in Procs, Crash(p) PROVE MemoryInv'
  BY <1>12 DEF Crash
<1>13. ASSUME NEW p \in Procs, NEW r \in Requests, NEW n \in 1..MaxAttempts, RegisterAfterCommit(p, r, n) PROVE MemoryInv'
  BY <1>13 DEF RegisterAfterCommit, Register, NoFault
<1>14. ASSUME NEW p \in Procs, NEW r \in Requests, NEW n \in 1..MaxAttempts, RegisterRaises(p, r, n) PROVE MemoryInv'
  BY <1>14 DEF RegisterRaises, Fault
<1>15. ASSUME NEW p \in Procs, NEW r \in Requests, Dequeue(p, r) PROVE MemoryInv'
  BY <1>15 DEF Dequeue, Goto
<1>16. ASSUME NEW p \in Procs, NEW r \in Requests, Lock(p, r) PROVE MemoryInv'
  BY <1>16 DEF Lock, Goto
<1>17. ASSUME NEW p \in Procs, NEW r \in Requests, LockBusy(p, r) PROVE MemoryInv'
  BY <1>17 DEF LockBusy, Goto
<1>18. ASSUME NEW p \in Procs, NEW r \in Requests, LockFails(p, r) PROVE MemoryInv'
  BY <1>18 DEF LockFails, Goto, Fault
<1>19. ASSUME NEW p \in Procs, NEW r \in Requests, ReadRequest(p, r) PROVE MemoryInv'
  BY <1>19 DEF ReadRequest, Goto
<1>20. ASSUME NEW p \in Procs, NEW r \in Requests, SkipRequest(p, r) PROVE MemoryInv'
  BY <1>20 DEF SkipRequest, Goto
<1>21. ASSUME NEW p \in Procs, NEW r \in Requests, ExecuteCommits(p, r) PROVE MemoryInv'
  BY <1>21 DEF ExecuteCommits, Goto, CanComplete, CycleMatches
<1>22. ASSUME NEW p \in Procs, NEW r \in Requests, ExecuteFails(p, r) PROVE MemoryInv'
  BY <1>22 DEF ExecuteFails, Goto
<1>23. ASSUME NEW p \in Procs, NEW r \in Requests, FinalizeAsFailed(p, r) PROVE MemoryInv'
  BY <1>23 DEF FinalizeAsFailed, Goto
<1>24. ASSUME NEW p \in Procs, NEW r \in Requests, WorkerInfraError(p, r) PROVE MemoryInv'
  BY <1>24 DEF WorkerInfraError, Fault
<1>25. ASSUME NEW p \in Procs, NEW r \in Requests, Unlock(p, r) PROVE MemoryInv'
  BY <1>25 DEF Unlock, Goto
<1>26. ASSUME NEW p \in Procs, NEW r \in Requests, Leave(p, r) PROVE MemoryInv'
  BY <1>26 DEF Leave, Goto
<1>27. ASSUME NEW p \in Procs, NEW r \in Requests, LockLost(p, r) PROVE MemoryInv'
  BY <1>27 DEF LockLost
<1>28. CASE UNCHANGED vars
  BY <1>28 DEF vars
<1> QED
  BY <1>1, <1>2, <1>3, <1>4, <1>5, <1>6, <1>7, <1>8, <1>9, <1>10, <1>11,
     <1>12, <1>13, <1>14, <1>15, <1>16, <1>17, <1>18, <1>19, <1>20, <1>21,
     <1>22, <1>23, <1>24, <1>25, <1>26, <1>27, <1>28 DEF Next, UserStep,
     ProcessStep, RecoveryStep, RegisterStep, WorkerStep, WorkerTrouble

\* The dispatcher's set, its jobs and the lock table stay in step.
LEMMA DispatcherStep == ASSUME TypeOK, MemoryInv, DispatcherInv, [Next]_vars PROVE DispatcherInv'
<1> USE OwnerAssumption, NoProcAssumption, NoCycleAssumption
    DEF TypeOK, MemoryInv, DispatcherInv, InLock, Mode, dbVars, procVars, jobVars, faultVars
<1>1. ASSUME NEW r \in Requests, Prepare(r) PROVE DispatcherInv'
  BY <1>1 DEF Prepare
<1>2. ASSUME NEW r \in Requests, DeleteRequest(r) PROVE DispatcherInv'
  BY <1>2 DEF DeleteRequest
<1>3. ASSUME NEW r \in Requests, AcknowledgeResult(r) PROVE DispatcherInv'
  BY <1>3 DEF AcknowledgeResult
<1>4. ASSUME NEW p \in Procs, NEW r \in Requests, StartExecution(p, r) PROVE DispatcherInv'
  BY <1>4 DEF StartExecution, CycleMatches
<1>5. ASSUME NEW u \in Users, EndCycle(u) PROVE DispatcherInv'
  BY <1>5 DEF EndCycle
<1>6. ASSUME NEW p \in Procs, StartProcess(p) PROVE DispatcherInv'
  BY <1>6 DEF StartProcess
<1>7. ASSUME NEW p \in Procs, NEW r \in Requests, RecoverOne(p, r) PROVE DispatcherInv'
  <2>1. \A q \in Procs, s \in Requests :
           /\ \/ pc'[q][s] = pc[q][s]
              \/ q = p /\ s = r /\ r \notin pending[p] /\ pc'[q][s] = "queued" /\ s \in pending'[q]
           /\ s \in pending'[q] => s \in pending[q] \/ pc'[q][s] = "queued"
           /\ s \in pending[q] => s \in pending'[q]
    BY <1>7, RegisterQueues DEF RecoverOne
  <2>2. UNCHANGED <<lock, faults>>
    BY <1>7 DEF RecoverOne, NoFault
  <2>3. \A q \in Procs, s \in Requests :
           s \in recovering'[q] => s \in recovering[q] /\ ~(q = p /\ s = r)
    BY <1>7 DEF RecoverOne
  <2>4. (\A q \in Procs, s \in Requests : pc[q][s] # "idle" => s \in pending[q])'
    BY <2>1
  <2>5. (faults = 0 => \A q \in Procs, s \in Requests : s \in pending[q] => pc[q][s] # "idle")'
    <3> SUFFICES ASSUME faults' = 0, NEW q \in Procs, NEW s \in Requests, s \in pending'[q]
                 PROVE  pc'[q][s] # "idle"
      OBVIOUS
    <3>1. s \in pending[q] => pc[q][s] # "idle"
      BY <2>2
    <3> QED
      BY <2>1, <3>1
  <2>6. (\A q \in Procs, s \in Requests : lock[s] = q => pc[q][s] \in InLock)'
    BY <2>1, <2>2
  <2>7. (\A q \in Procs, s \in Requests : s \in recovering[q] => pc[q][s] = "idle")'
    <3> SUFFICES ASSUME NEW q \in Procs, NEW s \in Requests, s \in recovering'[q]
                 PROVE  pc'[q][s] = "idle"
      OBVIOUS
    <3>1. s \in recovering[q] /\ ~(q = p /\ s = r)
      BY <2>3
    <3>2. pc[q][s] = "idle"
      BY <3>1
    <3> QED
      BY <2>1, <3>1, <3>2
  <2> QED
    BY <2>4, <2>5, <2>6, <2>7 DEF DispatcherInv
<1>8. ASSUME NEW p \in Procs, RecoveryFails(p) PROVE DispatcherInv'
  BY <1>8 DEF RecoveryFails, Fault
<1>9. ASSUME NEW p \in Procs, RecoveryDone(p) PROVE DispatcherInv'
  BY <1>9 DEF RecoveryDone
<1>10. ASSUME NEW p \in Procs, Drain(p) PROVE DispatcherInv'
  BY <1>10 DEF Drain
<1>11. ASSUME NEW p \in Procs, Stopped(p) PROVE DispatcherInv'
  BY <1>11 DEF Stopped
<1>12. ASSUME NEW p \in Procs, Crash(p) PROVE DispatcherInv'
  BY <1>12 DEF Crash
<1>13. ASSUME NEW p \in Procs, NEW r \in Requests, NEW n \in 1..MaxAttempts, RegisterAfterCommit(p, r, n) PROVE DispatcherInv'
  <2>1. \A q \in Procs, s \in Requests :
           /\ \/ pc'[q][s] = pc[q][s]
              \/ q = p /\ s = r /\ r \notin pending[p] /\ pc'[q][s] = "queued" /\ s \in pending'[q]
           /\ s \in pending'[q] => s \in pending[q] \/ pc'[q][s] = "queued"
           /\ s \in pending[q] => s \in pending'[q]
    BY <1>13, RegisterQueues DEF RegisterAfterCommit
  <2>2. UNCHANGED <<lock, faults, recovering>> /\ recovering[p] = {}
    <3>1. <<p, r, n>> \in registering /\ UNCHANGED <<lock, faults, recovering>>
      BY <1>13 DEF RegisterAfterCommit, NoFault
    <3>2. mode[p] = "serving"
      BY <3>1
    <3> QED
      BY <3>1, <3>2
  <2>3. \A q \in Procs, s \in Requests :
           s \in recovering'[q] => s \in recovering[q] /\ ~(q = p /\ s = r)
    BY <2>2
  <2>4. (\A q \in Procs, s \in Requests : pc[q][s] # "idle" => s \in pending[q])'
    BY <2>1
  <2>5. (faults = 0 => \A q \in Procs, s \in Requests : s \in pending[q] => pc[q][s] # "idle")'
    <3> SUFFICES ASSUME faults' = 0, NEW q \in Procs, NEW s \in Requests, s \in pending'[q]
                 PROVE  pc'[q][s] # "idle"
      OBVIOUS
    <3>1. s \in pending[q] => pc[q][s] # "idle"
      BY <2>2
    <3> QED
      BY <2>1, <3>1
  <2>6. (\A q \in Procs, s \in Requests : lock[s] = q => pc[q][s] \in InLock)'
    BY <2>1, <2>2
  <2>7. (\A q \in Procs, s \in Requests : s \in recovering[q] => pc[q][s] = "idle")'
    <3> SUFFICES ASSUME NEW q \in Procs, NEW s \in Requests, s \in recovering'[q]
                 PROVE  pc'[q][s] = "idle"
      OBVIOUS
    <3>1. s \in recovering[q] /\ ~(q = p /\ s = r)
      BY <2>3
    <3>2. pc[q][s] = "idle"
      BY <3>1
    <3> QED
      BY <2>1, <3>1, <3>2
  <2> QED
    BY <2>4, <2>5, <2>6, <2>7 DEF DispatcherInv
<1>14. ASSUME NEW p \in Procs, NEW r \in Requests, NEW n \in 1..MaxAttempts, RegisterRaises(p, r, n) PROVE DispatcherInv'
  BY <1>14 DEF RegisterRaises, Fault
<1>15. ASSUME NEW p \in Procs, NEW r \in Requests, Dequeue(p, r) PROVE DispatcherInv'
  BY <1>15 DEF Dequeue, Goto
<1>16. ASSUME NEW p \in Procs, NEW r \in Requests, Lock(p, r) PROVE DispatcherInv'
  BY <1>16 DEF Lock, Goto
<1>17. ASSUME NEW p \in Procs, NEW r \in Requests, LockBusy(p, r) PROVE DispatcherInv'
  BY <1>17 DEF LockBusy, Goto
<1>18. ASSUME NEW p \in Procs, NEW r \in Requests, LockFails(p, r) PROVE DispatcherInv'
  BY <1>18 DEF LockFails, Goto, Fault
<1>19. ASSUME NEW p \in Procs, NEW r \in Requests, ReadRequest(p, r) PROVE DispatcherInv'
  BY <1>19 DEF ReadRequest, Goto
<1>20. ASSUME NEW p \in Procs, NEW r \in Requests, SkipRequest(p, r) PROVE DispatcherInv'
  BY <1>20 DEF SkipRequest, Goto
<1>21. ASSUME NEW p \in Procs, NEW r \in Requests, ExecuteCommits(p, r) PROVE DispatcherInv'
  BY <1>21 DEF ExecuteCommits, Goto, CanComplete, CycleMatches
<1>22. ASSUME NEW p \in Procs, NEW r \in Requests, ExecuteFails(p, r) PROVE DispatcherInv'
  BY <1>22 DEF ExecuteFails, Goto
<1>23. ASSUME NEW p \in Procs, NEW r \in Requests, FinalizeAsFailed(p, r) PROVE DispatcherInv'
  BY <1>23 DEF FinalizeAsFailed, Goto
<1>24. ASSUME NEW p \in Procs, NEW r \in Requests, WorkerInfraError(p, r) PROVE DispatcherInv'
  BY <1>24 DEF WorkerInfraError, Fault
<1>25. ASSUME NEW p \in Procs, NEW r \in Requests, Unlock(p, r) PROVE DispatcherInv'
  BY <1>25 DEF Unlock, Goto
<1>26. ASSUME NEW p \in Procs, NEW r \in Requests, Leave(p, r) PROVE DispatcherInv'
  BY <1>26 DEF Leave, Goto
<1>27. ASSUME NEW p \in Procs, NEW r \in Requests, LockLost(p, r) PROVE DispatcherInv'
  BY <1>27 DEF LockLost
<1>28. CASE UNCHANGED vars
  BY <1>28 DEF vars
<1> QED
  BY <1>1, <1>2, <1>3, <1>4, <1>5, <1>6, <1>7, <1>8, <1>9, <1>10, <1>11,
     <1>12, <1>13, <1>14, <1>15, <1>16, <1>17, <1>18, <1>19, <1>20, <1>21,
     <1>22, <1>23, <1>24, <1>25, <1>26, <1>27, <1>28 DEF Next, UserStep,
     ProcessStep, RecoveryStep, RegisterStep, WorkerStep, WorkerTrouble

\* Attempts are counted before anything runs.
LEMMA AttemptStep == ASSUME TypeOK, MemoryInv, DispatcherInv, AttemptInv, [Next]_vars PROVE AttemptInv'
<1> USE OwnerAssumption, NoProcAssumption, NoCycleAssumption
    DEF TypeOK, MemoryInv, AttemptInv, DispatcherInv, Mode, dbVars, procVars, jobVars, faultVars
<1>1. ASSUME NEW r \in Requests, Prepare(r) PROVE AttemptInv'
  BY <1>1 DEF Prepare
<1>2. ASSUME NEW r \in Requests, DeleteRequest(r) PROVE AttemptInv'
  BY <1>2 DEF DeleteRequest
<1>3. ASSUME NEW r \in Requests, AcknowledgeResult(r) PROVE AttemptInv'
  BY <1>3 DEF AcknowledgeResult
<1>4. ASSUME NEW p \in Procs, NEW r \in Requests, StartExecution(p, r) PROVE AttemptInv'
  BY <1>4 DEF StartExecution, CycleMatches
<1>5. ASSUME NEW u \in Users, EndCycle(u) PROVE AttemptInv'
  BY <1>5 DEF EndCycle
<1>6. ASSUME NEW p \in Procs, StartProcess(p) PROVE AttemptInv'
  BY <1>6 DEF StartProcess
<1>7. ASSUME NEW p \in Procs, NEW r \in Requests, RecoverOne(p, r) PROVE AttemptInv'
  <2>1. \A q \in Procs, s \in Requests :
           /\ \/ pc'[q][s] = pc[q][s]
              \/ q = p /\ s = r /\ r \notin pending[p] /\ pc'[q][s] = "queued" /\ s \in pending'[q]
           /\ s \in pending'[q] => s \in pending[q] \/ pc'[q][s] = "queued"
           /\ s \in pending[q] => s \in pending'[q]
    BY <1>7, RegisterQueues DEF RecoverOne
  <2>2. UNCHANGED <<status, attempt, mode>>
    BY <1>7 DEF RecoverOne
  <2>3. status[r] \notin {"ABSENT", "FINAL_REVIEW"}
    BY <1>7 DEF RecoverOne
  <2>4. registering' \subseteq registering /\ \A q \in Procs : recovering'[q] \subseteq recovering[q]
    BY <1>7 DEF RecoverOne
  <2>5. \A x \in registering' : attempt[x[2]] = 1 => ~(x[1] = p /\ x[2] = r)
    BY <1>7 DEF RecoverOne
  <2>6. (\A s \in Requests : status[s] \in {"ABSENT", "FINAL_REVIEW"} =>
           /\ attempt[s] = 0
           /\ \A x \in registering : x[2] # s
           /\ \A q \in Procs : s \notin recovering[q] /\ pc[q][s] = "idle")'
    <3> SUFFICES ASSUME NEW s \in Requests, status[s] \in {"ABSENT", "FINAL_REVIEW"}
                 PROVE  /\ attempt[s] = 0
                        /\ \A x \in registering' : x[2] # s
                        /\ \A q \in Procs : s \notin recovering'[q] /\ pc'[q][s] = "idle"
      BY <2>2
    <3>1. /\ attempt[s] = 0
          /\ \A x \in registering : x[2] # s
          /\ \A q \in Procs : s \notin recovering[q] /\ pc[q][s] = "idle"
      OBVIOUS
    <3>2. \A x \in registering' : x[2] # s
      BY <2>4, <3>1
    <3>3. \A q \in Procs : s \notin recovering'[q]
      BY <2>4, <3>1
    <3>4. \A q \in Procs : pc'[q][s] = "idle"
      <4>1. s # r
        BY <2>3
      <4>2. \A q \in Procs : pc'[q][s] = pc[q][s]
        BY <2>1, <4>1
      <4> QED
        BY <3>1, <4>2
    <3> QED
      BY <3>1, <3>2, <3>3, <3>4
  <2>7. (\A x \in registering :
           /\ x[3] >= 1 /\ x[3] <= attempt[x[2]]
           /\ attempt[x[2]] = 1 => pc[x[1]][x[2]] = "idle")'
    BY <2>1, <2>2, <2>4, <2>5
  <2> QED
    BY <2>2, <2>6, <2>7 DEF AttemptInv
<1>8. ASSUME NEW p \in Procs, RecoveryFails(p) PROVE AttemptInv'
  BY <1>8 DEF RecoveryFails, Fault
<1>9. ASSUME NEW p \in Procs, RecoveryDone(p) PROVE AttemptInv'
  BY <1>9 DEF RecoveryDone
<1>10. ASSUME NEW p \in Procs, Drain(p) PROVE AttemptInv'
  BY <1>10 DEF Drain
<1>11. ASSUME NEW p \in Procs, Stopped(p) PROVE AttemptInv'
  BY <1>11 DEF Stopped
<1>12. ASSUME NEW p \in Procs, Crash(p) PROVE AttemptInv'
  BY <1>12 DEF Crash
<1>13. ASSUME NEW p \in Procs, NEW r \in Requests, NEW n \in 1..MaxAttempts, RegisterAfterCommit(p, r, n) PROVE AttemptInv'
  <2>1. \A q \in Procs, s \in Requests :
           /\ \/ pc'[q][s] = pc[q][s]
              \/ q = p /\ s = r /\ r \notin pending[p] /\ pc'[q][s] = "queued" /\ s \in pending'[q]
           /\ s \in pending'[q] => s \in pending[q] \/ pc'[q][s] = "queued"
           /\ s \in pending[q] => s \in pending'[q]
    BY <1>13, RegisterQueues DEF RegisterAfterCommit
  <2>2. UNCHANGED <<status, attempt, mode>>
    BY <1>13 DEF RegisterAfterCommit
  <2>3. status[r] \notin {"ABSENT", "FINAL_REVIEW"}
    BY <1>13 DEF RegisterAfterCommit
  <2>4. registering' \subseteq registering /\ \A q \in Procs : recovering'[q] \subseteq recovering[q]
    BY <1>13 DEF RegisterAfterCommit
  <2>5. \A x \in registering' : attempt[x[2]] = 1 => ~(x[1] = p /\ x[2] = r)
    BY <1>13 DEF RegisterAfterCommit
  <2>6. (\A s \in Requests : status[s] \in {"ABSENT", "FINAL_REVIEW"} =>
           /\ attempt[s] = 0
           /\ \A x \in registering : x[2] # s
           /\ \A q \in Procs : s \notin recovering[q] /\ pc[q][s] = "idle")'
    <3> SUFFICES ASSUME NEW s \in Requests, status[s] \in {"ABSENT", "FINAL_REVIEW"}
                 PROVE  /\ attempt[s] = 0
                        /\ \A x \in registering' : x[2] # s
                        /\ \A q \in Procs : s \notin recovering'[q] /\ pc'[q][s] = "idle"
      BY <2>2
    <3>1. /\ attempt[s] = 0
          /\ \A x \in registering : x[2] # s
          /\ \A q \in Procs : s \notin recovering[q] /\ pc[q][s] = "idle"
      OBVIOUS
    <3>2. \A x \in registering' : x[2] # s
      BY <2>4, <3>1
    <3>3. \A q \in Procs : s \notin recovering'[q]
      BY <2>4, <3>1
    <3>4. \A q \in Procs : pc'[q][s] = "idle"
      <4>1. s # r
        BY <2>3
      <4>2. \A q \in Procs : pc'[q][s] = pc[q][s]
        BY <2>1, <4>1
      <4> QED
        BY <3>1, <4>2
    <3> QED
      BY <3>1, <3>2, <3>3, <3>4
  <2>7. (\A x \in registering :
           /\ x[3] >= 1 /\ x[3] <= attempt[x[2]]
           /\ attempt[x[2]] = 1 => pc[x[1]][x[2]] = "idle")'
    BY <2>1, <2>2, <2>4, <2>5
  <2> QED
    BY <2>2, <2>6, <2>7 DEF AttemptInv
<1>14. ASSUME NEW p \in Procs, NEW r \in Requests, NEW n \in 1..MaxAttempts, RegisterRaises(p, r, n) PROVE AttemptInv'
  BY <1>14 DEF RegisterRaises, Fault
<1>15. ASSUME NEW p \in Procs, NEW r \in Requests, Dequeue(p, r) PROVE AttemptInv'
  BY <1>15 DEF Dequeue, Goto
<1>16. ASSUME NEW p \in Procs, NEW r \in Requests, Lock(p, r) PROVE AttemptInv'
  BY <1>16 DEF Lock, Goto
<1>17. ASSUME NEW p \in Procs, NEW r \in Requests, LockBusy(p, r) PROVE AttemptInv'
  BY <1>17 DEF LockBusy, Goto
<1>18. ASSUME NEW p \in Procs, NEW r \in Requests, LockFails(p, r) PROVE AttemptInv'
  BY <1>18 DEF LockFails, Goto, Fault
<1>19. ASSUME NEW p \in Procs, NEW r \in Requests, ReadRequest(p, r) PROVE AttemptInv'
  BY <1>19 DEF ReadRequest, Goto
<1>20. ASSUME NEW p \in Procs, NEW r \in Requests, SkipRequest(p, r) PROVE AttemptInv'
  BY <1>20 DEF SkipRequest, Goto
<1>21. ASSUME NEW p \in Procs, NEW r \in Requests, ExecuteCommits(p, r) PROVE AttemptInv'
  BY <1>21 DEF ExecuteCommits, Goto, CanComplete, CycleMatches
<1>22. ASSUME NEW p \in Procs, NEW r \in Requests, ExecuteFails(p, r) PROVE AttemptInv'
  BY <1>22 DEF ExecuteFails, Goto
<1>23. ASSUME NEW p \in Procs, NEW r \in Requests, FinalizeAsFailed(p, r) PROVE AttemptInv'
  BY <1>23 DEF FinalizeAsFailed, Goto
<1>24. ASSUME NEW p \in Procs, NEW r \in Requests, WorkerInfraError(p, r) PROVE AttemptInv'
  BY <1>24 DEF WorkerInfraError, Fault
<1>25. ASSUME NEW p \in Procs, NEW r \in Requests, Unlock(p, r) PROVE AttemptInv'
  BY <1>25 DEF Unlock, Goto
<1>26. ASSUME NEW p \in Procs, NEW r \in Requests, Leave(p, r) PROVE AttemptInv'
  BY <1>26 DEF Leave, Goto
<1>27. ASSUME NEW p \in Procs, NEW r \in Requests, LockLost(p, r) PROVE AttemptInv'
  BY <1>27 DEF LockLost
<1>28. CASE UNCHANGED vars
  BY <1>28 DEF vars
<1> QED
  BY <1>1, <1>2, <1>3, <1>4, <1>5, <1>6, <1>7, <1>8, <1>9, <1>10, <1>11,
     <1>12, <1>13, <1>14, <1>15, <1>16, <1>17, <1>18, <1>19, <1>20, <1>21,
     <1>22, <1>23, <1>24, <1>25, <1>26, <1>27, <1>28 DEF Next, UserStep,
     ProcessStep, RecoveryStep, RegisterStep, WorkerStep, WorkerTrouble

\* A worker finishes with a decided request.
LEMMA DoneStep == ASSUME TypeOK, AttemptInv, DoneInv, [Next]_vars PROVE DoneInv'
<1> USE OwnerAssumption, NoProcAssumption, NoCycleAssumption
    DEF TypeOK, AttemptInv, DoneInv, dbVars, procVars, jobVars, faultVars
<1>1. ASSUME NEW r \in Requests, Prepare(r) PROVE DoneInv'
  BY <1>1 DEF Prepare
<1>2. ASSUME NEW r \in Requests, DeleteRequest(r) PROVE DoneInv'
  BY <1>2 DEF DeleteRequest
<1>3. ASSUME NEW r \in Requests, AcknowledgeResult(r) PROVE DoneInv'
  BY <1>3 DEF AcknowledgeResult
<1>4. ASSUME NEW p \in Procs, NEW r \in Requests, StartExecution(p, r) PROVE DoneInv'
  BY <1>4 DEF StartExecution, CycleMatches
<1>5. ASSUME NEW u \in Users, EndCycle(u) PROVE DoneInv'
  BY <1>5 DEF EndCycle
<1>6. ASSUME NEW p \in Procs, StartProcess(p) PROVE DoneInv'
  BY <1>6 DEF StartProcess
<1>7. ASSUME NEW p \in Procs, NEW r \in Requests, RecoverOne(p, r) PROVE DoneInv'
  <2>1. \A q \in Procs, s \in Requests :
           /\ \/ pc'[q][s] = pc[q][s]
              \/ q = p /\ s = r /\ r \notin pending[p] /\ pc'[q][s] = "queued" /\ s \in pending'[q]
           /\ s \in pending'[q] => s \in pending[q] \/ pc'[q][s] = "queued"
           /\ s \in pending[q] => s \in pending'[q]
    BY <1>7, RegisterQueues DEF RecoverOne
  <2>2. UNCHANGED <<status, attempt, faults, crashes, registering>>
    BY <1>7 DEF RecoverOne, NoFault
  <2>3. \A q \in Procs, s \in Requests : pc'[q][s] = "unlocking" => pc[q][s] = "unlocking"
    BY <2>1
  <2> QED
    BY <2>2, <2>3
<1>8. ASSUME NEW p \in Procs, RecoveryFails(p) PROVE DoneInv'
  BY <1>8 DEF RecoveryFails, Fault
<1>9. ASSUME NEW p \in Procs, RecoveryDone(p) PROVE DoneInv'
  BY <1>9 DEF RecoveryDone
<1>10. ASSUME NEW p \in Procs, Drain(p) PROVE DoneInv'
  BY <1>10 DEF Drain
<1>11. ASSUME NEW p \in Procs, Stopped(p) PROVE DoneInv'
  BY <1>11 DEF Stopped
<1>12. ASSUME NEW p \in Procs, Crash(p) PROVE DoneInv'
  BY <1>12 DEF Crash
<1>13. ASSUME NEW p \in Procs, NEW r \in Requests, NEW n \in 1..MaxAttempts, RegisterAfterCommit(p, r, n) PROVE DoneInv'
  <2>1. \A q \in Procs, s \in Requests :
           /\ \/ pc'[q][s] = pc[q][s]
              \/ q = p /\ s = r /\ r \notin pending[p] /\ pc'[q][s] = "queued" /\ s \in pending'[q]
           /\ s \in pending'[q] => s \in pending[q] \/ pc'[q][s] = "queued"
           /\ s \in pending[q] => s \in pending'[q]
    BY <1>13, RegisterQueues DEF RegisterAfterCommit
  <2>2. UNCHANGED <<status, attempt, faults, crashes, recovering>>
    BY <1>13 DEF RegisterAfterCommit, NoFault
  <2>3. \A q \in Procs, s \in Requests : pc'[q][s] = "unlocking" => pc[q][s] = "unlocking"
    BY <2>1
  <2> QED
    BY <2>2, <2>3
<1>14. ASSUME NEW p \in Procs, NEW r \in Requests, NEW n \in 1..MaxAttempts, RegisterRaises(p, r, n) PROVE DoneInv'
  BY <1>14 DEF RegisterRaises, Fault
<1>15. ASSUME NEW p \in Procs, NEW r \in Requests, Dequeue(p, r) PROVE DoneInv'
  BY <1>15 DEF Dequeue, Goto
<1>16. ASSUME NEW p \in Procs, NEW r \in Requests, Lock(p, r) PROVE DoneInv'
  BY <1>16 DEF Lock, Goto
<1>17. ASSUME NEW p \in Procs, NEW r \in Requests, LockBusy(p, r) PROVE DoneInv'
  BY <1>17 DEF LockBusy, Goto
<1>18. ASSUME NEW p \in Procs, NEW r \in Requests, LockFails(p, r) PROVE DoneInv'
  BY <1>18 DEF LockFails, Goto, Fault
<1>19. ASSUME NEW p \in Procs, NEW r \in Requests, ReadRequest(p, r) PROVE DoneInv'
  BY <1>19 DEF ReadRequest, Goto
<1>20. ASSUME NEW p \in Procs, NEW r \in Requests, SkipRequest(p, r) PROVE DoneInv'
  BY <1>20 DEF SkipRequest, Goto
<1>21. ASSUME NEW p \in Procs, NEW r \in Requests, ExecuteCommits(p, r) PROVE DoneInv'
  BY <1>21 DEF ExecuteCommits, Goto, CanComplete, CycleMatches
<1>22. ASSUME NEW p \in Procs, NEW r \in Requests, ExecuteFails(p, r) PROVE DoneInv'
  BY <1>22 DEF ExecuteFails, Goto
<1>23. ASSUME NEW p \in Procs, NEW r \in Requests, FinalizeAsFailed(p, r) PROVE DoneInv'
  BY <1>23 DEF FinalizeAsFailed, Goto
<1>24. ASSUME NEW p \in Procs, NEW r \in Requests, WorkerInfraError(p, r) PROVE DoneInv'
  BY <1>24 DEF WorkerInfraError, Fault
<1>25. ASSUME NEW p \in Procs, NEW r \in Requests, Unlock(p, r) PROVE DoneInv'
  BY <1>25 DEF Unlock, Goto
<1>26. ASSUME NEW p \in Procs, NEW r \in Requests, Leave(p, r) PROVE DoneInv'
  BY <1>26 DEF Leave, Goto
<1>27. ASSUME NEW p \in Procs, NEW r \in Requests, LockLost(p, r) PROVE DoneInv'
  BY <1>27 DEF LockLost
<1>28. CASE UNCHANGED vars
  BY <1>28 DEF vars
<1> QED
  BY <1>1, <1>2, <1>3, <1>4, <1>5, <1>6, <1>7, <1>8, <1>9, <1>10, <1>11,
     <1>12, <1>13, <1>14, <1>15, <1>16, <1>17, <1>18, <1>19, <1>20, <1>21,
     <1>22, <1>23, <1>24, <1>25, <1>26, <1>27, <1>28 DEF Next, UserStep,
     ProcessStep, RecoveryStep, RegisterStep, WorkerStep, WorkerTrouble

\* A request keeps its worker when no registration, recovery or undecided job of
\* it goes away.
LEMMA WorkerStays ==
  ASSUME NEW s \in Requests, HasWorker(s),
         \A x \in registering : x[2] = s => x \in registering',
         \A q \in Procs : s \in recovering[q] => s \in recovering'[q],
         \A q \in Procs : pc[q][s] \in Undecided => pc'[q][s] \in Undecided
  PROVE  HasWorker(s)'
BY DEF HasWorker

\* A first attempt keeps its worker.
LEMMA FirstAttemptStep == ASSUME TypeOK, MemoryInv, DispatcherInv, AttemptInv, DoneInv, FirstAttemptHasWorker, [Next]_vars PROVE FirstAttemptHasWorker'
<1> USE OwnerAssumption, NoProcAssumption, NoCycleAssumption
    DEF TypeOK, MemoryInv, DispatcherInv, AttemptInv, DoneInv, InLock, Mode, dbVars, procVars, jobVars, faultVars
<1>1. ASSUME NEW r \in Requests, Prepare(r) PROVE FirstAttemptHasWorker'
  <2> SUFFICES ASSUME NEW s \in Requests, status'[s] = "EXECUTING", attempt'[s] = 1,
                      faults' = 0, crashes' = 0
               PROVE  HasWorker(s)'
    BY DEF FirstAttemptHasWorker
  <2>1. status[s] = "EXECUTING"
    BY <1>1 DEF Prepare
  <2>2. UNCHANGED <<attempt, faults, crashes, registering, recovering, pc>>
    BY <1>1 DEF Prepare
  <2>3. HasWorker(s)
    BY <2>1, <2>2 DEF FirstAttemptHasWorker
  <2> HIDE DEF TypeOK, MemoryInv, DispatcherInv, AttemptInv, DoneInv, FirstAttemptHasWorker
  <2> QED
    BY <2>2, <2>3, WorkerStays
<1>2. ASSUME NEW r \in Requests, DeleteRequest(r) PROVE FirstAttemptHasWorker'
  <2> SUFFICES ASSUME NEW s \in Requests, status'[s] = "EXECUTING", attempt'[s] = 1,
                      faults' = 0, crashes' = 0
               PROVE  HasWorker(s)'
    BY DEF FirstAttemptHasWorker
  <2>1. CASE s = r
    BY <1>2, <2>1 DEF DeleteRequest
  <2>2. CASE s # r
    <3>1. status[s] = "EXECUTING" /\ attempt[s] = 1 /\ faults = 0 /\ crashes = 0
      BY <1>2, <2>2 DEF DeleteRequest
    <3>2. HasWorker(s)
      BY <3>1 DEF FirstAttemptHasWorker
    <3>3. /\ \A x \in registering : x[2] = s => x \in registering'
          /\ \A q \in Procs : (s \in recovering[q] => s \in recovering'[q]) /\ pc'[q][s] = pc[q][s]
      BY <1>2, <2>2 DEF DeleteRequest
    <3> HIDE DEF TypeOK, MemoryInv, DispatcherInv, AttemptInv, DoneInv, FirstAttemptHasWorker
    <3> QED
      BY <3>2, <3>3, WorkerStays
  <2> QED
    BY <2>1, <2>2
<1>3. ASSUME NEW r \in Requests, AcknowledgeResult(r) PROVE FirstAttemptHasWorker'
  BY <1>3 DEF FirstAttemptHasWorker, HasWorker, Undecided, AcknowledgeResult
<1>4. ASSUME NEW p \in Procs, NEW r \in Requests, StartExecution(p, r) PROVE FirstAttemptHasWorker'
  <2> SUFFICES ASSUME NEW s \in Requests, status'[s] = "EXECUTING", attempt'[s] = 1,
                      faults' = 0, crashes' = 0
               PROVE  HasWorker(s)'
    BY DEF FirstAttemptHasWorker
  <2>1. CASE s = r
    <3>1. <<p, r, attempt[r] + 1>> \in registering'
      BY <1>4 DEF StartExecution
    <3> QED
      BY <2>1, <3>1 DEF HasWorker
  <2>2. CASE s # r
    <3>1. status[s] = "EXECUTING" /\ attempt[s] = 1 /\ faults = 0 /\ crashes = 0
      BY <1>4, <2>2 DEF StartExecution, CycleMatches
    <3>2. HasWorker(s)
      BY <3>1 DEF FirstAttemptHasWorker
    <3>3. /\ \A x \in registering : x[2] = s => x \in registering'
          /\ \A q \in Procs : (s \in recovering[q] => s \in recovering'[q]) /\ pc'[q][s] = pc[q][s]
      BY <1>4, <2>2 DEF StartExecution, CycleMatches
    <3> HIDE DEF TypeOK, MemoryInv, DispatcherInv, AttemptInv, DoneInv, FirstAttemptHasWorker
    <3> QED
      BY <3>2, <3>3, WorkerStays
  <2> QED
    BY <2>1, <2>2
<1>5. ASSUME NEW u \in Users, EndCycle(u) PROVE FirstAttemptHasWorker'
  BY <1>5 DEF FirstAttemptHasWorker, HasWorker, Undecided, EndCycle
<1>6. ASSUME NEW p \in Procs, StartProcess(p) PROVE FirstAttemptHasWorker'
  BY <1>6 DEF FirstAttemptHasWorker, HasWorker, Undecided, StartProcess
<1>7. ASSUME NEW p \in Procs, NEW r \in Requests, RecoverOne(p, r) PROVE FirstAttemptHasWorker'
  <2> SUFFICES ASSUME NEW s \in Requests, status'[s] = "EXECUTING", attempt'[s] = 1,
                      faults' = 0, crashes' = 0
               PROVE  HasWorker(s)'
    BY DEF FirstAttemptHasWorker
  <2>1. CASE s = r
    <3>1. Register(p, r) /\ UNCHANGED <<status, attempt, faults>>
      BY <1>7 DEF RecoverOne, NoFault
    <3>2. pc[p][r] = "idle"
      BY <1>7, <2>1, <3>1 DEF RecoverOne
    <3>3. r \notin pending[p]
      BY <3>1, <3>2
    <3>4. pc'[p][r] = "queued"
      BY <3>1, <3>3, RegisterAccepts
    <3> QED
      BY <2>1, <3>4 DEF HasWorker, Undecided
  <2>2. CASE s # r
    <3>1. status[s] = "EXECUTING" /\ attempt[s] = 1 /\ faults = 0 /\ crashes = 0
      BY <1>7, <2>2 DEF RecoverOne, Register, NoFault
    <3>2. HasWorker(s)
      BY <3>1 DEF FirstAttemptHasWorker
    <3>3. /\ \A x \in registering : x[2] = s => x \in registering'
          /\ \A q \in Procs : (s \in recovering[q] => s \in recovering'[q]) /\ pc'[q][s] = pc[q][s]
      <4>1. \A q \in Procs : pc'[q][s] = pc[q][s]
        BY <1>7, <2>2, RegisterQueues DEF RecoverOne
      <4>2. \A q \in Procs : s \in recovering[q] => s \in recovering'[q]
        BY <1>7, <2>2 DEF RecoverOne
      <4>3. \A x \in registering : x[2] = s => x \in registering'
        BY <1>7, <2>2 DEF RecoverOne
      <4> QED
        BY <4>1, <4>2, <4>3
    <3> HIDE DEF TypeOK, MemoryInv, DispatcherInv, AttemptInv, DoneInv, FirstAttemptHasWorker
    <3> QED
      BY <3>2, <3>3, WorkerStays
  <2> QED
    BY <2>1, <2>2
<1>8. ASSUME NEW p \in Procs, RecoveryFails(p) PROVE FirstAttemptHasWorker'
  <2>1. faults' # 0
    BY <1>8 DEF RecoveryFails, Fault
  <2> HIDE DEF TypeOK, MemoryInv, DispatcherInv, AttemptInv, DoneInv
  <2> QED
    BY <2>1 DEF FirstAttemptHasWorker
<1>9. ASSUME NEW p \in Procs, RecoveryDone(p) PROVE FirstAttemptHasWorker'
  BY <1>9 DEF FirstAttemptHasWorker, HasWorker, Undecided, RecoveryDone
<1>10. ASSUME NEW p \in Procs, Drain(p) PROVE FirstAttemptHasWorker'
  BY <1>10 DEF FirstAttemptHasWorker, HasWorker, Undecided, Drain
<1>11. ASSUME NEW p \in Procs, Stopped(p) PROVE FirstAttemptHasWorker'
  <2> SUFFICES ASSUME NEW s \in Requests, status'[s] = "EXECUTING", attempt'[s] = 1,
                      faults' = 0, crashes' = 0
               PROVE  HasWorker(s)'
    BY DEF FirstAttemptHasWorker
  <2>1. UNCHANGED <<status, attempt, faults, crashes, registering, recovering, pc>>
    BY <1>11 DEF Stopped
  <2>2. HasWorker(s)
    BY <2>1 DEF FirstAttemptHasWorker
  <2> HIDE DEF TypeOK, MemoryInv, DispatcherInv, AttemptInv, DoneInv, FirstAttemptHasWorker
  <2> QED
    BY <2>1, <2>2, WorkerStays
<1>12. ASSUME NEW p \in Procs, Crash(p) PROVE FirstAttemptHasWorker'
  BY <1>12 DEF FirstAttemptHasWorker, HasWorker, Undecided, Crash
<1>13. ASSUME NEW p \in Procs, NEW r \in Requests, NEW n \in 1..MaxAttempts, RegisterAfterCommit(p, r, n) PROVE FirstAttemptHasWorker'
  <2> SUFFICES ASSUME NEW s \in Requests, status'[s] = "EXECUTING", attempt'[s] = 1,
                      faults' = 0, crashes' = 0
               PROVE  HasWorker(s)'
    BY DEF FirstAttemptHasWorker
  <2>1. CASE s = r
    <3>1. Register(p, r) /\ UNCHANGED <<status, attempt, faults>>
      BY <1>13 DEF RegisterAfterCommit, NoFault
    <3>2. pc[p][r] = "idle"
      BY <1>13, <2>1, <3>1 DEF RegisterAfterCommit
    <3>3. r \notin pending[p]
      BY <3>1, <3>2
    <3>4. pc'[p][r] = "queued"
      BY <3>1, <3>3, RegisterAccepts
    <3> QED
      BY <2>1, <3>4 DEF HasWorker, Undecided
  <2>2. CASE s # r
    <3>1. status[s] = "EXECUTING" /\ attempt[s] = 1 /\ faults = 0 /\ crashes = 0
      BY <1>13, <2>2 DEF RegisterAfterCommit, Register, NoFault
    <3>2. HasWorker(s)
      BY <3>1 DEF FirstAttemptHasWorker
    <3>3. /\ \A x \in registering : x[2] = s => x \in registering'
          /\ \A q \in Procs : (s \in recovering[q] => s \in recovering'[q]) /\ pc'[q][s] = pc[q][s]
      <4>1. \A q \in Procs : pc'[q][s] = pc[q][s]
        BY <1>13, <2>2, RegisterQueues DEF RegisterAfterCommit
      <4>2. \A q \in Procs : s \in recovering[q] => s \in recovering'[q]
        BY <1>13, <2>2 DEF RegisterAfterCommit
      <4>3. \A x \in registering : x[2] = s => x \in registering'
        BY <1>13, <2>2 DEF RegisterAfterCommit
      <4> QED
        BY <4>1, <4>2, <4>3
    <3> HIDE DEF TypeOK, MemoryInv, DispatcherInv, AttemptInv, DoneInv, FirstAttemptHasWorker
    <3> QED
      BY <3>2, <3>3, WorkerStays
  <2> QED
    BY <2>1, <2>2
<1>14. ASSUME NEW p \in Procs, NEW r \in Requests, NEW n \in 1..MaxAttempts, RegisterRaises(p, r, n) PROVE FirstAttemptHasWorker'
  BY <1>14 DEF FirstAttemptHasWorker, HasWorker, Undecided, RegisterRaises, Fault
<1>15. ASSUME NEW p \in Procs, NEW r \in Requests, Dequeue(p, r) PROVE FirstAttemptHasWorker'
  <2> SUFFICES ASSUME NEW s \in Requests, status'[s] = "EXECUTING", attempt'[s] = 1,
                      faults' = 0, crashes' = 0
               PROVE  HasWorker(s)'
    BY DEF FirstAttemptHasWorker
  <2>1. CASE s = r
    <3>1. pc'[p][r] \in Undecided
      BY <1>15 DEF Dequeue, Goto, Undecided
    <3> QED
      BY <2>1, <3>1 DEF HasWorker
  <2>2. CASE s # r
    <3>1. status[s] = "EXECUTING" /\ attempt[s] = 1 /\ faults = 0 /\ crashes = 0
      BY <1>15, <2>2 DEF Dequeue, Goto
    <3>2. HasWorker(s)
      BY <3>1 DEF FirstAttemptHasWorker
    <3>3. /\ UNCHANGED <<registering, recovering>>
          /\ \A q \in Procs : pc'[q][s] = pc[q][s]
      BY <1>15, <2>2 DEF Dequeue, Goto
    <3> HIDE DEF TypeOK, MemoryInv, DispatcherInv, AttemptInv, DoneInv, FirstAttemptHasWorker
    <3> QED
      BY <3>2, <3>3, WorkerStays
  <2> QED
    BY <2>1, <2>2
<1>16. ASSUME NEW p \in Procs, NEW r \in Requests, Lock(p, r) PROVE FirstAttemptHasWorker'
  <2> SUFFICES ASSUME NEW s \in Requests, status'[s] = "EXECUTING", attempt'[s] = 1,
                      faults' = 0, crashes' = 0
               PROVE  HasWorker(s)'
    BY DEF FirstAttemptHasWorker
  <2>1. CASE s = r
    <3>1. pc'[p][r] \in Undecided
      BY <1>16 DEF Lock, Goto, Undecided
    <3> QED
      BY <2>1, <3>1 DEF HasWorker
  <2>2. CASE s # r
    <3>1. status[s] = "EXECUTING" /\ attempt[s] = 1 /\ faults = 0 /\ crashes = 0
      BY <1>16, <2>2 DEF Lock, Goto
    <3>2. HasWorker(s)
      BY <3>1 DEF FirstAttemptHasWorker
    <3>3. /\ \A x \in registering : x[2] = s => x \in registering'
          /\ \A q \in Procs : (s \in recovering[q] => s \in recovering'[q]) /\ pc'[q][s] = pc[q][s]
      BY <1>16, <2>2 DEF Lock, Goto
    <3> HIDE DEF TypeOK, MemoryInv, DispatcherInv, AttemptInv, DoneInv, FirstAttemptHasWorker
    <3> QED
      BY <3>2, <3>3, WorkerStays
  <2> QED
    BY <2>1, <2>2
<1>17. ASSUME NEW p \in Procs, NEW r \in Requests, LockBusy(p, r) PROVE FirstAttemptHasWorker'
  <2> SUFFICES ASSUME NEW s \in Requests, status'[s] = "EXECUTING", attempt'[s] = 1,
                      faults' = 0, crashes' = 0
               PROVE  HasWorker(s)'
    BY DEF FirstAttemptHasWorker
  <2>1. CASE s = r
    <3>1. status[r] = "EXECUTING" /\ attempt[r] = 1 /\ faults = 0 /\ crashes = 0
      BY <1>17, <2>1 DEF LockBusy
    <3>2. PICK q \in Procs : lock[r] = q
      BY <1>17 DEF LockBusy
    <3>3. pc[q][r] \in InLock \ {"unlocking"}
      BY <3>1, <3>2
    <3>4. q # p /\ pc'[q][r] = pc[q][r]
      BY <1>17, <3>3 DEF LockBusy, Goto
    <3>5. pc'[q][r] \in Undecided
      BY <3>3, <3>4 DEF Undecided
    <3> QED
      BY <2>1, <3>5 DEF HasWorker
  <2>2. CASE s # r
    <3>1. status[s] = "EXECUTING" /\ attempt[s] = 1 /\ faults = 0 /\ crashes = 0
      BY <1>17, <2>2 DEF LockBusy, Goto
    <3>2. HasWorker(s)
      BY <3>1 DEF FirstAttemptHasWorker
    <3>3. /\ \A x \in registering : x[2] = s => x \in registering'
          /\ \A q \in Procs : (s \in recovering[q] => s \in recovering'[q]) /\ pc'[q][s] = pc[q][s]
      BY <1>17, <2>2 DEF LockBusy, Goto
    <3> HIDE DEF TypeOK, MemoryInv, DispatcherInv, AttemptInv, DoneInv, FirstAttemptHasWorker
    <3> QED
      BY <3>2, <3>3, WorkerStays
  <2> QED
    BY <2>1, <2>2
<1>18. ASSUME NEW p \in Procs, NEW r \in Requests, LockFails(p, r) PROVE FirstAttemptHasWorker'
  BY <1>18 DEF FirstAttemptHasWorker, HasWorker, Undecided, LockFails, Goto, Fault
<1>19. ASSUME NEW p \in Procs, NEW r \in Requests, ReadRequest(p, r) PROVE FirstAttemptHasWorker'
  <2> SUFFICES ASSUME NEW s \in Requests, status'[s] = "EXECUTING", attempt'[s] = 1,
                      faults' = 0, crashes' = 0
               PROVE  HasWorker(s)'
    BY DEF FirstAttemptHasWorker
  <2>1. CASE s = r
    <3>1. pc'[p][r] \in Undecided
      BY <1>19 DEF ReadRequest, Goto, Undecided
    <3> QED
      BY <2>1, <3>1 DEF HasWorker
  <2>2. CASE s # r
    <3>1. status[s] = "EXECUTING" /\ attempt[s] = 1 /\ faults = 0 /\ crashes = 0
      BY <1>19, <2>2 DEF ReadRequest, Goto
    <3>2. HasWorker(s)
      BY <3>1 DEF FirstAttemptHasWorker
    <3>3. /\ \A x \in registering : x[2] = s => x \in registering'
          /\ \A q \in Procs : (s \in recovering[q] => s \in recovering'[q]) /\ pc'[q][s] = pc[q][s]
      BY <1>19, <2>2 DEF ReadRequest, Goto
    <3> HIDE DEF TypeOK, MemoryInv, DispatcherInv, AttemptInv, DoneInv, FirstAttemptHasWorker
    <3> QED
      BY <3>2, <3>3, WorkerStays
  <2> QED
    BY <2>1, <2>2
<1>20. ASSUME NEW p \in Procs, NEW r \in Requests, SkipRequest(p, r) PROVE FirstAttemptHasWorker'
  <2> SUFFICES ASSUME NEW s \in Requests, status'[s] = "EXECUTING", attempt'[s] = 1,
                      faults' = 0, crashes' = 0
               PROVE  HasWorker(s)'
    BY DEF FirstAttemptHasWorker
  <2>1. CASE s = r
    BY <1>20, <2>1 DEF SkipRequest
  <2>2. CASE s # r
    <3>1. status[s] = "EXECUTING" /\ attempt[s] = 1 /\ faults = 0 /\ crashes = 0
      BY <1>20, <2>2 DEF SkipRequest, Goto
    <3>2. HasWorker(s)
      BY <3>1 DEF FirstAttemptHasWorker
    <3>3. /\ \A x \in registering : x[2] = s => x \in registering'
          /\ \A q \in Procs : (s \in recovering[q] => s \in recovering'[q]) /\ pc'[q][s] = pc[q][s]
      BY <1>20, <2>2 DEF SkipRequest, Goto
    <3> HIDE DEF TypeOK, MemoryInv, DispatcherInv, AttemptInv, DoneInv, FirstAttemptHasWorker
    <3> QED
      BY <3>2, <3>3, WorkerStays
  <2> QED
    BY <2>1, <2>2
<1>21. ASSUME NEW p \in Procs, NEW r \in Requests, ExecuteCommits(p, r) PROVE FirstAttemptHasWorker'
  <2> SUFFICES ASSUME NEW s \in Requests, status'[s] = "EXECUTING", attempt'[s] = 1,
                      faults' = 0, crashes' = 0
               PROVE  HasWorker(s)'
    BY DEF FirstAttemptHasWorker
  <2>1. CASE s = r
    BY <1>21, <2>1 DEF ExecuteCommits
  <2>2. CASE s # r
    <3>1. status[s] = "EXECUTING" /\ attempt[s] = 1 /\ faults = 0 /\ crashes = 0
      BY <1>21, <2>2 DEF ExecuteCommits, Goto
    <3>2. HasWorker(s)
      BY <3>1 DEF FirstAttemptHasWorker
    <3>3. /\ UNCHANGED <<registering, recovering>>
          /\ \A q \in Procs : pc'[q][s] = pc[q][s]
      BY <1>21, <2>2 DEF ExecuteCommits, Goto
    <3> HIDE DEF TypeOK, MemoryInv, DispatcherInv, AttemptInv, DoneInv, FirstAttemptHasWorker
    <3> QED
      BY <3>2, <3>3, WorkerStays
  <2> QED
    BY <2>1, <2>2
<1>22. ASSUME NEW p \in Procs, NEW r \in Requests, ExecuteFails(p, r) PROVE FirstAttemptHasWorker'
  BY <1>22 DEF FirstAttemptHasWorker, HasWorker, Undecided, ExecuteFails, Goto
<1>23. ASSUME NEW p \in Procs, NEW r \in Requests, FinalizeAsFailed(p, r) PROVE FirstAttemptHasWorker'
  <2> SUFFICES ASSUME NEW s \in Requests, status'[s] = "EXECUTING", attempt'[s] = 1,
                      faults' = 0, crashes' = 0
               PROVE  HasWorker(s)'
    BY DEF FirstAttemptHasWorker
  <2>1. CASE s = r
    BY <1>23, <2>1 DEF FinalizeAsFailed
  <2>2. CASE s # r
    <3>1. status[s] = "EXECUTING" /\ attempt[s] = 1 /\ faults = 0 /\ crashes = 0
      BY <1>23, <2>2 DEF FinalizeAsFailed, Goto
    <3>2. HasWorker(s)
      BY <3>1 DEF FirstAttemptHasWorker
    <3>3. /\ \A x \in registering : x[2] = s => x \in registering'
          /\ \A q \in Procs : (s \in recovering[q] => s \in recovering'[q]) /\ pc'[q][s] = pc[q][s]
      BY <1>23, <2>2 DEF FinalizeAsFailed, Goto
    <3> HIDE DEF TypeOK, MemoryInv, DispatcherInv, AttemptInv, DoneInv, FirstAttemptHasWorker
    <3> QED
      BY <3>2, <3>3, WorkerStays
  <2> QED
    BY <2>1, <2>2
<1>24. ASSUME NEW p \in Procs, NEW r \in Requests, WorkerInfraError(p, r) PROVE FirstAttemptHasWorker'
  BY <1>24 DEF FirstAttemptHasWorker, HasWorker, Undecided, WorkerInfraError, Fault
<1>25. ASSUME NEW p \in Procs, NEW r \in Requests, Unlock(p, r) PROVE FirstAttemptHasWorker'
  <2> SUFFICES ASSUME NEW s \in Requests, status'[s] = "EXECUTING", attempt'[s] = 1,
                      faults' = 0, crashes' = 0
               PROVE  HasWorker(s)'
    BY DEF FirstAttemptHasWorker
  <2>1. UNCHANGED <<status, attempt, faults, crashes, registering, recovering>>
    BY <1>25 DEF Unlock
  <2>2. \A q \in Procs : pc[q][s] \in Undecided => pc'[q][s] = pc[q][s]
    BY <1>25 DEF Unlock, Goto, Undecided
  <2>3. HasWorker(s)
    BY <2>1 DEF FirstAttemptHasWorker
  <2> HIDE DEF TypeOK, MemoryInv, DispatcherInv, AttemptInv, DoneInv, FirstAttemptHasWorker
  <2> QED
    BY <2>1, <2>2, <2>3, WorkerStays
<1>26. ASSUME NEW p \in Procs, NEW r \in Requests, Leave(p, r) PROVE FirstAttemptHasWorker'
  <2> SUFFICES ASSUME NEW s \in Requests, status'[s] = "EXECUTING", attempt'[s] = 1,
                      faults' = 0, crashes' = 0
               PROVE  HasWorker(s)'
    BY DEF FirstAttemptHasWorker
  <2>1. UNCHANGED <<status, attempt, faults, crashes, registering, recovering>>
    BY <1>26 DEF Leave
  <2>2. \A q \in Procs : pc[q][s] \in Undecided => pc'[q][s] = pc[q][s]
    BY <1>26 DEF Leave, Goto, Undecided
  <2>3. HasWorker(s)
    BY <2>1 DEF FirstAttemptHasWorker
  <2> HIDE DEF TypeOK, MemoryInv, DispatcherInv, AttemptInv, DoneInv, FirstAttemptHasWorker
  <2> QED
    BY <2>1, <2>2, <2>3, WorkerStays
<1>27. ASSUME NEW p \in Procs, NEW r \in Requests, LockLost(p, r) PROVE FirstAttemptHasWorker'
  BY <1>27 DEF FirstAttemptHasWorker, HasWorker, Undecided, LockLost
<1>28. CASE UNCHANGED vars
  BY <1>28 DEF FirstAttemptHasWorker, HasWorker, Undecided, vars
<1> QED
  BY <1>1, <1>2, <1>3, <1>4, <1>5, <1>6, <1>7, <1>8, <1>9, <1>10, <1>11,
     <1>12, <1>13, <1>14, <1>15, <1>16, <1>17, <1>18, <1>19, <1>20, <1>21,
     <1>22, <1>23, <1>24, <1>25, <1>26, <1>27, <1>28 DEF Next, UserStep,
     ProcessStep, RecoveryStep, RegisterStep, WorkerStep, WorkerTrouble

\* For every number of processes, requests and retries: without an
\* infrastructure error or a kill, the first execution of a request always has
\* a registration, a recovery or a job that will still carry it out.
THEOREM FirstAttemptsHaveWorkers == Spec => []FirstAttemptHasWorker
<1> DEFINE Inv == TypeOK /\ MemoryInv /\ DispatcherInv /\ AttemptInv /\ DoneInv /\ FirstAttemptHasWorker
<1>1. Init => Inv
  BY NoProcAssumption
     DEF Init, TypeOK, Status, Mode, JobState, MemoryInv, DispatcherInv, AttemptInv,
         DoneInv, FirstAttemptHasWorker
<1>2. Inv /\ [Next]_vars => Inv'
  BY TypeStep, MemoryStep, DispatcherStep, AttemptStep, DoneStep, FirstAttemptStep
<1>3. QED
  BY <1>1, <1>2, PTL DEF Spec
===============================================================================
