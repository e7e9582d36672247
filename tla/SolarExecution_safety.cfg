CONSTANTS
  u1 = u1  u2 = u2  r1 = r1  r2 = r2  p1 = p1  p2 = p2
  NoProc = NoProc  NoCycle = NoCycle
  Users = {u1}  Requests = {r1, r2}  Owner <- OneUser
  Procs = {p1, p2}
  PoolSize = 1  MaxAttempts = 2  MaxFaults = 1  MaxCrashes = 1  MaxLockLosses = 0
SPECIFICATION Spec
SYMMETRY OneUserSymmetry
CHECK_DEADLOCK FALSE
INVARIANTS TypeOK SingleWorker WorkerOwnsAttempt CycleHasCreator FirstAttemptHasWorker
