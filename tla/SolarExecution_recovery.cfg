CONSTANTS
  u1 = u1  u2 = u2  r1 = r1  r2 = r2  p1 = p1  p2 = p2
  NoProc = NoProc  NoCycle = NoCycle
  Users = {u1}  Requests = {r1}  Owner <- OneRequest
  Procs = {p1, p2}
  PoolSize = 1  MaxAttempts = 2  MaxFaults = 1  MaxCrashes = 1  MaxLockLosses = 1
SPECIFICATION FairSpec
CHECK_DEADLOCK FALSE
INVARIANTS AppliedOnce
PROPERTIES ImplementsContract RecoveryResolves
