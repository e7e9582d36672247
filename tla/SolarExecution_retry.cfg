CONSTANTS
  u1 = u1  u2 = u2  r1 = r1  r2 = r2  p1 = p1  p2 = p2
  NoProc = NoProc  NoCycle = NoCycle
  Users = {u1}  Requests = {r1}  Owner <- OneRequest
  Procs = {p1}
  PoolSize = 4  MaxAttempts = 2  MaxFaults = 0  MaxCrashes = 0  MaxLockLosses = 0
SPECIFICATION FairSpec
CHECK_DEADLOCK FALSE
PROPERTY EveryAttemptResolves
