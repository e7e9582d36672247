SPECIFICATION Spec
CONSTANTS
  Tasks = {t1}
  Last = 2
  Procs = {p1}
  None = none
  InitialMinutes = 3
  Eager = TRUE
  MaxFaults = 2
  MaxCrashes = 1
  MaxOverruns = 0
  MaxRaces = 0
  MaxExecs = 0
INVARIANT OpenCheckInSettleable
