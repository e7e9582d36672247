SPECIFICATION Spec
CONSTANTS
  Tasks = {t1, t2}
  Last = 2
  Procs = {p1}
  None = none
  InitialMinutes = 1
  Eager = FALSE
  MaxFaults = 0
  MaxCrashes = 0
  MaxOverruns = 1
  MaxRaces = 0
  MaxExecs = 1
INVARIANT FinalPeriodSettled
