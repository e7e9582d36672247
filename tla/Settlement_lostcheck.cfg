SPECIFICATION Spec
CONSTANTS
  Tasks = {t1}
  Last = 2
  Procs = {p1}
  None = none
  InitialMinutes = 3
  Eager = TRUE
  MaxFaults = 0
  MaxCrashes = 0
  MaxOverruns = 0
  MaxRaces = 1
  MaxExecs = 0
PROPERTY CheckedKept
