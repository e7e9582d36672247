SPECIFICATION Spec
CONSTANTS
  Tasks = {t1}
  Last = 2
  Procs = {p1}
  None = none
  InitialMinutes = 2
  Eager = FALSE
  MaxFaults = 1
  MaxCrashes = 1
  MaxOverruns = 1
  MaxRaces = 1
  MaxExecs = 1
INVARIANT TypeOK
INVARIANT MinutesOnce
INVARIANT CycleEndsOnce
PROPERTY ResultsKept
