SPECIFICATION FairSpec
CONSTANTS
  Tasks = {t1}
  Last = 2
  Procs = {p1}
  None = none
  InitialMinutes = 3
  Eager = FALSE
  MaxFaults = 0
  MaxCrashes = 1
  MaxOverruns = 0
  MaxRaces = 0
  MaxExecs = 1
INVARIANT OldestFirst
INVARIANT PlannedWithinNeed
PROPERTY DuePeriodsSettle
