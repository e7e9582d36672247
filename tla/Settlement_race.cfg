SPECIFICATION Spec
CONSTANTS
  Tasks = {t1}
  Last = 2
  Procs = {p1, p2}
  None = none
  InitialMinutes = 2
  Eager = FALSE
  MaxFaults = 0
  MaxCrashes = 0
  MaxOverruns = 0
  MaxRaces = 0
  MaxExecs = 1
INVARIANT OldestFirst
INVARIANT PlannedWithinNeed
SYMMETRY TaskAndProcSymmetry
