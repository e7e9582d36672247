SPECIFICATION Spec
CONSTANTS
  FirstModes = {"EXECUTION_FAILED"}
  MaxAttempts = 1
  None = none
  Unread = unread
  Failed = failed
INVARIANT BoundaryTimerKept
