SPECIFICATION Spec
CONSTANTS
  FirstModes = {"FINAL_REVIEW", "EXECUTION_FAILED"}
  MaxAttempts = 2
  None = none
  Unread = unread
  Failed = failed
INVARIANTS TypeOK PollingGoesOn LoadsBringNews
