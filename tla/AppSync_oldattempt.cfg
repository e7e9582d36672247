SPECIFICATION Spec
CONSTANTS
  FirstModes = {"EXECUTION_FAILED"}
  MaxAttempts = 2
  None = none
  Unread = unread
  Failed = failed
PROPERTY NoOldAttempt
