SPECIFICATION FairSpec
CONSTANTS
  FirstModes = {"FINAL_REVIEW"}
  MaxAttempts = 1
  None = none
  Unread = unread
  Failed = failed
INVARIANTS TypeOK PollingGoesOn LoadsBringNews
PROPERTY ScreenCatchesUp
