CONSTANTS
  t1 = t1
  t2 = t2
  none = none
  Attempts = {t1,t2}
  NoAttempt = none
  MaxPolls = 2
  MaxOpen = 2
  Restarts = TRUE
  MaxCancels = 2
  MaxFaults = 2
SPECIFICATION LiveSpec
INVARIANTS FormReleased OverlapNeedsCancel EarlyCancelHolds
PROPERTIES AttemptEnds
CHECK_DEADLOCK FALSE
