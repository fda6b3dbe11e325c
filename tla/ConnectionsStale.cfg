SPECIFICATION FairSpec
CONSTANTS
  Dial = {d1}
  Threshold = 2
  MaxAttempts = 3
  Scenarios <- Undisturbed
CHECK_DEADLOCK FALSE
PROPERTY StaleIsDropped
