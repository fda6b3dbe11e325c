SPECIFICATION FairSpec
CONSTANTS
  Dial = {d1, d2}
  Threshold = 2
  MaxAttempts = 3
  Scenarios <- MCScenarios
CHECK_DEADLOCK FALSE
INVARIANTS TypeOK EntryWillGo OpenIsListed
PROPERTIES EventuallyConnected BundleFindsAWay
