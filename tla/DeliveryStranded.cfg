SPECIFICATION Spec
CONSTANTS
  Link = {c1}
  QueueMax = 2
  Burst = 2
  SyncCap = 2
  Scenarios <- OneLine
CHECK_DEADLOCK FALSE
INVARIANT NothingStranded
