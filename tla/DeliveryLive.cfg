SPECIFICATION FairSpec
CONSTANTS
  Link = {c1}
  QueueMax = 2
  Burst = 1
  SyncCap = 1
  Scenarios <- SingleLink
CHECK_DEADLOCK FALSE
PROPERTIES FlushedIsShown DeliversAsMailbox
