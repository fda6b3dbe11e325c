SPECIFICATION FairSpec
CONSTANTS
  MaxSize = 3
  TailLimit = 2
  Ttls = {0, 1}
  MaxMsgs = 4
  MaxTime = 3
  MaxUpsets = 2
CHECK_DEADLOCK FALSE
INVARIANTS TypeOK NoHoles RecentIsKept QuietIsStored
PROPERTIES NeverComesBack ExpiredLeaves
