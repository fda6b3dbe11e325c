SPECIFICATION Spec
CONSTANTS
  Link = {c1, c2}
  QueueMax = 2
  Burst = 1
  SyncCap = 1
  Scenarios <- MCScenarios
CHECK_DEADLOCK FALSE
SYMMETRY LinkSymmetry
INVARIANTS TypeOK AtMostOncePerEnvelope NoOtherLoss QueuedInOrder
