SPECIFICATION FairSpec
CONSTANTS
  Link = {c1, c2}
  ChunkTotal = 2
  Bystander = TRUE
  Budgets <- MCBudgets
CHECK_DEADLOCK FALSE
INVARIANTS TypeOK CheckpointIsCurrent
PROPERTIES AcceptBringsAll ResumeBringsAll
