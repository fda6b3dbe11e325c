SPECIFICATION FairSpec
CONSTANTS
  Link = {c1}
  ChunkTotal = 2
  Bystander = FALSE
  Budgets <- OneAccept
CHECK_DEADLOCK FALSE
PROPERTY FileIsSaved
