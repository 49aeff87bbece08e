CONSTANTS
  QueueDepth = 2
  NumOps = 6
  Multiplier = 2
  Orderings = {"serial", "loose"}
  PrepareCanFail = TRUE
SPECIFICATION FairSpec
CHECK_DEADLOCK FALSE
PROPERTIES OrderedPassDrains
