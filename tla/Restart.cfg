CONSTANTS
  QueueDepth = 2
  NumBlocks = 4
  QueueLimit = 2
  MaxCrashes = 2
  MaxWriteErrors = 1
  Reloads = FALSE
SPECIFICATION FairSpec
CHECK_DEADLOCK FALSE
INVARIANTS RestartPointIsSafe CompleteMeansWritten
PROPERTIES CopyCompletes
