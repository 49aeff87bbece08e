CONSTANTS
  Pairs <- Pairs3
  OpsOf <- Ops3
  Intervals <- Intervals3
  NumTargets = 3
  EndModes = {"complete", "stop"}
  QueueDepth = 2
  Passes = 2
  TimeLimit = TRUE
SPECIFICATION FairSpec
CHECK_DEADLOCK FALSE
INVARIANTS OneTargetRuns TurnsGoRound
PROPERTIES FirstPassEnds
