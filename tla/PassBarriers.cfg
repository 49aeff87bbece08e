CONSTANTS
  NumTargets = 3
  Passes = 2
  RunTimes = {TRUE, FALSE}
  MaxPasses = 3
  StopOnErrors = {TRUE, FALSE}
  CanCancel = TRUE
  ReopenCanFail = TRUE
  PassDelay = 20
  PassTimes = {0, 5}
  RoundTime = 8
SPECIFICATION FairSpec
CHECK_DEADLOCK FALSE
INVARIANTS SamePass CombinedIsTheSum ElapsedCoversThePasses
PROPERTIES UndisturbedRunEnds
