CONSTANTS
  QueueDepth = 3
  BytesPerPass = 5
  XferSize = 2
  Passes = 2
  TimeLimit = TRUE
  StopOnError = TRUE
  IoCanFail = TRUE
  PrepareCanFail = TRUE
SPECIFICATION FairSpec
CHECK_DEADLOCK FALSE
INVARIANTS TypeOK TaskNotOverwritten OperationHasOneOwner PassDrained PassComplete
PROPERTIES OutcomeIsFinal RunCompletes
