CONSTANTS
  Configs <- ReopenedRuns
  MaxFd = 8
SPECIFICATION Spec
INVARIANTS OperationsReachTheirFile
CHECK_DEADLOCK FALSE
