CONSTANTS
  QueueDepth = 2
  NumOps = 3
  SocketBuffer = 1
  Troubles = {{"limit", "break"}, {"read"}, {"write"}}
SPECIFICATION FairSpec
CHECK_DEADLOCK FALSE
INVARIANTS SendFailureIsReported
PROPERTIES ImplementsFileCopy CopyEnds
