SPECIFICATION Spec
CONSTANTS
  QD = 2
  Blocks = 2
  Protocols = {"tcp", "ib"}
  SocketCounts = {3}
  Faults = {"reset", "crash"}
  Window = 2
CHECK_DEADLOCK FALSE
INVARIANTS BlockInOnePlace OnlyUnreadSocketsLose CreditsAreCovered
PROPERTIES FramesAreWhole TransferEnds
