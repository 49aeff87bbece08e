CONSTANTS
  TargetSequence <- TwoTargets
  WorkersOf <- OneEach
  NumBuffers = 2
  NumBlocks = 2
  SequenceIsLast = FALSE
  MaxFailures = 0
SPECIFICATION Spec
CHECK_DEADLOCK FALSE
INVARIANTS AllWrittenAtEnd
