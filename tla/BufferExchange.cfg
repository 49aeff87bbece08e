CONSTANTS
  TargetSequence <- ThreeTargets
  WorkersOf <- OneEach
  NumBuffers = 2
  NumBlocks = 3
  SequenceIsLast = FALSE
  MaxFailures = 1
SPECIFICATION Spec
CHECK_DEADLOCK FALSE
INVARIANTS BufferHasOneOwner WritesWhatWasRead RoutedAreWritten EndsWithIdleWorkers
