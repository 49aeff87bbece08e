SPECIFICATION Spec
CONSTANTS
  NumTargets = 2
  QueueDepth = 2
  E2ETargets = {1}
  TriggerTargets = {2}
  Options <- MCOptions
  Faults = {"create", "barrier", "target", "worker", "support"}
CHECK_DEADLOCK FALSE
INVARIANTS AllOrNone ChainIsComplete OccupantsAreTracked
PROPERTIES PlanStarts
