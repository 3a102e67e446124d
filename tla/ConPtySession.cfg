SPECIFICATION FairSpec
CONSTANTS
  MaxWork = 4
  PipeCap = 1
  QueueCap = 1
INVARIANT SessionConsistent
PROPERTIES AbstractSpec SessionSettles
CHECK_DEADLOCK FALSE
