SPECIFICATION FairSpec
CONSTANTS
  Object = "ConPty"
  MaxRuns = 3
  MaxOutput = 5
  High = 3
  Low = 1
  Turn = 2
  Sync = 1
INVARIANT TabInOrder
PROPERTIES StartsInOrder Contract RequestsEnd
CHECK_DEADLOCK FALSE
