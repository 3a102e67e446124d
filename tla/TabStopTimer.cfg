SPECIFICATION FairSpec
CONSTANTS
  Object = "ConPty"
  MaxRuns = 3
  MaxOutput = 5
  High = 3
  Low = 1
  Turn = 2
  Sync = 1
PROPERTY KilledAfterTerminate
CHECK_DEADLOCK FALSE
