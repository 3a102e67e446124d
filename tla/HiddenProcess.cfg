\* The object may be disposed of: then nothing is left to happen.
SPECIFICATION FairSpec
CONSTANTS
  MaxRuns = 2
  MaxWork = 1
  InputCap = 1
INVARIANTS RunsApart EndComesLast
PROPERTIES AbstractSpec ExitIsTold
CHECK_DEADLOCK FALSE
