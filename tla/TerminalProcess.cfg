CONSTANTS
  MaxRuns = 2
  MaxOutput = 3
  Kinds = {"bytes"}
  QueueCap = 1
SPECIFICATION FairSpec
INVARIANTS RunsApart
PROPERTIES FinalOutput OnlyCancelDrops AbstractSpec RunsResolve
