SPECIFICATION FairSpec
CONSTANTS
  a1 = a1
  a2 = a2
  b1 = b1
  p1 = p1
  p2 = p2
  d1 = d1
  d2 = d2
  d3 = d3
  d4 = d4
  k1 = k1
  Thread <- ThreeThreads
  Process = {p1, p2}
  ProcessOf <- ThreeProcessOf
  Key = {k1}
  Desc = {d1, d2, d3, d4}
  MaxDepth = 2
  NoThread = NoThread
  NoKey = NoKey
  NoDesc = NoDesc
INVARIANTS Exclusion LocksReturn
PROPERTIES AbstractSpec CallsEnd
