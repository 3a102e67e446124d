SPECIFICATION Spec
CONSTANTS
  Thread = {t1, t2}
  example = example
  other = other
  seeded = seeded
  edited = edited
  Name = {example, other}
  Row = {seeded, edited}
  Setting = {credential}
  Examples <- Example
  Op <- Calls
  NoRow = NoRow
  Missing = Missing
  NoOp = NoOp
  NoThread = NoThread
INVARIANT ReadsStayFresh
PROPERTIES AbstractSpec
CHECK_DEADLOCK FALSE
