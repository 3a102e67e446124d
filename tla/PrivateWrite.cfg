SPECIFICATION Spec
SYMMETRY Symmetric
CONSTANTS
  Writer = {w1, w2}
  Value = {v1, v2}
  Ino = {i1, i2, i3, i4, i5}
  NoIno = NoIno
  Absent = Absent
  Partial = Partial
  None = None
  NoWriter = NoWriter
  NoLock = NoLock
  LooseValue = {v1}
INVARIANTS NothingLeftBehind
PROPERTIES ReadersSeeWhole AbstractSpec
CHECK_DEADLOCK FALSE
