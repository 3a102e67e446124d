SPECIFICATION Spec
SYMMETRY Symmetric
CONSTANTS
  c1 = c1
  c2 = c2
  m1 = m1
  m2 = m2
  m3 = m3
  e1 = e1
  e2 = e2
  shell = shell
  Client = {c1, c2}
  Command = {m1, m2}
  ClientOf <- OneEach
  Name = {n1, n2}
  Endpoint = {e1, e2, shell}
  LocalOnly = {shell}
  LocalRow <- SomeRows
  PullReplaces = {TRUE, FALSE}
  Absent = Absent
  NoCommand = NoCommand
  Cap = 2
  MaxVersion = 3
  MaxEdits = 3
PROPERTIES EachVersionOnce PullNeverRebinds NoLostPublication
CHECK_DEADLOCK FALSE
