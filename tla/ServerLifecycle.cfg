SPECIFICATION FairSpec
CONSTANTS
  Command = {c1, c2}
  Pid = {p1, p2}
  MaxInst = 3
  NoCommand = NoCommand
  NoPid = NoPid
INVARIANT RecordIsTrue
PROPERTIES AbstractSpec NoServerForgotten CommandsEnd
