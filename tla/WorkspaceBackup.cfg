SPECIFICATION FairSpec
CONSTANTS
  keys = keys
  profiles = profiles
  server = server
  x = x
  y = y
  Store = {profiles}
  Record = {server}
  Loose = {keys}
  Order <- MCOrder
  Value = {x, y}
  Active = Active
  Stopped = Stopped
  Absent = Absent
  Broken = Broken
  Empty = Empty
  Foreign = Foreign
  None = None
  Restorer = {r1, r2}
  Homes <- MCHomes
  MaxWrites = 3
INVARIANT LockedStayAsRead
PROPERTIES OneMoment RestoreIsSafe BackupEnds
