CONSTANTS
  p1 = p1
  p2 = p2
  a = a
  b = b
  short = short
  long = long
  Process = {p1, p2}
  MaxAcquires = {1, 2}
  Kernels = {"atomic", "stepwise"}
  Key = {a, b}
  Val = {short, long}
  Length <- MCLength
  HeadSize = 1
  Memsizes = {4}
  MaxExcess = 1
SPECIFICATION FairSpec
INVARIANTS TypeOK RoomIsThere WithinSegment
PROPERTIES IsCountingSemaphore Served IsUsedInTurns IsSharedStore
