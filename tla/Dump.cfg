CONSTANTS
  k1 = k1
  k2 = k2
  k3 = k3
  k4 = k4
  short = short
  long = long
  big = big
  huge = huge
  Empty = Empty
  Garbage = Garbage
  NULL = NULL
  Key = {k1, k2, k3}
  Value = {Empty, short, big}
  Length <- MCLength
  MaxMsg = 21
  KeyAsSize = 1000
  JunkSizes = {0, 1, 1000}
  MaxQueue = 3
  Lossy = TRUE
SPECIFICATION Spec
CHECK_DEADLOCK FALSE
INVARIANTS TypeOK EveryPairSentOnce OnePacketIsExact
PROPERTIES EachTurnNearsTheEnd ServerReturns ToolEnds
