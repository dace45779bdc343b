CONSTANTS
  k1 = k1
  k2 = k2
  k3 = k3
  k4 = k4
  short = short
  long = long
  big = big
  huge = huge
  Empty = Empty
  Garbage = Garbage
  NULL = NULL
  Key = {k1, k2}
  Value = {short, huge}
  Length <- MCLength
  MaxMsg = 21
  KeyAsSize = 1000
  JunkSizes = {0, 1000}
  MaxQueue = 2
  Lossy = FALSE
SPECIFICATION Spec
CHECK_DEADLOCK FALSE
PROPERTY ServerReturns
