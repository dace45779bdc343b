CONSTANTS
  s1 = s1
  s2 = s2
  s3 = s3
  c1 = c1
  c2 = c2
  v1 = v1
  v2 = v2
  long = long
  Server = {s1, s2, s3}
  Client = {c1, c2}
  Key = {k}
  Value = {v1, v2, long}
  Empty = Empty
  Long = {long}
  NULL = NULL
  Walks <- MCWalks
  Args <- MCArgs
  CharMax = 127
  Calls <- MCCalls
  InOrder = TRUE
  Lossy = {"request", "reply"}
  MaxCrash = 0
  MaxCopies = 0
  MaxPackets = 1
SPECIFICATION HSpec
SYMMETRY Swap
PROPERTY RegularReads
CHECK_DEADLOCK FALSE
