CONSTANTS
  s1 = s1
  s2 = s2
  s3 = s3
  Server = {s1, s2, s3}
  Client = {c1, c2, c3}
  Key = {k}
  Value = {x, y, z}
  Empty = Empty
  Long = {}
  NULL = NULL
  Walks <- MCWalks
  Args <- MCArgs
  CharMax = 127
  Calls <- MCCalls
  InOrder = TRUE
  Lossy = {}
  MaxCrash = 0
  MaxCopies = 0
  MaxPackets = 1
SPECIFICATION Spec
SYMMETRY Symmetry
INVARIANT Retrievable
CHECK_DEADLOCK FALSE
