CONSTANTS
  p1 = p1
  p2 = p2
  a = a
  b = b
  c = c
  mid = mid
  high = high
  Process = {p1, p2}
  Server = {a, b, c}
  Files <- AllFiles
  Copies <- MCCopies
  Junk = {"none", "tie"}
  Sha <- MCSha
  Key = {mid, high}
  KeySha <- MCKeySha
  Wanted = {0, 2, 4}
SPECIFICATION Spec
CHECK_DEADLOCK FALSE
INVARIANTS TypeOK IteratorInRange EnoughDistinctServers NearestServers RemovalKeepsTheOthers
PROPERTY SearchEnds
