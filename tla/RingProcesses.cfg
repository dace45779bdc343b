CONSTANTS
  p1 = p1
  p2 = p2
  a = a
  b = b
  c = c
  mid = mid
  high = high
  Process = {p1, p2}
  Server = {a, b, c}
  Files <- OneFile
  Copies <- MCCopies
  Junk = {"none", "other"}
  Sha <- MCSha
  Key = {mid, high}
  KeySha <- MCKeySha
  Wanted = {1, 2}
SPECIFICATION Spec
CHECK_DEADLOCK FALSE
INVARIANT SameNodesInEveryProcess
