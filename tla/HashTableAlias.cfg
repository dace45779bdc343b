CONSTANTS
  k1 = k1
  k2 = k2
  k3 = k3
  k4 = k4
  Key <- MCKey
  Value = {v1, v2}
  Size = 2
  Hash <- MCHash
  Block = {b1, b2, b3, b4, b5}
  NULL = NULL
SPECIFICATION Spec
SYMMETRY Symmetry
CHECK_DEADLOCK FALSE
INVARIANT FreedListLeavesTable
