CONSTANTS
  a = a
  b = b
  c = c
  d = d
  Nodes = {a, b, c, d}
  Tables <- MCTables
SPECIFICATION DeepFairSpec
CHECK_DEADLOCK FALSE
INVARIANTS SubtreeIsComplete BothWaysAgree
PROPERTIES QueryEnds
