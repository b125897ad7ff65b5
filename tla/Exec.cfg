SPECIFICATION ExecFairSpec
CONSTANTS
  e1 = e1
  e2 = e2
  Runs <- MCRuns
  Lines <- MCLines
INVARIANTS OutputIsWhole
PROPERTY ExecutionEnds
CHECK_DEADLOCK FALSE
