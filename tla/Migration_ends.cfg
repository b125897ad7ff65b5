CONSTANTS
  Nodes = {n1, n2}
  Databases = 2
  Attempts = 2
  Lockers <- MCLockers
  NoOne = NoOne
  Timeout = 5
  Repeat = 1
  AtomicAdd = TRUE
  SettleOutlasts = TRUE
  Punctual = FALSE
SPECIFICATION MigrationSpec
INVARIANTS FinishedLeavesNoKey
PROPERTIES MigrationEnds LoserNeverRemoves OrphanIsFreed EveryAttemptEnds
