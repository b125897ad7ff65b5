CONSTANTS
  Nodes = {n1, n2}
  Databases = 1
  Attempts = 2
  Lockers <- MCLockers
  NoOne = NoOne
  Timeout = 2
  Repeat = 1
  AtomicAdd = TRUE
  SettleOutlasts = TRUE
  Punctual = TRUE
SPECIFICATION MigrationSpec
INVARIANT OneMigrator
