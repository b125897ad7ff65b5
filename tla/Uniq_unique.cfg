CONSTANTS
  Callers = {c1, c2}
  Workers = {w1, w2}
  NoCall = NoCall
  Lockers <- MCLockers
  NoOne = NoOne
  Timeout = 2
  Repeat = 1
  AtomicAdd = FALSE
  SettleOutlasts = TRUE
  Punctual = TRUE
SPECIFICATION UniqSpec
SYMMETRY Symmetry
INVARIANTS HolderOwnsKey UniqueRun NoKeyLeaks
PROPERTY SectionSpec
