CONSTANTS
  Lockers = {s1, s2}
  Entries = {e1, e2}
  MaxOutages = 1
  NoOne = NoOne
  Timeout = 2
  Repeat = 1
  AtomicAdd = TRUE
  SettleOutlasts = TRUE
  Punctual = TRUE
SPECIFICATION BeatFairSpec
INVARIANTS OneLeader
PROPERTIES Failover DueIsSent
