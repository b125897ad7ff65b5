CONSTANTS
  Requests = {r1, r2}
  Objects = {o1, o2}
  MaxOps = 2
  AtomicSwap = FALSE
SPECIFICATION FairSpec
INVARIANTS SerialClientsInSync NothingLeftBehind
PROPERTIES RefusedPostIsSilent ChangeIsSeen
