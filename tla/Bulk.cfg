CONSTANTS
  a = a
  b = b
  Requests = {r1, r2}
  Rows = {a, b}
  Programs <- MCPrograms
  Threads = 2
SPECIFICATION FairSpec
CHECK_DEADLOCK FALSE
INVARIANTS AllOrNothing AnswerTellsOutcome PreviousResultsResolve ReferenceIsTheNamed
PROPERTIES EveryRequestEnds
