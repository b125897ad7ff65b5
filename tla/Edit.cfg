CONSTANTS
  v1 = v1
  Fields = {f1, f2}
  Lookups = {f1}
  Values = {v1, v2}
  FirstRow <- MCFirstRow
  Views <- MCViews
  Saves = {s1}
  MaxOthers = 2
  MaxReloads = 1
SPECIFICATION EditFairSpec
CHECK_DEADLOCK FALSE
INVARIANTS UnsavedIsAskedAbout OthersAreKept
PROPERTIES FormComesBack
