CONSTANTS
  o1 = o1
  other = other
  Clients = {b1, b2}
  Rows <- MCRows
  Related <- MCRelated
  Debug = FALSE
  Resources = {o1}
  Covers <- MCCovers
  NoPage = NoPage
  SameModel = TRUE
  Uuids <- MCUuids
  MaxSaves = 2
SPECIFICATION Spec
SYMMETRY Symmetry
INVARIANTS UndisturbedTagIsCurrentData
PROPERTY UndisturbedSaveIsSeen
