SPECIFICATION FairSpec
CONSTANTS
  a = a
  b = b
  p1 = p1
  p2 = p2
  Empty = Empty
  NoNote = NoNote
  Paths = {p1}
  Texts <- MCTexts
  UserOps <- MCAllOps
  MaxRev = 3
  MaxFlights = 4
  MaxFaults = 0
INVARIANTS
  SavedMeansStored
PROPERTIES
  DraftsSettle
CHECK_DEADLOCK FALSE
