SPECIFICATION Spec
CONSTANTS
  a = a
  b = b
  p1 = p1
  p2 = p2
  Empty = Empty
  NoNote = NoNote
  Paths = {p1}
  Texts <- MCOneText
  UserOps <- MCAllOps
  MaxRev = 2
  MaxFlights = 3
  MaxFaults = 0
INVARIANTS
  DeleteIsFinal
CHECK_DEADLOCK FALSE
