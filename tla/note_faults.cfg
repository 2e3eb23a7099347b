SPECIFICATION Spec
CONSTANTS
  a = a
  b = b
  p1 = p1
  p2 = p2
  Empty = Empty
  NoNote = NoNote
  Paths = {p1, p2}
  Texts <- MCOneText
  UserOps <- MCNoEscape
  MaxRev = 2
  MaxFlights = 2
  MaxFaults = 1
SYMMETRY MCSymmetry
INVARIANTS
  SavedIsCached
  UnsavedIsOnItsWay
  ControllerReachesFlight
  DeleteIsFinal
CHECK_DEADLOCK FALSE
