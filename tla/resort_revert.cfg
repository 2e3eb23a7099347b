SPECIFICATION Spec
CONSTANTS
  Absent = Absent
  NoHash = NoHash
  NoNote = NoNote
  NoFile = NoFile
  Corrupt = Corrupt
  NotPublished = NotPublished
  NoFlight = NoFlight
  NoAnswer = NoAnswer
  Failed = Failed
  Blank = Blank
  Plain = Plain
  Forms = {Plain, Padded}
  Fields <- MCOneField
  Parent <- MCOneParent
  ModeFields <- MCOneField
  LiveFields <- MCNone
  Values = {0, 1}
  Hashes = {0, 1, 2}
  Paths <- MCNone
  Texts <- MCNone
  InitContent <- MCContent
  UserOps <- MCRetypeOps
  MaxRev = 2
  MaxFlights = 3
  MaxFaults = 0
INVARIANTS
  UndisturbedNeverRefused
CHECK_DEADLOCK FALSE
