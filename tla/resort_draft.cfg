SPECIFICATION FairSpec
CONSTANTS
  Absent = Absent
  NoHash = NoHash
  NoNote = NoNote
  NoFile = NoFile
  Corrupt = Corrupt
  NotPublished = NotPublished
  NoFlight = NoFlight
  NoAnswer = NoAnswer
  Failed = Failed
  Blank = Blank
  Plain = Plain
  Forms = {Plain, Padded}
  Fields <- MCFields
  Parent <- MCParent
  ModeFields <- MCOneField
  LiveFields <- MCNone
  Values = {0, 1, 2, 3}
  Hashes = {0, 1, 2, 3}
  Paths <- MCNone
  Texts <- MCNone
  InitContent <- MCContent
  UserOps <- MCFreshOps
  MaxRev = 3
  MaxFlights = 3
  MaxFaults = 1
INVARIANTS
  SavedMeansStored
  InputIsTheAnalysts
  ClearedIsNotAwaited
  UndisturbedNeverRefused
PROPERTIES
  AnswersKeepInputs
  EditsKeptUntilStored
  DraftsSettle
CHECK_DEADLOCK FALSE
