SPECIFICATION FairSpec
CONSTANTS
  p1 = p1
  p2 = p2
  d1 = d1
  d2 = d2
  bad = bad
  NoOwner = NoOwner
  NoVersion = NoVersion
  Publishers <- MCPublishers
  Datasets <- MCDatasets
  ValidDatasets <- MCValid
  COUNTER_LOCK_MAX_ATTEMPTS = 2
  Faults <- MCAllFaults
  MaxCounter = 2
INVARIANTS
  WritersHoldTheLock
  ArchiveNumbersUnique
  ServedIsArchived
  ConfirmedIsKept
PROPERTIES
  ImplementsLog
  EveryCallReturns
CHECK_DEADLOCK FALSE
