SPECIFICATION FairSpec
CONSTANTS
  s1 = s1
  s2 = s2
  r1 = r1
  r2 = r2
  r3 = r3
  h0 = h0
  hMin = hMin
  hMax = hMax
  hSnow = hSnow
  n1 = n1
  Absent = Absent
  NoHash = NoHash
  NoNote = NoNote
  NoFile = NoFile
  Corrupt = Corrupt
  NotPublished = NotPublished
  NoSlug = NoSlug
  NoBody = NoBody
  NoRequest = NoRequest
  Unread = Unread
  Fields <- MCFields
  LiveFields <- MCLive
  Values = {1, 2, 3, 4, 5}
  Hashes <- MCHashes
  Paths = {"resort"}
  Texts = {n1}
  Slugs = {s1, s2}
  Requests = {r1, r2, r3}
  Bodies <- MCOneBody
  InitFiles <- MCNoFile
  InitPublished <- MCPublishedOnly
  Events <- MCBreakdowns
INVARIANTS
  RunsInArrivalOrder
PROPERTIES
  EveryRequestAnswered
  ImplementsStore
CHECK_DEADLOCK FALSE
