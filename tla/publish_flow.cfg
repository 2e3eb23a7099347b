SPECIFICATION Spec
CONSTANTS
  c1 = c1
  c2 = c2
  s1 = s1
  s2 = s2
  slopes = slopes
  snow = snow
  count = count
  total = total
  Calls = {c1, c2}
  Slugs = {s1, s2}
  DurablePaths = {slopes}
  LivePaths = {snow, count, total}
  AgedBy <- MCAgedBy
  NoLive = NoLive
  Absent = Absent
  Corrupt = Corrupt
  TTL_DEFAULT = 1
  TTL_MAX_STALE = 2
  InitFiles <- MCInitFiles
  InitDocs <- MCInitDocs
  Edits <- MCEdits
  MaxClock = 1
  MaxEdits = 2
SYMMETRY MCSymmetry
INVARIANTS
  VersionsAreRecent
  GateAgreesWithPublish
  EditorShowsWhatPublishes
  FreshnessAgrees
PROPERTIES
  PublishKeepsResorts
  StampsAdvance
CHECK_DEADLOCK FALSE
