SPECIFICATION LiveSpec
CONSTANTS
  a = a
  b = b
  gone = gone
  X = X
  Y = Y
  Z = Z
  Slugs = {a, b, gone}
  Countries = {X, Y, Z}
  Junk = Junk
  None = None
  NoList = NoList
  SHORTLIST_MAX = 1
  Catalog <- MCCatalog
  Country <- MCCountry
  NameRank <- MCNameRank
  Price <- MCPrice
  Snow <- MCSnow
  Links <- MCLinks
  StoredLists <- MCStoredLists
  MaxEntries = 2
  MaxChips = 0
  Buckets = {"any", "lo", "mid"}
  MaxOthers = 1
  MayFail = {"dataset", "detail"}
INVARIANTS
  ReloadIsQuiet
PROPERTIES
  NewestStarSurvives
  FiltersNeverStrand
  BackNeverReopens
  RetryRecovers
CHECK_DEADLOCK FALSE
