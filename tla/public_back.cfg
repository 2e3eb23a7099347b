SPECIFICATION Spec
CONSTANTS
  a = a
  b = b
  gone = gone
  X = X
  Y = Y
  Z = Z
  Slugs = {a, b, gone}
  Countries = {X, Y, Z}
  Junk = Junk
  None = None
  NoList = NoList
  SHORTLIST_MAX = 1
  Catalog <- MCCatalog
  Country <- MCCountry
  NameRank <- MCNameRank
  Price <- MCPrice
  Snow <- MCSnow
  Links <- MCLinks
  StoredLists <- MCNothingStored
  MaxEntries = 3
  MaxChips = 0
  Buckets = {"any"}
  MaxOthers = 0
  MayFail = {}
PROPERTIES
  ClosedStaysClosed
CHECK_DEADLOCK FALSE
