SPECIFICATION Spec
CONSTANTS
  s = s
  f = f
  Slugs = {s}
  Filters = {f}
  None = None
  Junk = Junk
  Loading = Loading
  Param = Param
  Links <- MCLinks
  PAGE_SIZE = 1
  MAX_PAGE = 2
  Duration <- MCDuration
  InitVersions = 1
  MaxCalls = 3
  MaxActs = 5
INVARIANTS
  NoStuckLoading
  ViewsFollowAddress
  HistoryHasConfirmed
  PublishIsWatched
  ToastKeepsTime
CHECK_DEADLOCK FALSE
