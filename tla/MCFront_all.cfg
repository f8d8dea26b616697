SPECIFICATION MCSpec
CONSTANTS
  Accounts = {alice, bob}
  Keys = {k1, k2}
  None = None
  Count = 4
  Listed = {0, 2}
  Radius = 1
  PerTick = 2
  MaxJobs = 1
  MaxPrefetch = 1
  MaxResults = 1
  Languages = {en, de}
  MaxPanics = 1
  Panicky = {"metadata"}
INVARIANTS DiskFollowsMemory NoPlaintext PendingIsOnItsWay DetailsMatchLocale
PROPERTIES SelectedIsShown
CHECK_DEADLOCK FALSE
