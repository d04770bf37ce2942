SPECIFICATION Explored
CONSTANTS
  Parts = {"pool", "events", "sync", "reports", "cold"}
  n0 = n0
  n0b = n0b
  n1 = n1
  u0 = u0
  s1 = s1
  aa = aa
  b = b
  v = v
  p1 = p1
  p2 = p2
  p3 = p3
  c1 = c1
  c2 = c2
  ch1 = ch1
  ch2 = ch2
  id1 = id1
  id2 = id2
  UserTx = {n0, n0b, n1, u0, s1}
  Unordered = {u0}
  ConsensusTx = {c1, c2}
  Address = {aa, b, v}
  Numbered = {aa}
  AddressOf <- AddressOfTx
  OrderOf <- OrderOfTx
  Free = {n0, c1, c2}
  PoolLimit = 3
  FreeLimit = 2
  AccountLimit = 2
  AccountFreeLimit = 1
  PoolTimeout = 1
  TrackerTimeout = 2
  MaxTime = 2
  MaxBlocks = 2
  MaxTxs = 2
  Together <- Groups
  Channel = {ch1, ch2}
  ClientFilterId = {id1, id2}
  Pattern <- Patterns
  ValuePath <- ValuePaths
  Wildcard = "*"
  WatchedTx = {t1}
  Reported = {"PENDING", "FINALIZED"}
  MaxChannels = 2
  MaxFilters = 2
  MaxFiltersPerChannel = 2
  MaxRegistrations = 3
  SyncPeer = {p1, p2}
  SyncForeign = {}
  SyncFirst <- FromGenesis
  InitTip <- UnevenTips
  SyncMaxBlock = 5
  Closing = {2, 3, 5}
  SegmentLength = 3
  MaxInFlight = 3
  SyncMaxFaults = 2
  Call = {r1, r2}
  ShardMaxBlock = 4
  Period = 2
  Limit = 3
  MaxReports = 3
  NumDeleted = 2
  Lightweight = FALSE
  ShardMaxFaults = 2
  ColdPeer = {p1, p2, p3}
  ColdForeign = {p2}
  HasSnapshot = {p1, p3}
  ColdFirst <- FirstOnDisk
  NumChunks = 2
  Top = 4
  ColdMaxBlock = 5
  OldSegmentLength = 2
  ColdMaxFaults = 3
  MaxLosses = 2
INVARIANTS TypeOK PoolIsClean FiltersAgree ChainsAreWhole
PROPERTIES NothingGoesBack
CHECK_DEADLOCK FALSE
