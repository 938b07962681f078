SPECIFICATION CacheSpec
CONSTANTS
  Writers = {w1, w2}
  Keys = {k1, k2}
  Results = {pass}
  NoEntry = NoEntry
  Contents <- CacheContents
  Start <- EmptyCache
  Empty <- EmptyCache
  Torn = Torn
  Updates <- CacheUpdates
  Apply <- Updated
  Declines <- LeavesAlone
  NoUpdate = NoUpdate
  MaxFaults = 1
INVARIANTS PowerLossIsSafe
PROPERTIES NoLostUpdate NewerCacheKept EveryCallEnds
CHECK_DEADLOCK FALSE
