\* Two keys that evict each other and expire, two callers, the callbacks.
CONSTANTS
  k1 = k1  k2 = k2
  c1 = c1  c2 = c2
  t1 = t1  t2 = t2
  NoEntry = NoEntry
  Keys = {k1, k2}
  Blobs = {}
  IntLimit = 1
  KeyLen <- MCKeyLen
  ValueLen <- MCValueLen
  EntryOverhead = 1
  Clients = {c1, c2}
  NumShards = 1
  ShardOf <- OneShard
  MaxSize = 4
  TTLs = {1}
  Deltas = {1}
  MaxTime = 3
  Tags = {t1, t2}
  MaxCallbacks = 0
VIEW ButValues
SYMMETRY Interchangeable
SPECIFICATION TagSpec
INVARIANTS TagIndexConsistent TagsFollowKeys
