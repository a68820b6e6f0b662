\* One shard with room for two small entries, three keys, no expiry.
CONSTANTS
  k1 = k1  k2 = k2  k3 = k3
  c1 = c1  c2 = c2
  big = big
  NoEntry = NoEntry
  Keys = {k1, k2, k3}
  Blobs = {big}
  IntLimit = 1
  KeyLen <- MCKeyLen
  ValueLen <- MCValueLen
  EntryOverhead = 1
  Clients = {c1, c2}
  NumShards = 1
  ShardOf <- OneShard
  MaxSize = 6
  TTLs = {0}
  Deltas = {1}
  MaxTime = 1
SYMMETRY Interchangeable
SPECIFICATION Spec
INVARIANTS TypeOK LRUConsistent SizeAccounted WithinBudget EvictLoop
PROPERTY FreshEntrySurvives
