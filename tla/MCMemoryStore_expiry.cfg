\* No limit: one key in the last of two shards, two goroutines, the sweeper.
CONSTANTS
  k1 = k1  k2 = k2  k3 = k3
  c1 = c1  c2 = c2
  big = big
  NoEntry = NoEntry
  Keys = {k1}
  Blobs = {}
  IntLimit = 1
  KeyLen <- MCKeyLen
  ValueLen <- MCValueLen
  EntryOverhead = 1
  Clients = {c1, c2}
  NumShards = 2
  ShardOf <- LastShard
  MaxSize = 0
  TTLs = {1}
  Deltas = {1}
  MaxTime = 3
SPECIFICATION FairSpec
PROPERTIES ImplementsStore ExpiredGetsRemoved
