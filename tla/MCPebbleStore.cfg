\* Two callers and the sweeper.
CONSTANTS
  k1 = k1  c1 = c1  c2 = c2
  blob = blob
  NoEntry = NoEntry
  Keys = {k1}
  Blobs = {blob}
  IntLimit = 1
  KeyLen <- MCKeyLen
  ValueLen <- MCValueLen
  EntryOverhead = 1
  Clients = {c1, c2}
  Calls <- AllCalls
  TTLs <- AnyTTL
  Deltas = {1}
  MaxTime = 4
  MaxSweeps = 1
  MaxCrashes = 1
VIEW MCView
SYMMETRY Interchangeable
SPECIFICATION MCSpec
PROPERTIES ImplementsCache ImplementsStore CountFollowsData
