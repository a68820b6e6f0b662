\* Two keys, two goroutines, three acquisitions, leases of zero and one ticks.
CONSTANTS
  k1 = k1  k2 = k2
  c1 = c1  c2 = c2
  NoLock = NoLock
  LockKeys = {k1, k2}
  Callers = {c1, c2}
  LeaseTTLs <- MCTTLs
  RetryCounts = {0, 1}
  MaxFencing = 3
  MaxTime = 5
SPECIFICATION FairSpec
INVARIANTS TypeOK OneHolder HolderHasNewestToken IsHeldExact
PROPERTIES ExpiredLockReclaimed LockReturns
