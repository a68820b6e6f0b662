\* One key, one client.
CONSTANTS
  k1 = k1  c1 = c1
  NoLock = NoLock
  LockKeys = {k1}
  Callers = {c1}
  LeaseTTLs = {1}
  RetryCounts = {0}
  MaxFencing = 2
  MaxTime = 3
SPECIFICATION HttpSpec
PROPERTY HolderCanRelease
