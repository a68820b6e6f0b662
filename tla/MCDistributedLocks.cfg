\* A cluster of two nodes.
CONSTANTS
  n1 = n1  n2 = n2  a1 = a1  b1 = b1
  NoLock = NoLock
  Nodes = {n1, n2}
  OwnerOf <- MCOwnerOf
  Clients = {a1, b1}
  Home <- MCHome
  TTL = 1
  RetryCount = 1
  MaxAttempts = 2
  MaxRequests = 2
  MaxTime = 3
  MaxChurn = 2
SPECIFICATION Spec
INVARIANTS RoutableOwners  ReleaseIsFinal
CHECK_DEADLOCK FALSE
