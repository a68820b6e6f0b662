\* Two goroutines make four calls over up to three connections.
CONSTANTS
  c1 = c1  c2 = c2
  NoConn = NoConn
  Error = Error
  Callers = {c1, c2}
  MaxCalls = 4
  MaxConns = 3
SPECIFICATION FairSpec
INVARIANTS OwnAnswer PoolExact
 
CHECK_DEADLOCK FALSE
