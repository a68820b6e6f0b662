\* Requests at any times: a bucket that fills several times over, and a
\* sliding window over four windows.
CONSTANTS
  NoState = NoState
  Options <- MCOptions
  Scale = 6
  BucketTime = 6
  BucketGrants = 8
  Limit = 3
  WindowLen = 4
  WindowTime = 14
  WindowGrants = 9
SPECIFICATION RateSpec
INVARIANTS RateBounded BurstBounded
PROPERTIES BucketHonest WindowHonest
CHECK_DEADLOCK FALSE
