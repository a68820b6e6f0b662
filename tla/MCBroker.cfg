\* Two subscriptions, one of which its owner closes; the other subscriber,
\* like the first, may never receive.
CONSTANTS
  s1 = s1  s2 = s2
  p1 = p1  p2 = p2
  k1 = k1  k2 = k2
  Subs = {s1, s2}
  Closing = {s1}
  Publishers = {p1, p2}
  Keys = {k1, k2}
  Matches <- MCMatches
  BufSize = 1
  MaxEvents = 3
SPECIFICATION FairSpec
INVARIANTS OnlyClosersPanic ForgottenIsClosed
  
CHECK_DEADLOCK FALSE
