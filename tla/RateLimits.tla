----------------------------- MODULE RateLimits -----------------------------
(***************************************************************************)
(* RateLimit and RateLimitSliding (src/ratelimit.go): the two limiters of  *)
(* a cache, for one key.  They have a table each and share nothing, so a   *)
(* key is used with one of them here.                                      *)
(***************************************************************************)
EXTENDS Integers

CONSTANTS
  Options,      \* the [limit, window] pairs that callers of RateLimit pass
  Scale,        \* TokenBucket's unit
  Limit,        \* what callers of RateLimitSliding pass
  WindowLen,
  NoState,      \* the limiter does not know the key
  BucketTime,   \* bounds on the clock and on the length of the history
  BucketGrants,
  WindowTime,
  WindowGrants

ASSUME OptionsAssumption == Options \subseteq [limit : Nat, window : Nat \ {0}]
ASSUME ScaleAssumption ==
  Scale \in Nat \ {0} /\ \A o \in Options : Scale % o.window = 0
ASSUME WindowAssumption == Limit \in Nat /\ WindowLen \in Nat \ {0}
ASSUME NoStateAssumption ==
  NoState \notin [tokens : Nat, lastFill : Nat] \cup Options
                  \cup [prevCount : Nat, currCount : Nat, currStart : Nat]
ASSUME RateBoundsAssumption ==
  {BucketTime, BucketGrants, WindowTime, WindowGrants} \subseteq Nat

VARIABLES
  algorithm,  \* the limiter with which the key is used
  bucket, state, window, remaining, grants, now

rateVars == <<algorithm, bucket, state, window, remaining, grants, now>>

Bucket == INSTANCE TokenBucket WITH
  NoBucket <- NoState, MaxTime <- BucketTime, MaxGrants <- BucketGrants

Sliding == INSTANCE SlidingWindow WITH
  NoWindow <- NoState, MaxTime <- WindowTime, MaxGrants <- WindowGrants

RateInit ==
  /\ algorithm \in {"token_bucket", "sliding_window"}
  /\ Bucket!Init
  /\ Sliding!Init

RateLimit ==
  /\ algorithm = "token_bucket"
  /\ Bucket!Next
  /\ UNCHANGED <<algorithm, window, remaining>>

RateLimitSliding ==
  /\ algorithm = "sliding_window"
  /\ Sliding!Next
  /\ UNCHANGED <<algorithm, bucket, state>>

RateNext == RateLimit \/ RateLimitSliding

RateSpec == RateInit /\ [][RateNext]_rateVars

-----------------------------------------------------------------------------
\* Properties

\* The token bucket "allows bursts up to the limit" and refills "at a fixed
\* rate": between any two allowed requests, however they are spaced and
\* whichever of the options each call passed, no more got through than the
\* largest limit plus what the fastest rate refills in that time.
RateBounded ==
  algorithm = "token_bucket" =>
    \A i, j \in DOMAIN grants : i <= j =>
      \E burst, rate \in Options :
        (j - i + 1) * rate.window
          <= burst.limit * rate.window + rate.limit * (grants[j] - grants[i])

\* What the sliding window's weighted estimate guarantees: in any interval
\* shorter than a window fewer requests get through than the limit, one more,
\* and the part of another limit that the interval's length is of the window's.
BurstBounded ==
  algorithm = "sliding_window" =>
    \A i, j \in DOMAIN grants :
      i <= j /\ grants[j] - grants[i] < WindowLen
        => (j - i) * WindowLen < Limit * (WindowLen + grants[j] - grants[i])

\* The token bucket's Remaining is a promise: a caller told that n > 0
\* requests remain is not refused next time, and is then told at least n - 1
\* (same options).
BucketHonest ==
  [][\A o \in Options :
       Bucket!Allow(o) /\ state.for = o /\ state.remaining > 0
         => state'.allowed /\ state'.remaining >= state.remaining - 1]_rateVars

\* The sliding window's Remaining is a promise: a caller told that n > 0
\* requests remain is not refused next time, even in a new window, and is told
\* at least n - 1 then.
WindowHonest ==
  [][Sliding!Allow /\ remaining > 0
       => grants' # grants /\ remaining' >= remaining - 1]_rateVars
=============================================================================
