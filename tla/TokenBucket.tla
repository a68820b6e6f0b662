---------------------------- MODULE TokenBucket ----------------------------
(***************************************************************************)
(* The token bucket of src/internal/ratelimit/tokenbucket.go for one key   *)
(* (keys share nothing but the mutex, under which Allow runs as a whole).  *)
(*                                                                         *)
(* The float64 tokens are exact here: they are counted in units of         *)
(* 1 / Scale of a token, with a Scale that every window divides.           *)
(***************************************************************************)
EXTENDS Integers, Sequences

CONSTANTS
  Options,    \* the [limit, window] pairs that callers pass
  Scale,
  NoBucket,   \* the map has no bucket for the key
  MaxTime,    \* bound on the clock
  MaxGrants   \* bound on the length of the history

VARIABLES
  bucket,  \* the bucket of the key, or NoBucket
  state,   \* the State the last Allow returned, with the options it got
  grants,  \* history: the times of the allowed requests since the last Reset
  now

vars == <<bucket, state, grants, now>>

None == [allowed |-> FALSE, remaining |-> 0, for |-> NoBucket]

Init ==
  /\ bucket = NoBucket
  /\ state = None
  /\ grants = <<>>
  /\ now = 1

Lesser(a, b) == IF a < b THEN a ELSE b

\* Mutant: the bucket overflows.
Refilled_Uncapped(b, o) ==
  b.tokens + (now - b.lastFill) * o.limit * (Scale \div o.window)

\* The refill since lastFill at the rate of this call, capped at its limit.
Refilled(b, o) ==
  Lesser(b.tokens + (now - b.lastFill) * o.limit * (Scale \div o.window), o.limit * Scale)

\* Mutant: Remaining counts the token just taken.
Allow_RemainingBefore(o) ==
  LET b == IF bucket = NoBucket THEN [tokens |-> o.limit * Scale, lastFill |-> now] ELSE bucket
      t == Refilled(b, o)
      ok == t >= Scale
      left == IF ok THEN t - Scale ELSE t
  IN  /\ Len(grants) < MaxGrants
      /\ bucket' = [tokens |-> left, lastFill |-> now]
      /\ state' = [allowed |-> ok, remaining |-> IF ok THEN t \div Scale ELSE 0, for |-> o]
      /\ grants' = IF ok THEN Append(grants, now) ELSE grants
      /\ UNCHANGED now

Allow(o) ==
  LET b == IF bucket = NoBucket THEN [tokens |-> o.limit * Scale, lastFill |-> now] ELSE bucket
      t == Refilled(b, o)
      ok == t >= Scale
      left == IF ok THEN t - Scale ELSE t
  IN  /\ Len(grants) < MaxGrants
      /\ bucket' = [tokens |-> left, lastFill |-> now]
      /\ state' = [allowed |-> ok, remaining |-> IF ok THEN left \div Scale ELSE 0, for |-> o]
      /\ grants' = IF ok THEN Append(grants, now) ELSE grants
      /\ UNCHANGED now

Reset ==
  /\ bucket # NoBucket
  /\ bucket' = NoBucket
  /\ state' = None
  /\ grants' = <<>>
  /\ UNCHANGED now

Tick ==
  /\ now < MaxTime
  /\ now' = now + 1
  /\ UNCHANGED <<bucket, state, grants>>

Next == Tick \/ Reset \/ \E o \in Options : Allow(o)

Spec == Init /\ [][Next]_vars
=============================================================================
