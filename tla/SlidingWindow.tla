--------------------------- MODULE SlidingWindow ---------------------------
(***************************************************************************)
(* The sliding window limiter of src/internal/ratelimit/slidingwindow.go   *)
(* for one key.  Allow runs as a whole under the mutex.  Floating point    *)
(* numbers are exact: the estimate is counted in units of 1 / windowLen.   *)
(***************************************************************************)
EXTENDS Integers, Sequences

CONSTANTS
  Limit,      \* the limit and the window length that callers of the key pass
  WindowLen,
  NoWindow,   \* the map has no window for the key
  MaxTime,    \* bound on the clock
  MaxGrants   \* bound on the length of the history

VARIABLES
  window,     \* the window of the key, or NoWindow
  remaining,  \* State.Remaining of the last Allow
  grants,     \* history: the times of the allowed requests since the last Reset
  now

vars == <<window, remaining, grants, now>>

Init ==
  /\ window = NoWindow
  /\ remaining = 0
  /\ grants = <<>>
  /\ now = 1

Fresh == [prevCount |-> 0, currCount |-> 0, currStart |-> now]

\* Mutant: an idle window is shifted once, however long it was idle.
Advance_Once(w) ==
  IF now - w.currStart >= WindowLen
  THEN [prevCount |-> w.currCount, currCount |-> 0, currStart |-> w.currStart + WindowLen]
  ELSE w

\* Both windows have passed, the current one has ended, or neither.
Advance(w) ==
  LET elapsed == now - w.currStart IN
  IF elapsed >= 2 * WindowLen THEN Fresh
  ELSE IF elapsed >= WindowLen
       THEN [prevCount |-> w.currCount, currCount |-> 0, currStart |-> w.currStart + WindowLen]
       ELSE w

\* Mutant: the previous window weighs more and more instead of less and less.
Estimate_Swapped(w) == w.prevCount * (now - w.currStart) + w.currCount * WindowLen

\* prevCount counts for the part of its window that is still within reach.
Estimate(w) ==
  LET progress == IF now - w.currStart > WindowLen THEN WindowLen ELSE now - w.currStart
  IN  w.prevCount * (WindowLen - progress) + w.currCount * WindowLen

Admits(est) == est \div WindowLen < Limit

Allow ==
  LET w   == Advance(IF window = NoWindow THEN Fresh ELSE window)
      est == Estimate(w)
  IN  /\ Len(grants) < MaxGrants
      /\ \/ /\ Admits(est)
            /\ window' = [w EXCEPT !.currCount = @ + 1]
            /\ remaining' = Limit - est \div WindowLen - 1
            /\ grants' = Append(grants, now)
         \/ /\ ~Admits(est)
            /\ window' = w
            /\ remaining' = 0
            /\ UNCHANGED grants
      /\ UNCHANGED now

Reset ==
  /\ window # NoWindow
  /\ window' = NoWindow
  /\ remaining' = 0
  /\ grants' = <<>>
  /\ UNCHANGED now

Tick ==
  /\ now < MaxTime
  /\ now' = now + 1
  /\ UNCHANGED <<window, remaining, grants>>

Next == Tick \/ Reset \/ Allow

Spec == Init /\ [][Next]_vars
=============================================================================
