----------------------------- MODULE HttpLocks -----------------------------
(***************************************************************************)
(* The HTTP front end of the locks (src/internal/server/handler_lock.go).  *)
(* POST calls Cache.Lock and answers with the handle's fencing token, both *)
(* as "token" and as "fencing_token".  DELETE and PUT hand the text of the *)
(* X-Lock-Token header to the engine, which compares it with the token the *)
(* engine generated.                                                       *)
(***************************************************************************)
EXTENDS LockEngine

VARIABLE status  \* the status code of the most recent DELETE or PUT

httpVars == <<vars, status>>

HttpInit == Init /\ status = 0

\* The JSON number that POST returned as "token", sent back as text: the
\* decimal digits of the fencing token, never the 32 hexadecimal digits of a
\* generated token.
HeaderToken(n) == <<"decimal", n>>

\* Cache.Lock returns its handle to the POST handler.
HttpAcquire ==
  /\ \E c \in Callers :
       \/ Attempt(c)
       \/ \E k \in LockKeys, ttl \in LeaseTTLs, r \in RetryCounts :
            ttl > 0 /\ LockCall(c, k, ttl, r)
  /\ UNCHANGED status

handleLockRelease(n) ==
  LET k  == handles[n].key
      ok == Owns(k, HeaderToken(n))
  IN  /\ Unlocked
      /\ status' = IF ok THEN 200 ELSE 409
      /\ locks' = [locks EXCEPT ![k] = IF ok THEN NoLock ELSE @]
      /\ handles' = [handles EXCEPT ![n].released = @ \/ ok]
      /\ UNCHANGED <<fencingSeq, cleaning, call, now>>

handleLockExtend(n, ttl) ==
  LET k  == handles[n].key
      ok == IsHeld(k) /\ Owns(k, HeaderToken(n))
  IN  /\ Unlocked
      /\ status' = IF ok THEN 200 ELSE 409
      /\ IF ok
         THEN /\ locks' = [locks EXCEPT ![k].expiresAt = now + ttl]
              /\ handles' = [handles EXCEPT ![n].deadline = now + ttl]
         ELSE UNCHANGED <<locks, handles>>
      /\ UNCHANGED <<fencingSeq, cleaning, call, now>>

HttpNext ==
  \/ HttpAcquire
  \/ (Cleanup \/ Tick) /\ UNCHANGED status
  \/ \E n \in DOMAIN handles :
       \/ handleLockRelease(n)
       \/ \E ttl \in LeaseTTLs : ttl > 0 /\ handleLockExtend(n, ttl)

HttpSpec == HttpInit /\ [][HttpNext]_httpVars

\* The feature test releases a lock that is in force with the token its POST
\* returned and expects status 200 (scripts/test-features.sh, "Lock release").
HolderCanRelease ==
  [][\A n \in DOMAIN handles :
       handleLockRelease(n) /\ InForce(n) => status' = 200]_httpVars
=============================================================================
