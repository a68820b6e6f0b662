------------------------------- MODULE Store -------------------------------
(***************************************************************************)
(* What the Store interface (src/store.go) promises its callers: a map     *)
(* from keys to values with deadlines on which every call takes effect     *)
(* atomically, at one instant between its start and its return.  An entry  *)
(* whose deadline has passed is not there; nothing else disappears unless  *)
(* the store is allowed to evict.                                          *)
(*                                                                         *)
(* The module knows nothing of shards, locks, the LRU list, the sweeper or *)
(* of expired entries that are still in memory.                            *)
(***************************************************************************)
EXTENDS Entry

CONSTANTS
  Clients,   \* goroutines that may be inside a Set at the same time
  TTLs,      \* the TTLs callers pass; 0 means no expiry
  Deltas,    \* the deltas callers pass to Incr
  Evictions  \* the sets of keys whose entries the store may drop at once

VARIABLES
  now,      \* the clock
  map,      \* map[k]: the live entry of k, or NoEntry
  pending,  \* pending[c]: the Set that c has begun, or NoEntry
  ret       \* what the most recent call returned

vars == <<now, map, pending, ret>>

Present(k) == map[k] # NoEntry

NewItem(v, exp) == [value |-> v, expiresAt |-> exp]

\* Storing an item that is already past its deadline leaves nothing behind.
Put(k, item) ==
  map' = [map EXCEPT ![k] = IF IsExpired(item, now) THEN NoEntry ELSE item]

Init ==
  /\ now = 1
  /\ map = [k \in Keys |-> NoEntry]
  /\ pending = [c \in Clients |-> NoEntry]
  /\ ret = <<"none">>

Get(k) ==
  /\ ret' = IF Present(k) THEN <<"Hit", k, map[k].value>> ELSE <<"Miss", k>>
  /\ UNCHANGED <<now, map, pending>>

\* The deadline of a Set counts from a clock reading made during the call,
\* so possibly before the instant at which the call takes effect.
BeginSet(c, k, v, ttl) ==
  /\ pending[c] = NoEntry
  /\ pending' = [pending EXCEPT ![c] = [key |-> k, value |-> v,
                                        expiresAt |-> Deadline(now, ttl)]]
  /\ UNCHANGED <<now, map, ret>>

Set(c) ==
  /\ pending[c] # NoEntry
  /\ Put(pending[c].key, NewItem(pending[c].value, pending[c].expiresAt))
  /\ pending' = [pending EXCEPT ![c] = NoEntry]
  /\ UNCHANGED <<now, ret>>

\* Deleting a live key reports TRUE.  An expired key may still be in memory,
\* so a caller may also see TRUE for a key that Exists denies.
Delete(k) ==
  /\ \E ok \in BOOLEAN :
       /\ Present(k) => ok
       /\ ret' = <<"Delete", k, ok>>
  /\ map' = [map EXCEPT ![k] = NoEntry]
  /\ UNCHANGED <<now, pending>>

Exists(k) ==
  /\ ret' = <<"Exists", k, Present(k)>>
  /\ UNCHANGED <<now, map, pending>>

TTL(k) ==
  /\ ret' = <<"TTL", k, IF Present(k) THEN Remaining(map[k], now) ELSE 0>>
  /\ UNCHANGED <<now, map, pending>>

\* At its deadline an entry is still served, but has no time left: a store
\* that has told a caller so may drop it.
Expire(k) ==
  /\ Present(k) /\ map[k].expiresAt = now
  /\ ret = <<"TTL", k, 0>>
  /\ map' = [map EXCEPT ![k] = NoEntry]
  /\ UNCHANGED <<now, pending, ret>>

\* Incr on a live counter keeps its deadline, but for one case: exactly at the
\* deadline there is no time left to carry over, and the counter may become
\* one that never expires.
Incr(k, d, ttl) ==
  /\ \/ /\ ~Present(k)
        /\ Put(k, NewItem(Wrap(d), Deadline(now, ttl)))
        /\ ret' = <<"Incr", k, Wrap(d)>>
     \/ /\ Present(k) /\ map[k].value \in Counters
        /\ LET v == Wrap(map[k].value + d) IN
           /\ \/ Put(k, NewItem(v, map[k].expiresAt))
              \/ now = map[k].expiresAt /\ Put(k, NewItem(v, Never))
           /\ ret' = <<"Incr", k, v>>
     \/ /\ Present(k) /\ map[k].value \notin Counters
        /\ ret' = <<"IncrError", k>>
        /\ UNCHANGED map
  /\ UNCHANGED <<now, pending>>

\* The store drops live entries of its own accord.
Evict(K) ==
  /\ map' = [k \in Keys |-> IF k \in K THEN NoEntry ELSE map[k]]
  /\ UNCHANGED <<now, pending, ret>>

\* Time passes; entries whose deadline it passes are gone at once.
Tick ==
  /\ now' = now + 1
  /\ map' = [k \in Keys |->
               IF Present(k) /\ IsExpired(map[k], now + 1) THEN NoEntry ELSE map[k]]
  /\ UNCHANGED <<pending, ret>>

Next ==
  \/ Tick
  \/ \E K \in Evictions : Evict(K)
  \/ \E c \in Clients :
       \/ Set(c)
       \/ \E k \in Keys, v \in Value, ttl \in TTLs : BeginSet(c, k, v, ttl)
  \/ \E k \in Keys :
       \/ Get(k) \/ Delete(k) \/ Exists(k) \/ TTL(k) \/ Expire(k)
       \/ \E d \in Deltas, ttl \in TTLs : Incr(k, d, ttl)

Spec == Init /\ [][Next]_vars
=============================================================================
