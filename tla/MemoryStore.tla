---------------------------- MODULE MemoryStore ----------------------------
(***************************************************************************)
(* The in-memory store: src/store_memory.go over the shards of             *)
(* src/internal/cache/shard.go.                                            *)
(*                                                                         *)
(* Every call runs in a goroutine.  A call that is one critical section is *)
(* one action; a call that reads the clock before it locks (Set), that     *)
(* drops a read lock to take the write lock (Exists, TTL), or that loops   *)
(* while it holds the lock (the eviction loop, the sweeper) is split where *)
(* other goroutines or the clock can get in between, or at each iteration. *)
(* Clients are the goroutines that are inside such a call.                 *)
(*                                                                         *)
(* The clock readings made inside one critical section fall on the same    *)
(* tick.  The window in which the deadline passes between two of them is   *)
(* the tick now = expiresAt, at which an entry is not yet expired and has  *)
(* no time remaining.                                                      *)
(***************************************************************************)
EXTENDS Entry, Sequences, FiniteSets

CONSTANTS
  Clients,    \* goroutines that may be inside a call at the same time
  NumShards,
  ShardOf,    \* fnv32a(key) & mask: the shard of a key
  MaxSize,    \* perShardMaxBytes; 0 means unlimited
  TTLs,
  Deltas,
  MaxTime     \* bound on the clock

Shards == 1 .. NumShards

ASSUME NumShardsAssumption == NumShards \in Nat \ {0}
ASSUME ShardOfAssumption == ShardOf \in [Keys -> Shards]
ASSUME MaxSizeAssumption == MaxSize \in Int
ASSUME ArgumentsAssumption == TTLs \subseteq Int /\ Deltas \subseteq Int
ASSUME MaxTimeAssumption == MaxTime \in Nat

VARIABLES
  items,  \* items[k]: the entry of k in its shard's map, or NoEntry
  lru,    \* lru[s]: keys of shard s, most recently used first
  size,   \* size[s]: Shard.Size
  call,   \* call[c]: where goroutine c is inside a call
  sweep,  \* where the sweeper goroutine is inside DeleteExpired
  now,    \* the clock
  ret     \* what the most recent call returned

shardVars == <<items, lru, size>>
vars == <<items, lru, size, call, sweep, now, ret>>

Idle == [pc |-> "idle"]

Call ==
  {Idle}
    \cup [pc : {"set"}, key : Keys, value : Value, expiresAt : Nat]
    \cup [pc : {"recheck", "evict"}, key : Keys]

Quiet == [pc |-> "idle", shard |-> 1, at |-> 0, fire |-> {}]

Sweep == [pc : {"idle", "lock", "scan", "fire"}, shard : Shards, at : Nat,
          fire : SUBSET Keys]

Init ==
  /\ items = [k \in Keys |-> NoEntry]
  /\ lru = [s \in Shards |-> <<>>]
  /\ size = [s \in Shards |-> 0]
  /\ call = [c \in Clients |-> Idle]
  /\ sweep = Quiet
  /\ now = 1
  /\ ret = <<"none">>

-----------------------------------------------------------------------------
\* Entries and the LRU list

Has(k) == items[k] # NoEntry

Expired(k) == Has(k) /\ IsExpired(items[k], now)

Live(k) == Has(k) /\ ~IsExpired(items[k], now)

NewEntry(k, v, exp) ==
  [value |-> v, expiresAt |-> exp, size |-> EstimateSize(k, v)]

\* list.Remove of the element that an entry points to.
Unlink(l, k) ==
  LET i == CHOOSE j \in DOMAIN l : l[j] = k
  IN  SubSeq(l, 1, i - 1) \o SubSeq(l, i + 1, Len(l))

\* list.Back
Back(l) == l[Len(l)]

\* Mutant: the element the entry pointed to stays in the list.
MoveToFront_KeepsElement(l, k) == <<k>> \o l

MoveToFront(l, k) == <<k>> \o Unlink(l, k)

\* Some goroutine is in the loop of evictLocked on shard s.
Evicting(s) == \E c \in Clients : call[c].pc = "evict" /\ ShardOf[call[c].key] = s

\* Mutant: the lock does not keep the sweeper and a loop apart.
Unlocked_IgnoresLoop(s) == ~(sweep.pc = "scan" /\ sweep.shard = s)

\* The shard's lock is held across actions only by the two loops.
Unlocked(s) == ~Evicting(s) /\ ~(sweep.pc = "scan" /\ sweep.shard = s)

\* Mutant: the bytes of the removed entry stay in Size.
removeLocked_KeepsSize(k) ==
  /\ items' = [items EXCEPT ![k] = NoEntry]
  /\ lru' = [lru EXCEPT ![ShardOf[k]] = Unlink(@, k)]
  /\ UNCHANGED size

\* Mutant: the caller of removeLocked has already adjusted Size.
removeLocked_SubtractsTwice(k) ==
  /\ items' = [items EXCEPT ![k] = NoEntry]
  /\ lru' = [lru EXCEPT ![ShardOf[k]] = Unlink(@, k)]
  /\ size' = [size EXCEPT ![ShardOf[k]] = @ - 2 * items[k].size]

removeLocked(k) ==
  /\ items' = [items EXCEPT ![k] = NoEntry]
  /\ lru' = [lru EXCEPT ![ShardOf[k]] = Unlink(@, k)]
  /\ size' = [size EXCEPT ![ShardOf[k]] = @ - items[k].size]

\* Mutant: one byte too many is let through.
OverBudget_OffByOne(sz, l) == MaxSize > 0 /\ sz > MaxSize + 1 /\ Len(l) > 0

\* The condition of the loop in evictLocked.
OverBudget(sz, l) == MaxSize > 0 /\ sz > MaxSize /\ Len(l) > 0

\* The tail of Set and Incr: the new entry goes to the front of the list in
\* place of the one it replaces, then evictLocked starts.
insertLocked(c, k, e) ==
  LET s   == ShardOf[k]
      old == IF Has(k) THEN items[k].size ELSE 0
      l   == IF Has(k) THEN MoveToFront(lru[s], k) ELSE <<k>> \o lru[s]
      sz  == size[s] - old + e.size
  IN  /\ items' = [items EXCEPT ![k] = e]
      /\ lru' = [lru EXCEPT ![s] = l]
      /\ size' = [size EXCEPT ![s] = sz]
      /\ call' = [call EXCEPT ![c] =
                    IF OverBudget(sz, l) THEN [pc |-> "evict", key |-> k] ELSE Idle]

-----------------------------------------------------------------------------
\* Calls

Get(k) ==
  /\ Unlocked(ShardOf[k])
  /\ \/ /\ ~Has(k)
        /\ ret' = <<"Miss", k>>
        /\ UNCHANGED shardVars
     \/ /\ Expired(k)
        /\ removeLocked(k)
        /\ ret' = <<"Miss", k>>
     \/ /\ Live(k)
        /\ lru' = [lru EXCEPT ![ShardOf[k]] = MoveToFront(@, k)]
        /\ ret' = <<"Hit", k, items[k].value>>
        /\ UNCHANGED <<items, size>>
  /\ UNCHANGED <<call, sweep, now>>

\* Set reads the clock for the deadline before it takes the lock ...
SetCall(c, k, v, ttl) ==
  /\ call[c] = Idle
  /\ call' = [call EXCEPT ![c] = [pc |-> "set", key |-> k, value |-> v,
                                  expiresAt |-> Deadline(now, ttl)]]
  /\ UNCHANGED <<shardVars, sweep, now, ret>>

\* ... and then stores the entry.
SetCommit(c) ==
  LET k == call[c].key IN
  /\ call[c].pc = "set"
  /\ Unlocked(ShardOf[k])
  /\ insertLocked(c, k, NewEntry(k, call[c].value, call[c].expiresAt))
  /\ UNCHANGED <<sweep, now, ret>>

\* Mutant: the first entry of the list goes, the most recently used one.
EvictOne_Newest(c) ==
  LET s == ShardOf[call[c].key]
      k == Head(lru[s])
  IN  /\ call[c].pc = "evict"
      /\ removeLocked(k)
      /\ call' = [call EXCEPT ![c] =
                    IF OverBudget(size'[s], lru'[s]) THEN @ ELSE Idle]
      /\ UNCHANGED <<sweep, now, ret>>

\* One iteration of the loop in evictLocked; the last one releases the lock.
EvictOne(c) ==
  LET s == ShardOf[call[c].key]
      k == Back(lru[s])
  IN  /\ call[c].pc = "evict"
      /\ removeLocked(k)
      /\ call' = [call EXCEPT ![c] =
                    IF OverBudget(size'[s], lru'[s]) THEN @ ELSE Idle]
      /\ UNCHANGED <<sweep, now, ret>>

Delete(k) ==
  /\ Unlocked(ShardOf[k])
  /\ IF Has(k) THEN removeLocked(k) ELSE UNCHANGED shardVars
  /\ ret' = <<"Delete", k, Has(k)>>
  /\ UNCHANGED <<call, sweep, now>>

\* Exists and TTL answer under the read lock; if they met an expired entry
\* they go on to take the write lock.
ReadThenRecheck(c, k, answer) ==
  /\ call[c] = Idle
  /\ Unlocked(ShardOf[k])
  /\ ret' = answer
  /\ call' = [call EXCEPT ![c] =
                IF Expired(k) THEN [pc |-> "recheck", key |-> k] ELSE Idle]
  /\ UNCHANGED <<shardVars, sweep, now>>

Exists(c, k) == ReadThenRecheck(c, k, <<"Exists", k, Live(k)>>)

TTL(c, k) ==
  ReadThenRecheck(c, k, <<"TTL", k, IF Live(k) THEN Remaining(items[k], now) ELSE 0>>)

\* Mutant: the entry is removed on the strength of the first look at it.
Recheck_Trusting(c) ==
  LET k == call[c].key IN
  /\ call[c].pc = "recheck"
  /\ Unlocked(ShardOf[k])
  /\ IF Has(k) THEN removeLocked(k) ELSE UNCHANGED shardVars
  /\ call' = [call EXCEPT ![c] = Idle]
  /\ UNCHANGED <<sweep, now, ret>>

\* Under the write lock the key is looked up and tested again.
Recheck(c) ==
  LET k == call[c].key IN
  /\ call[c].pc = "recheck"
  /\ Unlocked(ShardOf[k])
  /\ IF Expired(k) THEN removeLocked(k) ELSE UNCHANGED shardVars
  /\ call' = [call EXCEPT ![c] = Idle]
  /\ UNCHANGED <<sweep, now, ret>>

\* "Preserve original TTL": what is left of it is counted again from now.
KeptDeadline(e) ==
  IF e.expiresAt # Never /\ e.expiresAt - now > 0
  THEN Deadline(now, e.expiresAt - now) ELSE Never

Incr(c, k, d, ttl) ==
  /\ call[c] = Idle
  /\ Unlocked(ShardOf[k])
  /\ \/ /\ Live(k) /\ items[k].value \notin Counters
        /\ ret' = <<"IncrError", k>>
        /\ UNCHANGED <<shardVars, call>>
     \/ /\ Live(k) /\ items[k].value \in Counters
        /\ LET v == Wrap(items[k].value + d) IN
           /\ insertLocked(c, k, NewEntry(k, v, KeptDeadline(items[k])))
           /\ ret' = <<"Incr", k, v>>
     \/ /\ ~Live(k)
        /\ insertLocked(c, k, NewEntry(k, Wrap(d), Deadline(now, ttl)))
        /\ ret' = <<"Incr", k, Wrap(d)>>
  /\ UNCHANGED <<sweep, now>>

-----------------------------------------------------------------------------
\* The sweeper: DeleteExpired on one shard after the other

\* The ticker fires; the first shard's DeleteExpired reads the clock.
SweepStart ==
  /\ sweep.pc = "idle"
  /\ sweep' = [Quiet EXCEPT !.pc = "lock", !.at = now]
  /\ UNCHANGED <<shardVars, call, now, ret>>

SweepLock ==
  /\ sweep.pc = "lock"
  /\ Unlocked(sweep.shard)
  /\ sweep' = [sweep EXCEPT !.pc = "scan"]
  /\ UNCHANGED <<shardVars, call, now, ret>>

\* What the scan of the map finds expired at the time read before locking.
ToSweep ==
  {k \in Keys : ShardOf[k] = sweep.shard /\ Has(k) /\ IsExpired(items[k], sweep.at)}

SweepRemove(k) ==
  /\ sweep.pc = "scan" /\ k \in ToSweep
  /\ removeLocked(k)
  /\ sweep' = [sweep EXCEPT !.fire = @ \cup {k}]
  /\ UNCHANGED <<call, now, ret>>

SweepUnlock ==
  /\ sweep.pc = "scan" /\ ToSweep = {}
  /\ sweep' = [sweep EXCEPT !.pc = "fire"]
  /\ UNCHANGED <<shardVars, call, now, ret>>

\* OnExpire for one of the removed entries, outside the lock.
SweepFire(k) ==
  /\ sweep.pc = "fire" /\ k \in sweep.fire
  /\ sweep' = [sweep EXCEPT !.fire = @ \ {k}]
  /\ UNCHANGED <<shardVars, call, now, ret>>

\* Mutant: the loop over the shards stops one shard early.
SweepNextShard_Short ==
  /\ sweep.pc = "fire" /\ sweep.fire = {}
  /\ sweep' = IF sweep.shard + 1 < NumShards
              THEN [sweep EXCEPT !.pc = "lock", !.shard = @ + 1, !.at = now]
              ELSE Quiet
  /\ UNCHANGED <<shardVars, call, now, ret>>

SweepNextShard ==
  /\ sweep.pc = "fire" /\ sweep.fire = {}
  /\ sweep' = IF sweep.shard < NumShards
              THEN [sweep EXCEPT !.pc = "lock", !.shard = @ + 1, !.at = now]
              ELSE Quiet
  /\ UNCHANGED <<shardVars, call, now, ret>>

Sweeper ==
  \/ SweepStart \/ SweepLock \/ SweepUnlock \/ SweepNextShard
  \/ \E k \in Keys : SweepRemove(k) \/ SweepFire(k)

Tick ==
  /\ now < MaxTime
  /\ now' = now + 1
  /\ UNCHANGED <<shardVars, call, sweep, ret>>

\* The rest of a call that is under way.
Continue(c) == SetCommit(c) \/ EvictOne(c) \/ Recheck(c)

Next ==
  \/ Tick
  \/ Sweeper
  \/ \E k \in Keys : Get(k) \/ Delete(k)
  \/ \E c \in Clients : Continue(c)
  \/ \E c \in Clients, k \in Keys :
       \/ Exists(c, k)
       \/ TTL(c, k)
       \/ \E v \in Value, ttl \in TTLs : SetCall(c, k, v, ttl)
       \/ \E d \in Deltas, ttl \in TTLs : Incr(c, k, d, ttl)

Spec == Init /\ [][Next]_vars

\* Goroutines are scheduled, and sync.RWMutex does not starve a waiter: a
\* step that waits for a lock that is free again and again is taken.
Fairness ==
  /\ SF_vars(SweepLock)
  /\ WF_vars(SweepStart \/ SweepUnlock \/ SweepNextShard)
  /\ WF_vars(\E k \in Keys : SweepRemove(k) \/ SweepFire(k))
  /\ \A c \in Clients : SF_vars(SetCommit(c) \/ Recheck(c)) /\ WF_vars(EvictOne(c))

FairSpec == Spec /\ Fairness

-----------------------------------------------------------------------------
\* Properties

\* The keys of shard s, and the bytes their entries stand for.
Held(s) == {k \in Keys : ShardOf[k] = s /\ Has(k)}

\* The list l holds every element of S, once, and nothing else.
Enumerates(l, S) ==
  /\ \A i \in DOMAIN l : l[i] \in S
  /\ \A k \in S : \E i \in DOMAIN l : l[i] = k
  /\ \A i, j \in DOMAIN l : l[i] = l[j] => i = j

Bytes(s) == UNION {{k} \X (1 .. items[k].size) : k \in Held(s)}

\* Types of the store's state; Shard.Size never goes below zero.
TypeOK ==
  /\ items \in [Keys -> Entry \cup {NoEntry}]
  /\ lru \in [Shards -> Seq(Keys)]
  /\ size \in [Shards -> Nat]
  /\ call \in [Clients -> Call]
  /\ sweep \in Sweep
  /\ now \in Nat \ {0}

\* The LRU list of a shard holds exactly the keys of its map, each once
\* (entries point into the list and the loop in evictLocked trusts it).
LRUConsistent == \A s \in Shards : Enumerates(lru[s], Held(s))

\* Shard.Size is the number of bytes the shard's entries stand for, through
\* every overwrite, removal, eviction and sweep (shard.go adjusts it by hand
\* in five places).
SizeAccounted ==
  \A s \in Shards : IsFiniteSet(Bytes(s)) /\ size[s] = Cardinality(Bytes(s))

\* Outside the eviction loop a shard is within its memory limit.
WithinBudget ==
  \A s \in Shards : MaxSize > 0 /\ ~Evicting(s) => size[s] <= MaxSize

\* While a goroutine is in the loop of evictLocked it alone holds the shard's
\* lock, the shard is over its limit with something left to evict, and the
\* entry it stored is still the most recently used one.
EvictLoop ==
  \A c \in Clients : call[c].pc = "evict" =>
    LET s == ShardOf[call[c].key] IN
    /\ OverBudget(size[s], lru[s])
    /\ lru[s][1] = call[c].key
    /\ \A d \in Clients \ {c} : call[d].pc = "evict" => ShardOf[call[d].key] # s
    /\ ~(sweep.pc = "scan" /\ sweep.shard = s)

\* evictLocked drops the entry that the very same Set or Incr stored only if
\* this entry alone exceeds the limit.
FreshEntrySurvives ==
  [][\A c \in Clients :
       EvictOne(c) /\ items'[call[c].key] = NoEntry
         => items[call[c].key].size > MaxSize]_vars

\* The store seen through its interface: expired entries are not there.
LiveMap ==
  [k \in Keys |->
     IF Live(k) THEN [value |-> items[k].value, expiresAt |-> items[k].expiresAt]
     ELSE NoEntry]

PendingSets ==
  [c \in Clients |->
     IF call[c].pc = "set"
     THEN [key |-> call[c].key, value |-> call[c].value, expiresAt |-> call[c].expiresAt]
     ELSE NoEntry]

\* With a limit, the eviction loop drops one entry at a time.
OneByOne == IF MaxSize > 0 THEN {{k} : k \in Keys} ELSE {}

StoreView == INSTANCE Store WITH map <- LiveMap, pending <- PendingSets,
                                 Evictions <- OneByOne

\* MemoryStore implements the Store interface: every call is atomic, no
\* expired value is served, and without a limit no live entry is ever lost,
\* whatever the sweeper and the lock upgrades of Exists and TTL do meanwhile.
ImplementsStore == StoreView!Spec

\* Every expired entry is eventually gone from memory even if no one asks
\* for it again (the sweeper visits every shard).
ExpiredGetsRemoved == \A k \in Keys : Expired(k) ~> ~Expired(k)
=============================================================================
