-------------------------- MODULE LocalCacheProofs --------------------------
(***************************************************************************)
(* Proofs about a cache in local mode, for any keys, shards, limits, tags  *)
(* and goroutines: the memory store implements the interface Store, and    *)
(* the tag index that Cache keeps beside it stays one relation and follows *)
(* the keys of the store.                                                  *)
(***************************************************************************)
EXTENDS TaggedCache, MemoryStoreProofs

\* More than the default of 5 seconds, so that a slow machine does not matter.
USE SMTT(30), ZenonT(30)

-----------------------------------------------------------------------------
\* MemoryStore implements Store

\* The sweeper judges entries by a clock reading that is not ahead of now.
SweepClock == sweep.at <= now

LEMMA SweepClockNext == Inv /\ SweepClock /\ [Next]_vars => SweepClock'
<1> SUFFICES ASSUME Inv, SweepClock, [Next]_vars PROVE SweepClock'
  BY Zenon
<1>1. sweep \in Sweep /\ now \in Nat
  BY Zenon DEF Inv, TypeOK
<1>2. CASE UNCHANGED sweep /\ (now' = now \/ now' = now + 1)
  BY <1>1, <1>2 DEF SweepClock, Sweep
<1>3. CASE Sweeper
  <2>1. now' = now
    BY <1>3, Zenon DEF Sweeper, SweepStart, SweepLock, SweepUnlock, SweepNextShard,
                SweepRemove, SweepFire
  <2>2. CASE SweepStart \/ SweepNextShard
    <3>1. SweepStart => sweep'.at = now
      BY Zenon DEF SweepStart, Quiet
    <3>2. SweepNextShard => sweep'.at = now \/ sweep'.at = 0
      BY <1>1 DEF SweepNextShard, Quiet, Sweep
    <3> QED  BY <1>1, <2>1, <2>2, <3>1, <3>2 DEF SweepClock
  <2>3. CASE SweepLock \/ SweepUnlock \/ \E k \in Keys : SweepRemove(k) \/ SweepFire(k)
    <3>1. sweep'.at = sweep.at
      BY <1>1, <2>3, Zenon DEF SweepLock, SweepUnlock, SweepRemove, SweepFire, Sweep
    <3> QED  BY <2>1, <3>1, Zenon DEF SweepClock
  <2> QED  BY <1>3, <2>2, <2>3, Zenon DEF Sweeper
<1>4. CASE UNCHANGED vars
  BY <1>2, <1>4, Zenon DEF vars
<1>5. CASE Tick
  BY <1>2, <1>5, Zenon DEF Tick
<1>6. CASE Next /\ ~Tick /\ ~Sweeper
  <2>1. UNCHANGED <<sweep, now>>
    BY <1>6, ZenonT(30) DEF Next, Get, Delete, Continue, SetCommit, EvictOne, Recheck, Exists, TTL,
                ReadThenRecheck, SetCall, Incr
  <2> QED  BY <1>2, <2>1, ZenonT(30)
<1> QED  BY <1>3, <1>4, <1>5, <1>6, ZenonT(30)

\* What a caller sees of an entry at the present time.
Seen(e) ==
  IF e # NoEntry /\ ~IsExpired(e, now)
  THEN [value |-> e.value, expiresAt |-> e.expiresAt] ELSE NoEntry

LEMMA LiveMapSeen == LiveMap = [k \in Keys |-> Seen(items[k])]
BY Zenon DEF LiveMap, Live, Has, Seen

\* A key is present for the interface iff its entry is live.
LEMMA PresentLive ==
  ASSUME Inv, NEW k \in Keys
  PROVE  /\ StoreView!Present(k) <=> Live(k)
         /\ Live(k) => /\ items[k] \in Entry
                       /\ LiveMap[k].value = items[k].value
                       /\ LiveMap[k].expiresAt = items[k].expiresAt
<1>1. LiveMap[k] = IF Live(k) THEN [value |-> items[k].value, expiresAt |-> items[k].expiresAt]
                   ELSE NoEntry
  BY Zenon DEF LiveMap
<1>2. Live(k) => items[k] \in Entry
  BY Zenon DEF Live, Has, Inv, TypeOK
<1>3. Live(k) => [value |-> items[k].value, expiresAt |-> items[k].expiresAt] \in Item
  BY <1>2, Zenon DEF Entry, Item
<1> QED  BY <1>1, <1>2, <1>3, NoEntryAssumption DEF StoreView!Present

\* Changing one entry changes what is seen of its key.
LEMMA LiveMapChange ==
  ASSUME Inv, NEW k \in Keys, NEW e, items' = [items EXCEPT ![k] = e], now' = now
  PROVE  LiveMap' = [LiveMap EXCEPT ![k] = Seen(e)]
<1>1. items \in [Keys -> Entry \cup {NoEntry}]
  BY Zenon DEF Inv, TypeOK
<1>2. \A j \in Keys : items'[j] = IF j = k THEN e ELSE items[j]
  BY <1>1, Zenon
<1>3. LiveMap' = [j \in Keys |-> Seen(items'[j])]
  BY Zenon DEF LiveMap, Live, Has, Seen
<1>4. [LiveMap EXCEPT ![k] = Seen(e)] = [j \in Keys |-> IF j = k THEN Seen(e) ELSE Seen(items[j])]
  BY LiveMapSeen, Zenon
<1> QED  BY <1>2, <1>3, <1>4

LEMMA LiveMapSame ==
  ASSUME UNCHANGED <<items, now>>
  PROVE  LiveMap' = LiveMap
BY Zenon DEF LiveMap, Live, Has

\* An entry that is not live goes without being missed.
LEMMA LiveMapDrop ==
  ASSUME Inv, NEW k \in Keys, removeLocked(k), ~Live(k), now' = now
  PROVE  LiveMap' = LiveMap
<1>1. LiveMap' = [LiveMap EXCEPT ![k] = Seen(NoEntry)]
  BY LiveMapChange, Zenon DEF removeLocked
<1>2. Seen(NoEntry) = NoEntry /\ LiveMap[k] = NoEntry
  BY Zenon DEF Seen, LiveMap
<1> QED  BY <1>1, <1>2, ZenonT(30) DEF LiveMap

\* The Sets under way, when no goroutine enters or leaves one.
LEMMA PendingSame ==
  ASSUME \A c \in Clients : /\ call'[c].pc = "set" <=> call[c].pc = "set"
                            /\ call[c].pc = "set" => call'[c] = call[c]
  PROVE  PendingSets' = PendingSets
BY Zenon DEF PendingSets

LEMMA PendingMove ==
  ASSUME Inv, NEW c \in Clients, NEW x, call' = [call EXCEPT ![c] = x],
         x.pc # "set", call[c].pc # "set"
  PROVE  PendingSets' = PendingSets
<1>1. call \in [Clients -> Call]
  BY Zenon DEF Inv, TypeOK
<1>2. \A d \in Clients : call'[d] = IF d = c THEN x ELSE call[d]
  BY <1>1, Zenon
<1> QED  BY <1>2, PendingSame, Zenon

\* Storing a new entry is a Put of the interface, and ends a Set under way.
LEMMA InsertPuts ==
  ASSUME Inv, NEW c \in Clients, NEW k \in Keys, NEW v \in Value, NEW exp \in Nat,
         insertLocked(c, k, NewEntry(k, v, exp)), now' = now
  PROVE  /\ StoreView!Put(k, StoreView!NewItem(v, exp))
         /\ PendingSets' = [PendingSets EXCEPT ![c] = NoEntry]
<1>1. PICK e \in Entry : e = NewEntry(k, v, exp)
  BY NewEntryType, Zenon
<1>2. items' = [items EXCEPT ![k] = e]
  BY <1>1, Zenon DEF insertLocked
<1>3. LiveMap' = [LiveMap EXCEPT ![k] = Seen(e)]
  BY <1>2, LiveMapChange, Zenon
<1>4. e.value = v /\ e.expiresAt = exp /\ e # NoEntry
  BY <1>1, NoEntryAssumption, Zenon DEF NewEntry
<1>5. Seen(e) = IF StoreView!IsExpired(StoreView!NewItem(v, exp), now) THEN NoEntry
                ELSE StoreView!NewItem(v, exp)
  BY <1>4, Zenon DEF Seen, IsExpired, Never, StoreView!IsExpired, StoreView!Never, StoreView!NewItem
<1>6. StoreView!Put(k, StoreView!NewItem(v, exp))
  BY <1>3, <1>5, Zenon DEF StoreView!Put
<1>7. PICK x \in {[pc |-> "evict", key |-> k], Idle} : call' = [call EXCEPT ![c] = x]
  BY Zenon DEF insertLocked
<1>8. x.pc # "set" /\ call \in [Clients -> Call]
  BY <1>7 DEF Idle, Inv, TypeOK
<1>9. \A d \in Clients : call'[d] = IF d = c THEN x ELSE call[d]
  BY <1>7, <1>8, Zenon
<1>10. PendingSets' = [PendingSets EXCEPT ![c] = NoEntry]
  BY <1>8, <1>9, Zenon DEF PendingSets
<1> QED  BY <1>6, <1>10, Zenon

\* The end of a Set.
LEMMA SetCommitView ==
  ASSUME Inv, NEW c \in Clients, SetCommit(c)
  PROVE  StoreView!Set(c)
<1>1. PICK k, v, exp : k = call[c].key /\ v = call[c].value /\ exp = call[c].expiresAt
  BY Zenon
<1>2. /\ call[c].pc = "set" /\ k \in Keys /\ v \in Value /\ exp \in Nat
      /\ insertLocked(c, k, NewEntry(k, v, exp)) /\ UNCHANGED <<now, ret>>
  BY <1>1 DEF SetCommit, Inv, TypeOK, Call, Idle
<1>3. PendingSets[c] = [key |-> k, value |-> v, expiresAt |-> exp]
  BY <1>1, <1>2, Zenon DEF PendingSets
<1>4. PendingSets[c] \in PendingSet
  BY <1>2, <1>3 DEF PendingSet
<1>5. PendingSets[c] # NoEntry
  BY <1>4, NoEntryAssumption, Zenon
<1>6. /\ StoreView!Put(k, StoreView!NewItem(v, exp))
      /\ PendingSets' = [PendingSets EXCEPT ![c] = NoEntry]
  BY <1>2, InsertPuts
<1>7. StoreView!Put(PendingSets[c].key,
                   StoreView!NewItem(PendingSets[c].value, PendingSets[c].expiresAt))
  BY <1>3, <1>6
<1> QED  BY <1>2, <1>5, <1>6, <1>7 DEF StoreView!Set

\* The beginning of a Set.
LEMMA SetCallView ==
  ASSUME Inv, NEW c \in Clients, NEW k \in Keys, NEW v \in Value, NEW ttl \in TTLs,
         SetCall(c, k, v, ttl)
  PROVE  StoreView!BeginSet(c, k, v, ttl)
<1>1. /\ call[c].pc = "idle" /\ call \in [Clients -> Call]
      /\ UNCHANGED <<items, now, ret>>
  BY DEF SetCall, Idle, Inv, TypeOK, shardVars
<1>2. PICK x : x = [pc |-> "set", key |-> k, value |-> v, expiresAt |-> Deadline(now, ttl)]
  BY Zenon
<1>3. \A d \in Clients : call'[d] = IF d = c THEN x ELSE call[d]
  BY <1>1, <1>2 DEF SetCall
<1>4. StoreView!Deadline(now, ttl) = Deadline(now, ttl)
  BY Zenon DEF Deadline, StoreView!Deadline, Never, StoreView!Never
<1>5. PendingSets[c] = NoEntry
  BY <1>1, ZenonT(30) DEF PendingSets
<1>6. PendingSets' = [PendingSets EXCEPT ![c] =
                        [key |-> k, value |-> v, expiresAt |-> Deadline(now, ttl)]]
  <2>1. x.pc = "set" /\ x.key = k /\ x.value = v /\ x.expiresAt = Deadline(now, ttl)
    BY <1>2, Zenon
  <2> QED  BY <1>3, <2>1, ZenonT(30) DEF PendingSets
<1> QED  BY <1>1, <1>4, <1>5, <1>6, LiveMapSame DEF StoreView!BeginSet

\* An Incr that creates, adds to or refuses to touch the counter.
LEMMA IncrView ==
  ASSUME Inv, NEW c \in Clients, NEW k \in Keys, NEW d \in Deltas, NEW ttl \in TTLs,
         Incr(c, k, d, ttl)
  PROVE  StoreView!Incr(k, d, ttl)
<1>1. /\ call[c].pc = "idle" /\ call \in [Clients -> Call] /\ UNCHANGED now
      /\ now \in Nat /\ d \in Int /\ ttl \in Int
  BY ArgumentsAssumption DEF Incr, Idle, Inv, TypeOK
<1>2. /\ \A n : StoreView!Wrap(n) = Wrap(n)
      /\ StoreView!Deadline(now, ttl) = Deadline(now, ttl)
      /\ StoreView!Counters = Counters /\ StoreView!Never = Never
  BY Zenon DEF Deadline, StoreView!Deadline, Never, StoreView!Never, Wrap, StoreView!Wrap,
         Counters, StoreView!Counters
<1>3. PendingSets = [PendingSets EXCEPT ![c] = NoEntry]
  BY <1>1 DEF PendingSets
<1>4. /\ StoreView!Present(k) <=> Live(k)
      /\ Live(k) => /\ items[k] \in Entry
                    /\ LiveMap[k].value = items[k].value
                    /\ LiveMap[k].expiresAt = items[k].expiresAt
  BY PresentLive, Zenon
<1>5. CASE /\ Live(k) /\ items[k].value \notin Counters
           /\ ret' = <<"IncrError", k>> /\ UNCHANGED <<shardVars, call>>
  <2>1. LiveMap' = LiveMap /\ PendingSets' = PendingSets
    BY <1>1, <1>5, LiveMapSame DEF shardVars, PendingSets
  <2> QED  BY <1>1, <1>2, <1>4, <1>5, <2>1 DEF StoreView!Incr
<1>6. CASE /\ Live(k) /\ items[k].value \in Counters
           /\ insertLocked(c, k, NewEntry(k, Wrap(items[k].value + d),
                                          KeptDeadline(items[k])))
           /\ ret' = <<"Incr", k, Wrap(items[k].value + d)>>
  <2>1. /\ items[k].value \in Int /\ items[k].expiresAt \in Nat
        /\ items[k].expiresAt = Never \/ now <= items[k].expiresAt
    BY <1>1, <1>4, <1>6, IntLimitAssumption DEF Counters, Entry, Live, IsExpired
  <2>2. PICK v, exp : v = Wrap(items[k].value + d) /\ exp = KeptDeadline(items[k])
    BY Zenon
  <2>3. v \in Value
    BY <1>1, <2>1, <2>2, WrapType DEF Value
  <2>4. /\ exp \in Nat
        /\ \/ exp = items[k].expiresAt
           \/ exp = Never /\ now = items[k].expiresAt
    <3>1. PICK t \in Nat : t = items[k].expiresAt
      BY <2>1
    <3>2. exp = IF t # Never /\ t - now > 0 THEN Deadline(now, t - now) ELSE Never
      BY <2>2, <3>1 DEF KeptDeadline
    <3>3. t = Never \/ now <= t
      BY <2>1, <3>1
    <3> QED  BY <1>1, <3>1, <3>2, <3>3 DEF Deadline, Never
  <2>5. StoreView!Put(k, StoreView!NewItem(v, exp)) /\ PendingSets' = PendingSets
    BY <1>1, <1>3, <1>6, <2>2, <2>3, <2>4, InsertPuts
  <2>6. /\ v = StoreView!Wrap(LiveMap[k].value + d)
        /\ LiveMap[k].value \in StoreView!Counters
        /\ \/ exp = LiveMap[k].expiresAt
           \/ exp = StoreView!Never /\ now = LiveMap[k].expiresAt
        /\ ret' = <<"Incr", k, v>>
    BY <1>2, <1>4, <1>6, <2>2, <2>4
  <2> QED  BY <1>1, <1>4, <1>6, <2>5, <2>6, Zenon DEF StoreView!Incr
<1>7. CASE /\ ~Live(k)
           /\ insertLocked(c, k, NewEntry(k, Wrap(d), Deadline(now, ttl)))
           /\ ret' = <<"Incr", k, Wrap(d)>>
  <2>1. Wrap(d) \in Value /\ Deadline(now, ttl) \in Nat
    BY <1>1, WrapType, DeadlineType DEF Value
  <2>2. /\ StoreView!Put(k, StoreView!NewItem(Wrap(d), Deadline(now, ttl)))
        /\ PendingSets' = PendingSets
    BY <1>1, <1>3, <1>7, <2>1, InsertPuts
  <2> QED  BY <1>1, <1>2, <1>4, <1>7, <2>2, ZenonT(30) DEF StoreView!Incr
<1> QED  BY <1>5, <1>6, <1>7, Zenon DEF Incr

\* The calls that are one critical section and do not store anything.
LEMMA GetView ==
  ASSUME Inv, NEW k \in Keys, Get(k)
  PROVE  StoreView!Get(k)
<1>1. UNCHANGED <<call, now>> /\ PendingSets' = PendingSets
  BY Zenon DEF Get, PendingSets
<1>2. LiveMap' = LiveMap
  <2>1. CASE UNCHANGED items
    BY <1>1, <2>1, LiveMapSame
  <2>2. CASE Expired(k) /\ removeLocked(k)
    BY <1>1, <2>2, LiveMapDrop DEF Expired, Live
  <2> QED  BY <2>1, <2>2 DEF Get, shardVars
<1>3. ret' = IF Live(k) THEN <<"Hit", k, items[k].value>> ELSE <<"Miss", k>>
  BY Zenon DEF Get, Live, Expired
<1> QED  BY <1>1, <1>2, <1>3, PresentLive DEF StoreView!Get

LEMMA DeleteView ==
  ASSUME Inv, NEW k \in Keys, Delete(k)
  PROVE  StoreView!Delete(k)
<1>1. UNCHANGED <<call, now>> /\ PendingSets' = PendingSets
  BY Zenon DEF Delete, PendingSets
<1>2. LiveMap' = [LiveMap EXCEPT ![k] = NoEntry]
  <2>1. CASE ~Has(k) /\ UNCHANGED shardVars
    <3>1. LiveMap' = LiveMap
      BY <1>1, <2>1, LiveMapSame, Zenon DEF shardVars
    <3>2. LiveMap[k] = NoEntry
      BY <2>1, Zenon DEF LiveMap, Live
    <3> QED  BY <3>1, <3>2, Zenon DEF LiveMap
  <2>2. CASE removeLocked(k)
    <3>1. Seen(NoEntry) = NoEntry
      BY Zenon DEF Seen
    <3> QED  BY <1>1, <2>2, <3>1, LiveMapChange, ZenonT(30) DEF removeLocked
  <2> QED  BY <2>1, <2>2, Zenon DEF Delete
<1>3. Has(k) \in BOOLEAN /\ (StoreView!Present(k) => Has(k)) /\ ret' = <<"Delete", k, Has(k)>>
  BY PresentLive, Zenon DEF Has, Live, Delete
<1> QED  BY <1>1, <1>2, <1>3, Zenon DEF StoreView!Delete

\* Exists and TTL answer under the read lock; what follows is not seen.
LEMMA ReadView ==
  ASSUME Inv, NEW c \in Clients, NEW k \in Keys
  PROVE  /\ Exists(c, k) => StoreView!Exists(k)
         /\ TTL(c, k) => StoreView!TTL(k)
<1>1. ASSUME NEW answer, ReadThenRecheck(c, k, answer)
      PROVE  ret' = answer /\ UNCHANGED now /\ LiveMap' = LiveMap /\ PendingSets' = PendingSets
  <2>1. PICK x \in {[pc |-> "recheck", key |-> k], Idle} : call' = [call EXCEPT ![c] = x]
    BY <1>1, Zenon DEF ReadThenRecheck
  <2>2. x.pc # "set" /\ call[c].pc # "set"
    BY <1>1, <2>1 DEF ReadThenRecheck, Idle
  <2>3. PendingSets' = PendingSets
    BY <2>1, <2>2, PendingMove, Zenon
  <2> QED  BY <1>1, <2>3, LiveMapSame, Zenon DEF ReadThenRecheck, shardVars
<1>2. ASSUME Exists(c, k) PROVE StoreView!Exists(k)
  <2>1. PICK a : a = <<"Exists", k, Live(k)>>
    BY Zenon
  <2>2. ReadThenRecheck(c, k, a)
    BY <1>2, <2>1, Zenon DEF Exists
  <2>3. ret' = a /\ UNCHANGED now /\ LiveMap' = LiveMap /\ PendingSets' = PendingSets
    BY <1>1, <2>2, Zenon
  <2>4. Live(k) = StoreView!Present(k)
    BY PresentLive, Zenon DEF Live, Has, StoreView!Present
  <2> QED  BY <2>1, <2>3, <2>4, Zenon DEF StoreView!Exists
<1>3. ASSUME TTL(c, k) PROVE StoreView!TTL(k)
  <2>1. PICK a : a = <<"TTL", k, IF Live(k) THEN Remaining(items[k], now) ELSE 0>>
    BY Zenon
  <2>2. ReadThenRecheck(c, k, a)
    BY <1>3, <2>1, Zenon DEF TTL
  <2>3. ret' = a /\ UNCHANGED now /\ LiveMap' = LiveMap /\ PendingSets' = PendingSets
    BY <1>1, <2>2, Zenon
  <2>4. Live(k) => StoreView!Remaining(LiveMap[k], now) = Remaining(items[k], now)
    BY PresentLive, Zenon DEF Remaining, StoreView!Remaining, Never, StoreView!Never
  <2> QED  BY <2>1, <2>3, <2>4, PresentLive DEF StoreView!TTL
<1> QED  BY <1>2, <1>3, Zenon

\* An iteration of the eviction loop drops at most one entry.
LEMMA EvictView ==
  ASSUME Inv, NEW c \in Clients, EvictOne(c)
  PROVE  \E K \in OneByOne : StoreView!Evict(K)
<1>1. PICK k : k = Back(lru[ShardOf[call[c].key]])
  BY Zenon
<1>2. k \in Keys /\ removeLocked(k) /\ MaxSize > 0 /\ call[c].pc = "evict"
  BY <1>1, Victim, Zenon
<1>3. Seen(NoEntry) = NoEntry /\ UNCHANGED <<now, ret>>
  BY Zenon DEF Seen, EvictOne
<1>4. LiveMap' = [j \in Keys |-> IF j \in {k} THEN NoEntry ELSE LiveMap[j]]
  <2>1. LiveMap' = [LiveMap EXCEPT ![k] = NoEntry]
    BY <1>2, <1>3, LiveMapChange, Zenon DEF removeLocked
  <2>2. LiveMap = [j \in Keys |-> LiveMap[j]]
    BY Zenon DEF LiveMap
  <2> QED  BY <2>1, <2>2
<1>5. PICK x \in {call[c], Idle} : call' = [call EXCEPT ![c] = x]
  BY Zenon DEF EvictOne
<1>6. x.pc # "set" /\ call[c].pc # "set"
  BY <1>2, <1>5 DEF Idle
<1>7. PendingSets' = PendingSets
  BY <1>5, <1>6, PendingMove, Zenon
<1>8. {k} \in OneByOne
  BY <1>2, Zenon DEF OneByOne
<1> QED  BY <1>3, <1>4, <1>7, <1>8, Zenon DEF StoreView!Evict

\* The second half of Exists and TTL, and the sweeper, remove nothing that a
\* caller could still see.
LEMMA RecheckView ==
  ASSUME Inv, NEW c \in Clients, Recheck(c)
  PROVE  UNCHANGED StoreView!vars
<1>1. PICK k : k = call[c].key
  BY Zenon
<1>2. /\ call[c].pc = "recheck" /\ k \in Keys /\ UNCHANGED <<now, ret>>
      /\ call' = [call EXCEPT ![c] = Idle]
      /\ (Expired(k) /\ removeLocked(k)) \/ UNCHANGED shardVars
  BY <1>1 DEF Recheck, Inv, TypeOK, Call, Idle
<1>3. LiveMap' = LiveMap
  <2>1. Expired(k) => ~Live(k)
    BY Zenon DEF Expired, Live
  <2>2. UNCHANGED shardVars => UNCHANGED items
    BY Zenon DEF shardVars
  <2> QED  BY <1>2, <2>1, <2>2, LiveMapDrop, LiveMapSame, ZenonT(30)
<1>4. Idle.pc # "set" /\ call[c].pc # "set"
  BY <1>2, Zenon DEF Idle
<1>5. PendingSets' = PendingSets
  BY <1>2, <1>4, PendingMove, ZenonT(30)
<1> QED  BY <1>2, <1>3, <1>5 DEF StoreView!vars

LEMMA SweeperView ==
  ASSUME Inv, SweepClock, Sweeper
  PROVE  UNCHANGED StoreView!vars
<1>1. UNCHANGED <<call, now, ret>>
  BY Zenon DEF Sweeper, SweepStart, SweepLock, SweepUnlock, SweepNextShard, SweepRemove, SweepFire
<1>2. PendingSets' = PendingSets
  BY <1>1, Zenon DEF PendingSets
<1>3. LiveMap' = LiveMap
  <2>1. CASE UNCHANGED items
    BY <1>1, <2>1, LiveMapSame
  <2>2. ASSUME NEW k \in Keys, SweepRemove(k) PROVE LiveMap' = LiveMap
    <3>1. Has(k) /\ IsExpired(items[k], sweep.at) /\ removeLocked(k)
      BY <2>2, Zenon DEF SweepRemove, ToSweep
    <3>2. items[k] \in Entry /\ sweep.at \in Nat /\ now \in Nat
      BY <3>1, Zenon DEF Has, Inv, TypeOK, Sweep
    <3>3. ~Live(k)
      BY <3>1, <3>2 DEF Live, IsExpired, SweepClock, Entry
    <3> QED  BY <1>1, <3>1, <3>3, LiveMapDrop
  <2>3. (\E k \in Keys : SweepRemove(k)) \/ UNCHANGED items
    BY Zenon DEF Sweeper, SweepStart, SweepLock, SweepUnlock, SweepNextShard, SweepFire, shardVars
  <2> QED  BY <2>1, <2>2, <2>3
<1> QED  BY <1>1, <1>2, <1>3 DEF StoreView!vars

\* Time passes.
LEMMA TickView ==
  ASSUME Inv, Tick
  PROVE  StoreView!Tick
<1>1. now' = now + 1 /\ UNCHANGED <<items, call, ret>> /\ now \in Nat
  BY Zenon DEF Tick, shardVars, Inv, TypeOK
<1>2. PendingSets' = PendingSets
  BY <1>1, Zenon DEF PendingSets
<1>3. ASSUME NEW k \in Keys
      PROVE  LiveMap'[k] = IF StoreView!Present(k) /\ StoreView!IsExpired(LiveMap[k], now + 1)
                           THEN NoEntry ELSE LiveMap[k]
  <2>1. LiveMap[k] = IF Live(k) THEN [value |-> items[k].value, expiresAt |-> items[k].expiresAt]
                     ELSE NoEntry
    BY Zenon DEF LiveMap
  <2>2. LiveMap'[k] = IF Has(k) /\ ~IsExpired(items[k], now + 1)
                      THEN [value |-> items[k].value, expiresAt |-> items[k].expiresAt]
                      ELSE NoEntry
    BY <1>1, Zenon DEF LiveMap, Live, Has
  <2>3. CASE Live(k)
    <3>1. /\ StoreView!Present(k) /\ Has(k)
          /\ StoreView!IsExpired(LiveMap[k], now + 1) <=> IsExpired(items[k], now + 1)
      BY <2>3, PresentLive, Zenon DEF Live, IsExpired, Never, StoreView!IsExpired, StoreView!Never
    <3> QED  BY <2>1, <2>2, <2>3, <3>1
  <2>4. CASE ~Live(k)
    <3>1. ~StoreView!Present(k)
      BY <2>4, PresentLive
    <3>2. ~(Has(k) /\ ~IsExpired(items[k], now + 1))
      <4>1. Has(k) => items[k] \in Entry
        BY Zenon DEF Has, Inv, TypeOK
      <4> QED  BY <1>1, <2>4, <4>1 DEF Live, IsExpired, Entry
    <3> QED  BY <2>1, <2>2, <2>4, <3>1, <3>2
  <2> QED  BY <2>3, <2>4
<1>4. LiveMap' = [k \in Keys |->
                    IF StoreView!Present(k) /\ StoreView!IsExpired(LiveMap[k], now + 1)
                    THEN NoEntry ELSE LiveMap[k]]
  <2>1. LiveMap' = [k \in Keys |-> LiveMap'[k]]
    BY Zenon DEF LiveMap
  <2> QED  BY <1>3, <2>1, Zenon
<1> QED  BY <1>1, <1>2, <1>4 DEF StoreView!Tick

\* Every step of the store is a step of the interface or is not seen.
LEMMA StoreStepView ==
  ASSUME Inv, SweepClock, [Next]_vars
  PROVE  [StoreView!Next]_(StoreView!vars)
<1>0. StoreView!Value = Value
  BY Zenon DEF Value, StoreView!Value, Counters, StoreView!Counters
<1>1. CASE Tick
  BY <1>1, TickView, Zenon DEF StoreView!Next
<1>2. CASE Sweeper
  BY <1>2, SweeperView, Zenon
<1>3. ASSUME NEW k \in Keys, Get(k) \/ Delete(k) PROVE StoreView!Next
  BY <1>3, GetView, DeleteView DEF StoreView!Next
<1>4. ASSUME NEW c \in Clients, Continue(c) PROVE [StoreView!Next]_(StoreView!vars)
  <2>1. SetCommit(c) => StoreView!Next
    BY SetCommitView, Zenon DEF StoreView!Next
  <2>2. EvictOne(c) => StoreView!Next
    BY EvictView, Zenon DEF StoreView!Next
  <2>3. Recheck(c) => UNCHANGED StoreView!vars
    BY RecheckView, Zenon
  <2> QED  BY <1>4, <2>1, <2>2, <2>3 DEF Continue
<1>5. ASSUME NEW c \in Clients, NEW k \in Keys, Exists(c, k) \/ TTL(c, k) PROVE StoreView!Next
  BY <1>5, ReadView, Zenon DEF StoreView!Next
<1>6. ASSUME NEW c \in Clients, NEW k \in Keys, NEW v \in Value, NEW ttl \in TTLs,
             SetCall(c, k, v, ttl)
      PROVE  StoreView!Next
  BY <1>0, <1>6, SetCallView, Zenon DEF StoreView!Next
<1>7. ASSUME NEW c \in Clients, NEW k \in Keys, NEW d \in Deltas, NEW ttl \in TTLs,
             Incr(c, k, d, ttl)
      PROVE  StoreView!Next
  BY <1>7, IncrView, Zenon DEF StoreView!Next
<1>8. CASE UNCHANGED vars
  BY <1>8, Zenon DEF vars, StoreView!vars, LiveMap, Live, Has, PendingSets
<1> QED  BY <1>1, <1>2, <1>3, <1>4, <1>5, <1>6, <1>7, <1>8 DEF Next

\* MemoryStore implements the interface Store.
THEOREM StoreRefined == Spec => ImplementsStore
<1>1. Init => StoreView!Init
  BY DEF Init, StoreView!Init, LiveMap, Live, Has, PendingSets, Idle
<1>2. Init => SweepClock
  BY DEF Init, Quiet, SweepClock
<1>3. Inv /\ SweepClock /\ [Next]_vars => [StoreView!Next]_(StoreView!vars)
  BY StoreStepView, Zenon
<1> QED
  BY <1>1, <1>2, <1>3, SweepClockNext, Invariance, PTL
  DEF Spec, ImplementsStore, StoreView!Spec

-----------------------------------------------------------------------------
\* The tag index: whatever the store holds, calls and callbacks change it by
\* Add and Remove alone

Op ==
  {NoOp}
    \cup [pc : {"set", "add"}, key : Keys, tags : SUBSET Tags]
    \cup [pc : {"delete"}, todo : SUBSET Keys]
    \cup [pc : {"untag"}, key : Keys, todo : SUBSET Keys]

\* Add and Remove are called with keys and tags only.
IndexInv ==
  /\ keyToTags \in [Keys -> SUBSET Tags]
  /\ tagToKeys \in [Tags -> SUBSET Keys]
  /\ op \in [Clients -> Op]
  /\ TagIndexConsistent

\* Add takes the key out of the sets of its old tags and into those of the
\* new ones.
LEMMA AddKeepsIndex ==
  ASSUME IndexInv, NEW k \in Keys, NEW tags \in SUBSET Tags, Add(k, tags), op' \in [Clients -> Op]
  PROVE  IndexInv'
<1>1. keyToTags' \in [Keys -> SUBSET Tags] /\ tagToKeys' \in [Tags -> SUBSET Keys]
  BY Zenon DEF IndexInv, Add
<1>2. TagIndexConsistent'
  BY Zenon DEF IndexInv, Add, TagIndexConsistent
<1> QED BY <1>1, <1>2, Zenon DEF IndexInv

LEMMA RemoveKeepsIndex ==
  ASSUME IndexInv, NEW k \in Keys, Remove(k), op' \in [Clients -> Op]
  PROVE  IndexInv'
<1>1. keyToTags' \in [Keys -> SUBSET Tags] /\ tagToKeys' \in [Tags -> SUBSET Keys]
  BY Zenon DEF IndexInv, Remove
<1>2. TagIndexConsistent'
  BY Zenon DEF IndexInv, Remove, TagIndexConsistent
<1> QED BY <1>1, <1>2 DEF IndexInv

\* Steps that leave the index alone.
LEMMA OtherKeepsIndex ==
  ASSUME IndexInv, UNCHANGED index, op' \in [Clients -> Op]
  PROVE  IndexInv'
  BY Zenon DEF IndexInv, TagIndexConsistent, index

LEMMA AfterStoreType ==
  ASSUME IndexInv, NEW c \in Clients, AfterStore(c)
  PROVE  op' \in [Clients -> Op]
<1>1. CASE op' = op
  BY <1>1, Zenon DEF IndexInv
<1>2. CASE op[c].pc = "set" /\ op' = [op EXCEPT ![c] = IF @.tags = {} THEN NoOp
                                                      ELSE [@ EXCEPT !.pc = "add"]]
  <2>1. op[c] \in [pc : {"set", "add"}, key : Keys, tags : SUBSET Tags]
    BY <1>2 DEF IndexInv, Op, NoOp
  <2>2. [op[c] EXCEPT !.pc = "add"] \in [pc : {"set", "add"}, key : Keys, tags : SUBSET Tags]
    BY <2>1, Zenon
  <2> QED BY <1>2, <2>2, Zenon DEF IndexInv, Op
<1> QED BY <1>1, <1>2, Zenon DEF AfterStore

LEMMA IndexInvNext == IndexInv /\ [TagNext]_tagVars => IndexInv'
<1> SUFFICES ASSUME IndexInv, [TagNext]_tagVars PROVE IndexInv'
  BY Zenon
<1>0. op \in [Clients -> Op]
  BY Zenon DEF IndexInv
<1>1. CASE Background
  BY <1>0, <1>1, OtherKeepsIndex DEF Background
<1>2. ASSUME NEW k \in Keys, EvictCallback(k) PROVE IndexInv'
  BY <1>0, <1>2, RemoveKeepsIndex, Zenon DEF EvictCallback
<1>3. ASSUME NEW k \in Keys, ExpireCallback(k) PROVE IndexInv'
  BY <1>0, <1>3, RemoveKeepsIndex, Zenon DEF ExpireCallback
<1>4. ASSUME NEW c \in Clients, StoreStep(c) \/ EvictStep(c) PROVE IndexInv'
  <2>1. AfterStore(c) /\ UNCHANGED index
    BY <1>4, Zenon DEF StoreStep, EvictStep
  <2> QED BY <2>1, AfterStoreType, OtherKeepsIndex, Zenon
<1>5. ASSUME NEW c \in Clients, AddTags(c) PROVE IndexInv'
  <2>1. op[c] \in [pc : {"set", "add"}, key : Keys, tags : SUBSET Tags]
    BY <1>0, <1>5 DEF AddTags, Op, NoOp
  <2>2. op' \in [Clients -> Op]
    BY <1>0, <1>5, Zenon DEF AddTags, Op
  <2>3. op[c].key \in Keys /\ op[c].tags \in SUBSET Tags /\ Add(op[c].key, op[c].tags)
    BY <1>5, <2>1, Zenon DEF AddTags
  <2> QED BY <2>2, <2>3, AddKeepsIndex, ZenonT(30)
<1>6. ASSUME NEW c \in Clients, DeleteStep(c) PROVE IndexInv'
  <2>1. op[c] \in [pc : {"delete"}, todo : SUBSET Keys]
    BY <1>0, <1>6 DEF DeleteStep, Op, NoOp
  <2>2. PICK k \in op[c].todo :
          op' = [op EXCEPT ![c] = [pc |-> "untag", key |-> k, todo |-> @.todo \ {k}]]
    BY <1>6, Zenon DEF DeleteStep
  <2>3. [pc |-> "untag", key |-> k, todo |-> op[c].todo \ {k}] \in Op
    BY <2>1, <2>2, Zenon DEF Op
  <2>4. op' \in [Clients -> Op]
    BY <1>0, <2>2, <2>3, Zenon
  <2> QED BY <1>6, <2>4, OtherKeepsIndex, ZenonT(30) DEF DeleteStep
<1>7. ASSUME NEW c \in Clients, Untag(c) PROVE IndexInv'
  <2>1. op[c] \in [pc : {"untag"}, key : Keys, todo : SUBSET Keys]
    BY <1>0, <1>7 DEF Untag, Op, NoOp
  <2>2. NoOp \in Op /\ [pc |-> "delete", todo |-> op[c].todo] \in Op
    BY <2>1, Zenon DEF Op
  <2>3. op' \in [Clients -> Op]
    BY <1>0, <1>7, <2>2, Zenon DEF Untag
  <2>4. op[c].key \in Keys /\ Remove(op[c].key)
    BY <1>7, <2>1, Zenon DEF Untag
  <2> QED BY <2>3, <2>4, RemoveKeepsIndex
<1>8. ASSUME NEW c \in Clients, NEW t \in Tags, InvalidateTag(c, t) PROVE IndexInv'
  <2>1. [pc |-> "delete", todo |-> tagToKeys[t]] \in Op
    BY Zenon DEF IndexInv, Op
  <2>2. op' \in [Clients -> Op]
    BY <1>0, <1>8, <2>1 DEF InvalidateTag
  <2> QED BY <1>8, <2>2, OtherKeepsIndex DEF InvalidateTag
<1>9. ASSUME NEW c \in Clients, NEW k \in Keys, DeleteCall(c, k) PROVE IndexInv'
  <2>1. [pc |-> "delete", todo |-> {k}] \in Op
    BY Zenon DEF Op
  <2>2. op' \in [Clients -> Op]
    BY <1>0, <1>9, <2>1 DEF DeleteCall
  <2> QED BY <1>9, <2>2, OtherKeepsIndex DEF DeleteCall
<1>10. ASSUME NEW c \in Clients, NEW k \in Keys, PlainCall(c, k) PROVE IndexInv'
  BY <1>0, <1>10, OtherKeepsIndex DEF PlainCall
<1>11. ASSUME NEW c \in Clients, NEW k \in Keys, NEW v \in Value, NEW ttl \in TTLs,
              NEW tags \in SUBSET Tags, SetWithTags(c, k, v, ttl, tags)
       PROVE  IndexInv'
  <2>1. [pc |-> "set", key |-> k, tags |-> tags] \in Op
    BY Zenon DEF Op
  <2>2. op' \in [Clients -> Op]
    BY <1>0, <1>11, <2>1, Zenon DEF SetWithTags
  <2> QED BY <1>11, <2>2, OtherKeepsIndex, ZenonT(30) DEF SetWithTags
<1>12. CASE UNCHANGED tagVars
  BY <1>0, <1>12, OtherKeepsIndex, Zenon DEF tagVars
<1> QED
  BY <1>1, <1>2, <1>3, <1>4, <1>5, <1>6, <1>7, <1>8, <1>9, <1>10, <1>11, <1>12, ZenonT(30)
    DEF TagNext

\* keyToTags and tagToKeys are one relation at all times, with any number of
\* callers, late OnEvict callbacks and sweeps (tags.go, Add and Remove).
THEOREM IndexCorrect == TagSpec => []TagIndexConsistent
<1>1. TagInit => IndexInv
  BY Zenon DEF TagInit, IndexInv, Op, TagIndexConsistent
<1>2. IndexInv => TagIndexConsistent
  BY Zenon DEF IndexInv
<1> QED BY <1>1, <1>2, IndexInvNext, PTL DEF TagSpec

-----------------------------------------------------------------------------
\* The composition

\* Whatever the callers of Cache and the callbacks do, the store takes steps
\* of its own specification.
LEMMA TagStepOfStore ==
  ASSUME IndexInv, [TagNext]_tagVars
  PROVE  [Next]_vars
<1>1. CASE Background
  BY <1>1, Zenon DEF Background, Next, Sweeper
<1>2. ASSUME NEW k \in Keys, EvictCallback(k) PROVE [Next]_vars
  BY <1>2, Zenon DEF EvictCallback
<1>3. ASSUME NEW k \in Keys, ExpireCallback(k) PROVE [Next]_vars
  BY <1>3, Zenon DEF ExpireCallback, Next, Sweeper
<1>4. ASSUME NEW c \in Clients, StoreStep(c) \/ EvictStep(c) PROVE [Next]_vars
  BY <1>4, Zenon DEF StoreStep, EvictStep, Next, Continue
<1>5. ASSUME NEW c \in Clients, AddTags(c) \/ Untag(c) PROVE [Next]_vars
  BY <1>5, Zenon DEF AddTags, Untag
<1>6. ASSUME NEW c \in Clients, DeleteStep(c) PROVE [Next]_vars
  <2>1. op[c].todo \subseteq Keys
    BY <1>6 DEF DeleteStep, IndexInv, Op, NoOp
  <2>2. PICK k \in Keys : Delete(k)
    BY <1>6, <2>1, Zenon DEF DeleteStep
  <2> QED  BY <2>2, Zenon DEF Next
<1>7. ASSUME NEW c \in Clients, NEW t \in Tags, InvalidateTag(c, t) PROVE [Next]_vars
  BY <1>7, Zenon DEF InvalidateTag
<1>8. ASSUME NEW c \in Clients, NEW k \in Keys, DeleteCall(c, k) PROVE [Next]_vars
  BY <1>8, Zenon DEF DeleteCall
<1>9. ASSUME NEW c \in Clients, NEW k \in Keys, PlainCall(c, k) PROVE [Next]_vars
  BY <1>9, Zenon DEF PlainCall, Next
<1>10. ASSUME NEW c \in Clients, NEW k \in Keys, NEW v \in Value, NEW ttl \in TTLs,
              NEW tags \in SUBSET Tags, SetWithTags(c, k, v, ttl, tags)
       PROVE  [Next]_vars
  BY <1>10, Zenon DEF SetWithTags, Next
<1>11. CASE UNCHANGED tagVars
  BY <1>11, Zenon DEF tagVars
<1> QED
  BY <1>1, <1>2, <1>3, <1>4, <1>5, <1>6, <1>7, <1>8, <1>9, <1>10, <1>11 DEF TagNext

\* Each behaviour of the composed cache is one of its store, so everything
\* proved of the store holds in the cache.
THEOREM StoreInCache == TagSpec => Spec
<1>1. TagInit => IndexInv /\ Init
  BY Zenon DEF TagInit, IndexInv, Op, TagIndexConsistent
<1>2. IndexInv /\ [TagNext]_tagVars => [Next]_vars
  BY TagStepOfStore, Zenon
<1> QED  BY <1>1, <1>2, IndexInvNext, PTL DEF TagSpec, Spec

-----------------------------------------------------------------------------
\* Tags follow keys

\* Something under way will remove the tags of k: the OnEvict goroutine
\* started for it, the OnExpire that the sweeper has yet to call, or the Delete
\* that has removed it from the store.
Due(k) ==
  \/ callbacks[k] > 0
  \/ k \in sweep.fire
  \/ \E c \in Clients : op[c].pc = "untag" /\ op[c].key = k

\* That is so for every key that has tags and is not in the store, but for
\* those that went unnoticed.
CleanupInv ==
  /\ callbacks \in [Keys -> Nat]
  /\ sweep.pc \in {"idle", "lock"} => sweep.fire = {}
  /\ \A k \in Keys : keyToTags[k] # {} /\ ~Has(k) => k \in unnoticed \/ Due(k)

\* What is due for a key that still has tags stays due.
KeepsDue(k) ==
  /\ callbacks[k] > 0 => callbacks'[k] > 0
  /\ k \in sweep.fire => k \in sweep'.fire
  /\ \A c \in Clients : op[c].pc = "untag" /\ op[c].key = k
       => op'[c].pc = "untag" /\ op'[c].key = k

\* Steps of the store's calls: an entry they drop goes unnoticed.
LEMMA DropStep ==
  ASSUME Inv, IndexInv, CleanupInv, NEW c \in Clients, DropUnnoticed,
         UNCHANGED <<index, callbacks, sweep>>, op' = op \/ AfterStore(c)
  PROVE  CleanupInv'
<1>1. keyToTags' = keyToTags /\ callbacks' = callbacks /\ sweep' = sweep
  BY Zenon DEF index
<1>2. ASSUME NEW d \in Clients, op[d].pc = "untag" PROVE op'[d] = op[d]
  BY <1>2, Zenon DEF AfterStore, IndexInv
<1>3. \A k \in Keys : KeepsDue(k)
  BY <1>1, <1>2, Zenon DEF KeepsDue
<1>4. \A k \in Keys : ~Has(k)' /\ (Has(k) \/ k \in unnoticed) => k \in unnoticed'
  BY Zenon DEF DropUnnoticed
<1>5. \A k \in Keys : Due(k) => Due(k)'
  BY <1>3, Zenon DEF Due, KeepsDue
<1> QED  BY <1>1, <1>4, <1>5, Zenon DEF CleanupInv

\* Steps that remove nothing from the store, and no tags.
LEMMA IdleStep ==
  ASSUME CleanupInv, UNCHANGED <<index, callbacks, items, unnoticed>>,
         sweep'.pc \in {"idle", "lock"} => sweep'.fire = {},
         \A k \in Keys : KeepsDue(k)
  PROVE  CleanupInv'
<1>1. keyToTags' = keyToTags /\ callbacks' = callbacks
  BY Zenon DEF index
<1>2. \A k : Has(k)' <=> Has(k)
  BY Zenon DEF Has
<1>3. \A k \in Keys : Due(k) => Due(k)'
  BY Zenon DEF Due, KeepsDue
<1> QED  BY <1>1, <1>2, <1>3, ZenonT(30) DEF CleanupInv

\* A step that drops the entry of k and makes the cleanup of k due.
LEMMA DropDueStep ==
  ASSUME Inv, CleanupInv, NEW k, items' = [items EXCEPT ![k] = NoEntry] \/ UNCHANGED items,
         UNCHANGED <<index, unnoticed>>, callbacks' \in [Keys -> Nat],
         sweep'.pc \in {"idle", "lock"} => sweep'.fire = {},
         \A j \in Keys : KeepsDue(j), k \in Keys => Due(k)'
  PROVE  CleanupInv'
<1>1. keyToTags' = keyToTags
  BY Zenon DEF index
<1>2. items \in [Keys -> Entry \cup {NoEntry}]
  BY Zenon DEF Inv, TypeOK
<1>3. \A j \in Keys : j # k => (Has(j)' <=> Has(j))
  BY <1>2, Zenon DEF Has
<1>4. \A j \in Keys : Due(j) => Due(j)'
  BY Zenon DEF Due, KeepsDue
<1> QED  BY <1>1, <1>3, <1>4, ZenonT(30) DEF CleanupInv

\* A step that removes the tags of k from the index, and the cleanup that did it.
LEMMA UntagStep ==
  ASSUME IndexInv, CleanupInv, NEW k \in Keys, Remove(k), UNCHANGED <<items, unnoticed>>,
         callbacks' \in [Keys -> Nat],
         sweep'.pc \in {"idle", "lock"} => sweep'.fire = {},
         \A j \in Keys \ {k} : KeepsDue(j)
  PROVE  CleanupInv'
<1>1. keyToTags'[k] = {} /\ \A j \in Keys \ {k} : keyToTags'[j] = keyToTags[j]
  BY Zenon DEF Remove, IndexInv
<1>2. \A j : Has(j)' <=> Has(j)
  BY Zenon DEF Has
<1>3. \A j \in Keys \ {k} : Due(j) => Due(j)'
  BY Zenon DEF Due, KeepsDue
<1> QED  BY <1>1, <1>2, <1>3, ZenonT(30) DEF CleanupInv

LEMMA CleanupNext == Inv /\ IndexInv /\ CleanupInv /\ [TagNext]_tagVars => CleanupInv'
<1> SUFFICES ASSUME Inv, IndexInv, CleanupInv, [TagNext]_tagVars PROVE CleanupInv'
  BY Zenon
<1>0. /\ op \in [Clients -> Op] /\ sweep \in Sweep /\ callbacks \in [Keys -> Nat]
      /\ sweep.pc \in {"idle", "lock"} => sweep.fire = {}
  BY Zenon DEF IndexInv, Inv, TypeOK, CleanupInv
<1>1. CASE Background
  <2>1. UNCHANGED <<index, op, callbacks, unnoticed>>
    BY <1>1, ZenonT(30) DEF Background
  <2>2. CASE \E k \in Keys : SweepRemove(k)
    <3>1. PICK k \in Keys : SweepRemove(k)
      BY <2>2, Zenon
    <3>2. /\ sweep'.pc = "scan" /\ sweep'.fire = sweep.fire \cup {k}
          /\ items' = [items EXCEPT ![k] = NoEntry]
      BY <1>0, <3>1, Zenon DEF SweepRemove, removeLocked, Sweep
    <3>3. \A j \in Keys : KeepsDue(j)
      BY <2>1, <3>2, Zenon DEF KeepsDue
    <3>4. Due(k)'
      BY <3>2, Zenon DEF Due
    <3> QED  BY <1>0, <2>1, <3>2, <3>3, <3>4, DropDueStep, ZenonT(30)
  <2>3. CASE Tick \/ SweepStart \/ SweepLock \/ SweepUnlock \/ SweepNextShard
    <3>1. UNCHANGED items
      BY <2>3, Zenon DEF Tick, SweepStart, SweepLock, SweepUnlock, SweepNextShard, shardVars
    <3>2. /\ sweep'.fire = sweep.fire
          /\ sweep'.pc \in {"idle", "lock"} => sweep'.fire = {}
      <4>1. Tick => UNCHANGED sweep
        BY Zenon DEF Tick
      <4>2. SweepStart => sweep.fire = {} /\ sweep'.fire = {}
        BY <1>0, Zenon DEF SweepStart, Quiet
      <4>3. SweepLock \/ SweepUnlock => sweep'.fire = sweep.fire /\ sweep'.pc \in {"scan", "fire"}
        BY <1>0, Zenon DEF SweepLock, SweepUnlock, Sweep
      <4>4. SweepNextShard => sweep.fire = {} /\ sweep'.fire = {}
        BY <1>0 DEF SweepNextShard, Quiet, Sweep
      <4> QED  BY <1>0, <2>3, <4>1, <4>2, <4>3, <4>4
    <3>3. \A k \in Keys : KeepsDue(k)
      BY <2>1, <3>2, Zenon DEF KeepsDue
    <3> QED  BY <2>1, <3>1, <3>2, <3>3, IdleStep
  <2> QED  BY <1>1, <2>2, <2>3, Zenon DEF Background
<1>2. ASSUME NEW k \in Keys, EvictCallback(k) PROVE CleanupInv'
  <2>1. /\ Remove(k) /\ UNCHANGED <<items, sweep, op, unnoticed>> /\ callbacks[k] > 0
        /\ callbacks' = [callbacks EXCEPT ![k] = @ - 1]
    BY <1>2, Zenon DEF EvictCallback, vars
  <2>2. callbacks' \in [Keys -> Nat] /\ \A j \in Keys \ {k} : callbacks'[j] = callbacks[j]
    BY <1>0, <2>1
  <2>3. \A j \in Keys \ {k} : KeepsDue(j)
    BY <2>1, <2>2, Zenon DEF KeepsDue
  <2> QED  BY <1>0, <2>1, <2>2, <2>3, UntagStep, Zenon
<1>3. ASSUME NEW k \in Keys, ExpireCallback(k) PROVE CleanupInv'
  <2>1. /\ Remove(k) /\ UNCHANGED <<items, op, callbacks, unnoticed>>
        /\ sweep'.pc = "fire" /\ sweep'.fire = sweep.fire \ {k}
    BY <1>0, <1>3, Zenon DEF ExpireCallback, SweepFire, shardVars, Sweep
  <2>2. \A j \in Keys \ {k} : KeepsDue(j)
    BY <2>1, Zenon DEF KeepsDue
  <2> QED  BY <1>0, <2>1, <2>2, UntagStep, ZenonT(30)
<1>4. ASSUME NEW c \in Clients, StoreStep(c) PROVE CleanupInv'
  <2>1. DropUnnoticed /\ UNCHANGED <<index, callbacks, sweep>> /\ AfterStore(c)
    BY <1>4 DEF StoreStep, SetCommit, Recheck
  <2> QED  BY <2>1, DropStep
<1>5. ASSUME NEW c \in Clients, EvictStep(c) PROVE CleanupInv'
  <2>1. PICK k : k = Back(lru[ShardOf[call[c].key]])
    BY Zenon
  <2>2. /\ items' = [items EXCEPT ![k] = NoEntry]
        /\ callbacks' = [callbacks EXCEPT ![k] = @ + 1]
        /\ AfterStore(c) /\ UNCHANGED <<index, sweep, unnoticed>>
    BY <1>5, <2>1, Zenon DEF EvictStep, EvictOne, removeLocked
  <2>3. /\ callbacks' \in [Keys -> Nat] /\ callbacks'[k] > 0
        /\ \A j \in Keys : callbacks[j] > 0 => callbacks'[j] > 0
    <3>1. k \in Keys
      BY <1>5, <2>1, Victim, Zenon DEF EvictStep
    <3> QED  BY <1>0, <2>2, <3>1
  <2>4. ASSUME NEW d \in Clients, op[d].pc = "untag" PROVE op'[d] = op[d]
    BY <1>0, <2>2, <2>4 DEF AfterStore
  <2>5. \A j \in Keys : KeepsDue(j)
    BY <2>2, <2>3, <2>4 DEF KeepsDue
  <2>6. Due(k)'
    BY <2>3, Zenon DEF Due
  <2> QED  BY <1>0, <2>2, <2>3, <2>5, <2>6, DropDueStep, ZenonT(30)
<1>6. ASSUME NEW c \in Clients, AddTags(c) PROVE CleanupInv'
  <2>1. PICK k : k = op[c].key
    BY Zenon
  <2>2. /\ \A j \in Keys : j # k => keyToTags'[j] = keyToTags[j]
        /\ UNCHANGED <<items, sweep, callbacks>>
        /\ unnoticed \subseteq unnoticed' /\ (~Has(k) => k \in unnoticed')
    BY <1>6, <2>1, Zenon DEF AddTags, Add, IndexInv, vars
  <2>3. \A d \in Clients : op[d].pc = "untag" => op'[d] = op[d]
    BY <1>0, <1>6, Zenon DEF AddTags
  <2>4. \A j \in Keys : Due(j) => Due(j)'
    BY <2>2, <2>3, Zenon DEF Due
  <2>5. \A j : Has(j)' <=> Has(j)
    BY <2>2, Zenon DEF Has
  <2> QED  BY <2>2, <2>4, <2>5 DEF CleanupInv
<1>7. ASSUME NEW c \in Clients, DeleteStep(c) PROVE CleanupInv'
  <2>1. PICK k \in op[c].todo :
          /\ Delete(k)
          /\ op' = [op EXCEPT ![c] = [pc |-> "untag", key |-> k, todo |-> @.todo \ {k}]]
    BY <1>7, Zenon DEF DeleteStep
  <2>2. /\ items' = [items EXCEPT ![k] = NoEntry] \/ UNCHANGED items
        /\ UNCHANGED <<sweep, index, callbacks, unnoticed>>
    BY <1>7, <2>1, ZenonT(30) DEF Delete, removeLocked, shardVars, DeleteStep
  <2>3. op'[c].pc = "untag" /\ op'[c].key = k /\ \A d \in Clients \ {c} : op'[d] = op[d]
    BY <1>0, <2>1, Zenon
  <2>4. op[c].pc = "delete"
    BY <1>7, Zenon DEF DeleteStep
  <2>5. \A j \in Keys : KeepsDue(j)
    BY <2>2, <2>3, <2>4, ZenonT(30) DEF KeepsDue
  <2>6. Due(k)'
    BY <2>3, ZenonT(30) DEF Due
  <2> QED  BY <1>0, <2>2, <2>5, <2>6, DropDueStep
<1>8. ASSUME NEW c \in Clients, Untag(c) PROVE CleanupInv'
  <2>1. PICK k : k = op[c].key
    OBVIOUS
  <2>2. k \in Keys
    BY <1>0, <1>8, <2>1 DEF Untag, Op, NoOp
  <2>3. Remove(k) /\ UNCHANGED <<items, sweep, callbacks, unnoticed>>
    BY <1>8, <2>1, Zenon DEF Untag, vars
  <2>4. \A d \in Clients \ {c} : op'[d] = op[d]
    BY <1>0, <1>8, Zenon DEF Untag
  <2>5. \A j \in Keys \ {k} : KeepsDue(j)
    BY <2>1, <2>3, <2>4, ZenonT(30) DEF KeepsDue
  <2> QED  BY <1>0, <2>2, <2>3, <2>5, UntagStep
<1>9. ASSUME NEW c \in Clients, op[c] = NoOp, NEW x, op' = [op EXCEPT ![c] = x],
             UNCHANGED <<items, sweep, index, callbacks, unnoticed>>
      PROVE  CleanupInv'
  <2>1. \A d \in Clients : op[d].pc = "untag" => op'[d] = op[d]
    BY <1>0, <1>9 DEF NoOp
  <2>2. \A j \in Keys : KeepsDue(j)
    BY <1>9, <2>1, ZenonT(30) DEF KeepsDue
  <2> QED  BY <1>0, <1>9, <2>2, IdleStep
<1>10. ASSUME NEW c \in Clients, NEW t \in Tags, InvalidateTag(c, t) PROVE CleanupInv'
  BY <1>9, <1>10, Zenon DEF InvalidateTag, Free, vars
<1>11. ASSUME NEW c \in Clients, NEW k \in Keys, DeleteCall(c, k) PROVE CleanupInv'
  BY <1>9, <1>11, ZenonT(30) DEF DeleteCall, Free, vars
<1>12. ASSUME NEW c \in Clients, NEW k \in Keys, PlainCall(c, k) PROVE CleanupInv'
  <2>1. DropUnnoticed /\ UNCHANGED <<index, callbacks, op>>
    BY <1>12 DEF PlainCall
  <2>2. UNCHANGED sweep
    BY <1>12, ZenonT(30) DEF PlainCall, Get, Exists, TTL, ReadThenRecheck, Incr
  <2> QED  BY <2>1, <2>2, DropStep
<1>13. ASSUME NEW c \in Clients, NEW k \in Keys, NEW v \in Value, NEW ttl \in TTLs,
              NEW tags \in SUBSET Tags, SetWithTags(c, k, v, ttl, tags)
       PROVE  CleanupInv'
  BY <1>9, <1>13, Zenon DEF SetWithTags, SetCall, Free, shardVars
<1>14. CASE UNCHANGED tagVars
  <2>1. UNCHANGED <<items, sweep, op, index, callbacks, unnoticed>>
    BY <1>14, Zenon DEF tagVars, vars
  <2>2. \A j \in Keys : KeepsDue(j)
    BY <2>1, Zenon DEF KeepsDue
  <2> QED  BY <1>0, <2>1, <2>2, IdleStep, ZenonT(30)
<1> QED
  BY <1>1, <1>2, <1>3, <1>4, <1>5, <1>6, <1>7, <1>8, <1>10, <1>11, <1>12, <1>13, <1>14
  DEF TagNext

\* When nothing is under way a key with tags is in the store, unless it went
\* by a read or an Incr that found it expired or was gone before its tags came.
THEOREM TagsCorrect == TagSpec => []TagsFollowKeys
<1>1. TagInit => IndexInv /\ CleanupInv
  <2>1. TagInit => IndexInv
    BY ZenonT(30) DEF TagInit, IndexInv, Op, TagIndexConsistent
  <2>2. TagInit => callbacks \in [Keys -> Nat] /\ sweep.fire = {}
    BY DEF TagInit, Init, Quiet
  <2>3. TagInit => \A k \in Keys : keyToTags[k] = {}
    BY Zenon DEF TagInit
  <2> QED  BY <2>1, <2>2, <2>3, Zenon DEF CleanupInv
<1>2. CleanupInv => TagsFollowKeys
  BY DEF CleanupInv, Due, TagsFollowKeys, AtRest, Free, NoOp
<1> QED
  BY <1>1, <1>2, IndexInvNext, CleanupNext, StoreInCache, Invariance, PTL DEF TagSpec
=============================================================================
