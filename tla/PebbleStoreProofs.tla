------------------------- MODULE PebbleStoreProofs -------------------------
(***************************************************************************)
(* Proofs about the disk store, for any keys, goroutines, calls, TTLs and  *)
(* deltas and whatever bounds the clock, the sweeps and the crashes.       *)
(*                                                                         *)
(* Nothing locks the database between the accesses of a call, so what is   *)
(* promised depends on whether calls overlap.  The inductive invariant     *)
(* says of calls that do not overlap that only one actor is inside a call  *)
(* or a sweep, and that what it has read is still so when it writes.       *)
(***************************************************************************)
EXTENDS PebbleStore, FiniteSetTheorems, TLAPS

\* More than the default of 5 seconds, so that a slow machine does not matter.
USE SMTT(30), ZenonT(30)

Databases == [Keys -> Item \cup {NoEntry}]

Call ==
  {Idle}
    \cup [pc : {"drop", "delete"}, key : Keys]
    \cup [pc : {"encode"}, key : Keys, value : Value, ttl : TTLs, exists : BOOLEAN]
    \cup [pc : {"write", "incrWrite"}, key : Keys, raw : Item, exists : BOOLEAN]
    \cup [pc : {"incrProbe"}, key : Keys, raw : Item]

\* Keys may be infinite; what is stored is finite, and can be counted.
Typed ==
  /\ db \in Databases /\ IsFiniteSet(Present(db))
  /\ disk \in Databases /\ IsFiniteSet(Present(disk))
  /\ count \in Int
  /\ call \in [Clients -> Call]
  /\ sweep \in [pc : {"idle", "scan", "commit"}, at : Nat, keys : SUBSET Keys]
  /\ IsFiniteSet(sweep.keys)
  /\ now \in Nat \ {0}
  /\ serial \in BOOLEAN

\* Calls and sweeps that do not overlap: one actor at most is at work.
Alone ==
  serial =>
    /\ \A c, e \in Clients : call[c] # Idle /\ call[e] # Idle => c = e
    /\ sweep.pc # "idle" => \A c \in Clients : call[c] = Idle

\* A read may delete the entry of k: it has expired, or it is at its deadline
\* and TTL has just said so.
Due(k) == Has(k) /\ (Expired(k) \/ (db[k].expiresAt = now /\ ret = <<"TTL", k, 0>>))

\* The raw bytes that Incr computes from what is stored.
Counted(k, d, ttl) ==
  encode(Wrap((IF Live(k) THEN db[k].value ELSE 0) + d),
         IF Live(k) THEN KeptTTL(db[k]) ELSE ttl)

\* What a goroutine has read is still so.
Current(r) ==
  /\ r.pc = "drop" => Due(r.key)
  /\ r.pc = "delete" => Has(r.key)
  /\ r.pc \in {"encode", "write", "incrWrite"} => r.exists = Has(r.key)
  /\ r.pc \in {"incrProbe", "incrWrite"} =>
       /\ Live(r.key) => db[r.key].value \in Counters
       /\ \E d \in Deltas, ttl \in TTLs : r.raw = Counted(r.key, d, ttl)

SweepCurrent ==
  /\ sweep.pc # "idle" => sweep.at <= now
  /\ sweep.pc = "commit" => \A k \in sweep.keys : Expired(k)

Inv ==
  /\ Typed
  /\ Alone
  /\ serial => SweepCurrent /\ \A c \in Clients : Current(call[c])

-----------------------------------------------------------------------------
\* The operators the model is built from

LEMMA WrapType == \A n \in Int : Wrap(n) \in Counters
BY IntLimitAssumption DEF Wrap, Counters

LEMMA EncodeType ==
  ASSUME now \in Nat, NEW v \in Value, NEW ttl \in Int
  PROVE  encode(v, ttl) \in Item
BY DEF encode, Item, Deadline, Never

LEMMA CountedType ==
  ASSUME Typed, NEW k \in Keys, NEW d \in Deltas, NEW ttl \in TTLs,
         Live(k) => db[k].value \in Counters
  PROVE  Counted(k, d, ttl) \in Item
<1> DEFINE old == IF Live(k) THEN db[k].value ELSE 0
           kept == IF Live(k) THEN KeptTTL(db[k]) ELSE ttl
<1>1. Live(k) => db[k] \in Item
  BY Zenon DEF Typed, Databases, Live, Has
<1>2. now \in Nat /\ d \in Int /\ ttl \in Int
  BY PebbleArgumentsAssumption, Zenon DEF Typed
<1>3. old \in Int
  BY DEF Counters
<1>4. kept \in Int
  BY <1>1, <1>2 DEF KeptTTL, Item
<1> HIDE DEF old, kept
<1>5. Wrap(old + d) \in Value
  BY <1>2, <1>3, WrapType DEF Value
<1>6. encode(Wrap(old + d), kept) \in Item
  BY <1>2, <1>4, <1>5, EncodeType, Zenon
<1> QED  BY <1>6, Zenon DEF Counted, old, kept

LEMMA ItemNotNil == \A e \in Item : e # NoEntry
BY NoEntryAssumption, Zenon

\* The records of calls under way, by where the call is.
LEMMA CallShape ==
  ASSUME Typed, NEW c \in Clients
  PROVE  /\ call[c] = Idle <=> call[c].pc = "idle"
         /\ call[c] # Idle => call[c].key \in Keys
         /\ call[c].pc = "encode" =>
              call[c].value \in Value /\ call[c].ttl \in TTLs /\ call[c].exists \in BOOLEAN
         /\ call[c].pc \in {"write", "incrWrite"} => call[c].exists \in BOOLEAN
         /\ call[c].pc \in {"write", "incrProbe", "incrWrite"} => call[c].raw \in Item
<1>1. call[c] \in Call
  BY Zenon DEF Typed
<1> QED  BY <1>1 DEF Call, Idle

\* One entry of the database is written or deleted.
LEMMA OneEntry ==
  ASSUME Typed, NEW k \in Keys, NEW e \in Item \cup {NoEntry},
         db' = [db EXCEPT ![k] = e]
  PROVE  /\ db' \in Databases
         /\ \A j \in Keys : db'[j] = IF j = k THEN e ELSE db[j]
         /\ Present(db') = IF e = NoEntry THEN Present(db) \ {k} ELSE Present(db) \cup {k}
         /\ IsFiniteSet(Present(db'))
<1>1. db \in Databases /\ IsFiniteSet(Present(db))
  BY Zenon DEF Typed
<1>2. db' \in Databases /\ \A j \in Keys : db'[j] = IF j = k THEN e ELSE db[j]
  BY <1>1, Zenon DEF Databases
<1>3. Present(db') = IF e = NoEntry THEN Present(db) \ {k} ELSE Present(db) \cup {k}
  BY <1>2, Zenon DEF Present
<1>4. IsFiniteSet(Present(db) \ {k}) /\ IsFiniteSet(Present(db) \cup {k})
  BY <1>1, FS_AddElement, FS_RemoveElement, Zenon
<1> QED  BY <1>2, <1>3, <1>4, Zenon

\* The batch of the sweeper.
LEMMA ManyEntries ==
  ASSUME Typed, NEW K \in SUBSET Keys,
         db' = [k \in Keys |-> IF k \in K THEN NoEntry ELSE db[k]]
  PROVE  /\ db' \in Databases
         /\ Present(db') = Present(db) \ K
         /\ IsFiniteSet(Present(db'))
<1>1. db \in Databases /\ IsFiniteSet(Present(db))
  BY Zenon DEF Typed
<1>2. db' \in Databases
  BY <1>1, Zenon DEF Databases
<1>3. Present(db') = Present(db) \ K
  BY Zenon DEF Present
<1> QED  BY <1>1, <1>2, <1>3, FS_Subset, Zenon

-----------------------------------------------------------------------------
\* The invariant

LEMMA InitInv == Init => Inv
<1> SUFFICES ASSUME Init PROVE Inv
  BY Zenon
<1>1. Present(db) = {} /\ Present(disk) = {}
  BY Zenon DEF Init, Present
<1>2. db \in Databases /\ disk \in Databases /\ call \in [Clients -> Call]
  BY Zenon DEF Init, Databases, Call
<1>3. Typed
  BY <1>1, <1>2, FS_EmptySet DEF Init, Typed, Quiet
<1>4. \A c \in Clients : call[c] = Idle
  BY Zenon DEF Init
<1>5. Alone /\ SweepCurrent
  BY <1>4, Zenon DEF Init, Alone, SweepCurrent, Quiet
<1>6. \A c \in Clients : Current(call[c])
  BY <1>4 DEF Current, Idle
<1> QED  BY <1>3, <1>5, <1>6, Zenon DEF Inv

\* A goroutine that begins a call, or is inside one, is alone with it.
LEMMA OthersIdle ==
  ASSUME Inv, serial, NEW c \in Clients, AtRest \/ call[c] # Idle
  PROVE  sweep.pc = "idle" /\ \A e \in Clients : e # c => call[e] = Idle
BY Zenon DEF Inv, Alone, AtRest

\* A goroutine takes a step of a call.
LEMMA CallStep ==
  ASSUME Inv, NEW c \in Clients, NEW r \in Call, Goto(c, r),
         serial => AtRest \/ call[c] # Idle,
         db' \in Databases, IsFiniteSet(Present(db')), count' \in Int,
         UNCHANGED <<disk, sweep, now, bounds>>,
         serial => Current(r)'
  PROVE  Inv'
<1>1. call' = [call EXCEPT ![c] = r] /\ call \in [Clients -> Call]
  BY Zenon DEF Goto, Inv, Typed
<1>2. call' \in [Clients -> Call] /\ \A e \in Clients : call'[e] = IF e = c THEN r ELSE call[e]
  BY <1>1, Zenon
<1>3. UNCHANGED <<disk, sweep, now, serial>>
  BY Zenon DEF bounds
<1>4. Typed'
  BY <1>2, <1>3, Zenon DEF Inv, Typed, Present
<1>5. ASSUME serial
      PROVE  /\ sweep'.pc = "idle"
             /\ \A e \in Clients : e # c => call'[e] = Idle
             /\ call'[c] = r
  BY <1>2, <1>3, <1>5, OthersIdle, Zenon
<1>6. Alone'
  BY <1>3, <1>5, Zenon DEF Alone
<1>7. serial' => SweepCurrent'
  BY <1>3, <1>5, Zenon DEF SweepCurrent
<1>8. ASSUME serial', NEW e \in Clients PROVE Current(call[e])'
  <2>1. CASE e = c
    BY <1>3, <1>5, <1>8, <2>1, Zenon DEF Current
  <2>2. CASE e # c
    <3>1. call'[e].pc = "idle"
      BY <1>3, <1>5, <1>8, <2>2 DEF Idle
    <3> QED  BY <3>1, Zenon DEF Current
  <2> QED  BY <2>1, <2>2, Zenon
<1> QED  BY <1>4, <1>6, <1>7, <1>8, Zenon DEF Inv

\* Get, Exists and TTL: what they found expired they may delete.
LEMMA ReadStep ==
  ASSUME Inv, NEW c \in Clients, NEW k \in Keys, Get(c, k) \/ Exists(c, k) \/ TTL(c, k)
  PROVE  Inv'
<1>1. PICK r \in Call : /\ Goto(c, r)
                        /\ r = Idle \/ r = [pc |-> "drop", key |-> k]
                        /\ r # Idle => Has(k) /\ (Expired(k) \/ (/\ db[k].expiresAt = now
                                                                  /\ ret' = <<"TTL", k, 0>>))
  <2>1. Idle \in Call /\ [pc |-> "drop", key |-> k] \in Call
    BY Zenon DEF Call
  <2>2. ASSUME Get(c, k) \/ Exists(c, k)
        PROVE  Goto(c, IF Expired(k) THEN [pc |-> "drop", key |-> k] ELSE Idle)
    BY <2>2, Zenon DEF Get, Exists, Read
  <2>3. CASE Get(c, k) \/ Exists(c, k)
    BY <2>1, <2>2, <2>3, Zenon DEF Expired
  <2>4. CASE TTL(c, k)
    <3> DEFINE over == Has(k) /\ db[k].expiresAt # Never /\ now >= db[k].expiresAt
    <3>1. /\ Goto(c, IF over THEN [pc |-> "drop", key |-> k] ELSE Idle)
          /\ ret' = <<"TTL", k, IF Has(k) /\ ~over THEN Remaining(db[k], now) ELSE 0>>
      BY <2>4, Zenon DEF TTL, Read
    <3>2. over => Expired(k) \/ db[k].expiresAt = now
      <4>1. Has(k) => db[k] \in Item /\ now \in Nat
        BY Zenon DEF Has, Inv, Typed, Databases
      <4> QED  BY <4>1 DEF Expired, IsExpired, Item
    <3>3. CASE over
      BY <2>1, <3>1, <3>2, <3>3, Zenon
    <3>4. CASE ~over
      BY <2>1, <3>1, <3>4, Zenon
    <3> QED  BY <3>3, <3>4, Zenon
  <2> QED  BY <2>3, <2>4, Zenon
<1>2. /\ serial => AtRest
      /\ UNCHANGED <<db, disk, count, sweep, now, bounds>>
  BY Zenon DEF Get, Exists, TTL, Read, Begin
<1>3. db' \in Databases /\ IsFiniteSet(Present(db')) /\ count' \in Int
  BY <1>2, Zenon DEF Inv, Typed
<1>4. Current(r)'
  <2>1. CASE r = Idle
    BY <2>1, Zenon DEF Current, Idle
  <2>2. CASE r = [pc |-> "drop", key |-> k]
    <3>1. r # Idle /\ r.pc = "drop" /\ r.key = k
      BY <2>2, Zenon DEF Idle
    <3>2. Due(k)'
      BY <1>1, <1>2, <3>1, Zenon DEF Due, Has, Expired
    <3> QED  BY <3>1, <3>2, Zenon DEF Current
  <2> QED  BY <1>1, <2>1, <2>2, Zenon
<1> QED  BY <1>1, <1>2, <1>3, <1>4, CallStep, Zenon

\* The last step of a call.
LEMMA LastStep ==
  ASSUME Inv, NEW c \in Clients, Goto(c, Idle), call[c] # Idle,
         db' \in Databases, IsFiniteSet(Present(db')), count' \in Int,
         UNCHANGED <<disk, sweep, now, bounds>>
  PROVE  Inv'
<1>1. Idle \in Call
  BY Zenon DEF Call
<1>2. Current(Idle)'
  BY Zenon DEF Current, Idle
<1> QED  BY <1>1, <1>2, CallStep, Zenon

\* The deletes of reads and of Delete, and the writes of Set and Incr.
LEMMA StoringStep ==
  ASSUME Inv, NEW c \in Clients,
         Drop(c) \/ DeleteWrite(c) \/ SetWrite(c) \/ IncrWrite(c)
  PROVE  Inv'
<1>1. /\ Typed /\ call[c] # Idle /\ call[c].key \in Keys
      /\ Goto(c, Idle) /\ UNCHANGED <<disk, sweep, now, bounds>>
  <2>1. call[c].pc # "idle"
    BY Zenon DEF Drop, DeleteWrite, SetWrite, IncrWrite
  <2>2. Goto(c, Idle) /\ UNCHANGED <<disk, sweep, now, bounds>>
    BY Zenon DEF Drop, DeleteWrite, SetWrite, IncrWrite, Write
  <2> QED  BY <2>1, <2>2, CallShape, Zenon DEF Inv
<1>2. PICK e \in Item \cup {NoEntry} : db' = [db EXCEPT ![call[c].key] = e]
  <2>1. CASE Drop(c) \/ DeleteWrite(c)
    BY <2>1, Zenon DEF Drop, DeleteWrite
  <2>2. CASE SetWrite(c) \/ IncrWrite(c)
    BY <1>1, <2>2, CallShape, Zenon DEF SetWrite, IncrWrite, Write
  <2> QED  BY <2>1, <2>2, Zenon
<1>3. count' \in Int
  <2>1. count' \in {count, count - 1, count + 1}
    BY Zenon DEF Drop, DeleteWrite, SetWrite, IncrWrite, Write
  <2> QED  BY <1>1, <2>1 DEF Typed
<1>4. db' \in Databases /\ IsFiniteSet(Present(db'))
  BY <1>1, <1>2, OneEntry, Zenon
<1> QED  BY <1>1, <1>3, <1>4, LastStep, Zenon

\* The steps of Set, Delete and Incr that only look.
LEMMA LookingStep ==
  ASSUME Inv, NEW c \in Clients, NEW r \in Call, Goto(c, r),
         serial => AtRest \/ call[c] # Idle,
         UNCHANGED <<db, disk, sweep, now, bounds>>, count' \in Int,
         serial => Current(r)'
  PROVE  Inv'
<1>1. db' \in Databases /\ IsFiniteSet(Present(db'))
  BY Zenon DEF Inv, Typed
<1> QED  BY <1>1, CallStep, Zenon

LEMMA SetCallStep ==
  ASSUME Inv, NEW c \in Clients, NEW k \in Keys, NEW v \in Value, NEW ttl \in TTLs,
         SetCall(c, k, v, ttl)
  PROVE  Inv'
<1>1. PICK r : r = [pc |-> "encode", key |-> k, value |-> v, ttl |-> ttl, exists |-> Has(k)]
  BY Zenon
<1>2. r \in Call
  BY <1>1, Zenon DEF Call, Has
<1>3. /\ Goto(c, r) /\ (serial => AtRest)
      /\ UNCHANGED <<db, disk, count, sweep, now, bounds>>
  BY <1>1, Zenon DEF SetCall, Begin
<1>4. count' \in Int
  BY <1>3, Zenon DEF Inv, Typed
<1>5. r.pc = "encode" /\ r.exists = Has(r.key)'
  BY <1>1, <1>3, Zenon DEF Has
<1>6. Current(r)'
  BY <1>5, Zenon DEF Current
<1> QED  BY <1>2, <1>3, <1>4, <1>6, LookingStep, Zenon

LEMMA SetEncodeStep ==
  ASSUME Inv, NEW c \in Clients, SetEncode(c)
  PROVE  Inv'
<1>1. PICK r : r = [pc |-> "write", key |-> call[c].key,
                    raw |-> encode(call[c].value, call[c].ttl), exists |-> call[c].exists]
  BY Zenon
<1>2. /\ Typed /\ call[c].pc = "encode" /\ call[c] # Idle /\ Goto(c, r)
      /\ UNCHANGED <<db, disk, count, sweep, now, bounds>>
  BY <1>1, CallShape, Zenon DEF SetEncode, Inv
<1>3. /\ call[c].key \in Keys /\ call[c].exists \in BOOLEAN
      /\ encode(call[c].value, call[c].ttl) \in Item
  <2>1. call[c].value \in Value /\ call[c].ttl \in Int /\ now \in Nat
    BY <1>2, CallShape, PebbleArgumentsAssumption, Zenon DEF Typed
  <2> QED  BY <1>2, <2>1, CallShape, EncodeType, Zenon
<1>4. r \in Call
  BY <1>1, <1>3, Zenon DEF Call
<1>5. serial => Current(r)'
  <2>1. serial => call[c].exists = Has(call[c].key)
    BY <1>2, Zenon DEF Inv, Current
  <2>2. r.pc = "write" /\ r.exists = call[c].exists /\ r.key = call[c].key
    BY <1>1, Zenon
  <2> QED  BY <1>2, <2>1, <2>2, Zenon DEF Current, Has
<1>6. count' \in Int
  BY <1>2, Zenon DEF Typed
<1> QED  BY <1>2, <1>4, <1>5, <1>6, LookingStep, Zenon

LEMMA DeleteCallStep ==
  ASSUME Inv, NEW c \in Clients, NEW k \in Keys, DeleteCall(c, k)
  PROVE  Inv'
<1>1. PICK r : r = IF Has(k) THEN [pc |-> "delete", key |-> k] ELSE Idle
  BY Zenon
<1>2. r \in Call
  BY <1>1, Zenon DEF Call
<1>3. /\ call[c] = Idle /\ (serial => AtRest)
      /\ UNCHANGED <<db, disk, count, sweep, now, bounds>>
  BY Zenon DEF DeleteCall, Begin
<1>4. Goto(c, r)
  <2>1. CASE Has(k)
    BY <1>1, <2>1, Zenon DEF DeleteCall
  <2>2. CASE ~Has(k)
    <3>1. call' = call /\ call \in [Clients -> Call]
      BY <2>2, Zenon DEF DeleteCall, Inv, Typed
    <3> QED  BY <1>1, <1>3, <2>2, <3>1, Zenon DEF Goto
  <2> QED  BY <2>1, <2>2, Zenon
<1>5. Current(r)'
  <2>1. r.pc = "idle" \/ (r.pc = "delete" /\ r.key = k /\ Has(k))
    BY <1>1, Zenon DEF Idle
  <2> QED  BY <1>3, <2>1, Zenon DEF Current, Has
<1>6. count' \in Int
  BY <1>3, Zenon DEF Inv, Typed
<1> QED  BY <1>2, <1>3, <1>4, <1>5, <1>6, LookingStep, Zenon

\* What IncrRead makes of the two ways it can go.
LEMMA IncrReadCases ==
  ASSUME NEW c \in Clients, NEW k \in Keys, NEW d \in Deltas, NEW ttl \in TTLs,
         IncrRead(c, k, d, ttl)
  PROVE  \/ /\ Live(k) => db[k].value \in Counters
            /\ Goto(c, [pc |-> "incrProbe", key |-> k, raw |-> Counted(k, d, ttl)])
            /\ UNCHANGED ret
         \/ /\ Live(k) /\ db[k].value \notin Counters
            /\ ret' = <<"IncrError", k>>
            /\ UNCHANGED call
<1> DEFINE old == IF Live(k) THEN db[k].value ELSE 0
<1>1. IF old \in Counters
      THEN /\ Goto(c, [pc |-> "incrProbe", key |-> k, raw |-> Counted(k, d, ttl)])
           /\ UNCHANGED ret
      ELSE ret' = <<"IncrError", k>> /\ UNCHANGED call
  BY Zenon DEF IncrRead, Counted
<1>2. 0 \in Counters
  BY IntLimitAssumption DEF Counters
<1> QED  BY <1>1, <1>2, Zenon

LEMMA IncrReadStep ==
  ASSUME Inv, NEW c \in Clients, NEW k \in Keys, NEW d \in Deltas, NEW ttl \in TTLs,
         IncrRead(c, k, d, ttl)
  PROVE  Inv'
<1>1. /\ call[c] = Idle /\ (serial => AtRest)
      /\ UNCHANGED <<db, disk, sweep, now, bounds>>
  BY Zenon DEF IncrRead, Begin
<1>2. count' \in Int
  <2>1. count' \in {count, count - 1}
    BY Zenon DEF IncrRead
  <2> QED  BY <2>1 DEF Inv, Typed
<1>3. CASE /\ Live(k) => db[k].value \in Counters
           /\ Goto(c, [pc |-> "incrProbe", key |-> k, raw |-> Counted(k, d, ttl)])
  <2>1. PICK r : r = [pc |-> "incrProbe", key |-> k, raw |-> Counted(k, d, ttl)]
    BY Zenon
  <2>2. Counted(k, d, ttl) \in Item
    BY <1>3, CountedType, Zenon DEF Inv
  <2>3. r \in Call
    BY <2>1, <2>2, Zenon DEF Call
  <2>4. r.pc = "incrProbe" /\ r.key = k /\ r.raw = Counted(k, d, ttl)
    BY <2>1, Zenon
  <2>5. Counted(k, d, ttl)' = Counted(k, d, ttl) /\ Live(k)' = Live(k) /\ db'[k] = db[k]
    BY <1>1, Zenon DEF Counted, Live, Has, encode, KeptTTL
  <2>6. Current(r)'
    <3>1. r.pc \notin {"drop", "delete", "encode", "write", "incrWrite"}
      BY <2>4, Zenon
    <3>2. Live(r.key)' => db'[r.key].value \in Counters
      BY <1>3, <2>4, <2>5, Zenon
    <3>3. r.raw = Counted(r.key, d, ttl)'
      BY <2>4, <2>5, Zenon
    <3> QED  BY <3>1, <3>2, <3>3, Zenon DEF Current
  <2> QED  BY <1>1, <1>2, <1>3, <2>1, <2>3, <2>6, LookingStep, Zenon
<1>4. CASE UNCHANGED call
  <2>1. Goto(c, Idle) /\ Idle \in Call
    <3>1. call \in [Clients -> Call]
      BY Zenon DEF Inv, Typed
    <3> QED  BY <1>1, <1>4, <3>1, Zenon DEF Goto, Call
  <2>2. Current(Idle)'
    BY Zenon DEF Current, Idle
  <2> QED  BY <1>1, <1>2, <2>1, <2>2, LookingStep, Zenon
<1> QED  BY <1>3, <1>4, IncrReadCases, Zenon

LEMMA IncrProbeStep ==
  ASSUME Inv, NEW c \in Clients, IncrProbe(c)
  PROVE  Inv'
<1>1. PICK r : r = [pc |-> "incrWrite", key |-> call[c].key, raw |-> call[c].raw,
                    exists |-> Has(call[c].key)]
  BY Zenon
<1>2. /\ call[c].pc = "incrProbe" /\ Goto(c, r)
      /\ UNCHANGED <<db, disk, count, sweep, now, bounds>>
  BY <1>1, Zenon DEF IncrProbe
<1>3. /\ Typed /\ call[c] # Idle /\ call[c].key \in Keys /\ call[c].raw \in Item
      /\ count' \in Int
  BY <1>2, CallShape, Zenon DEF Inv, Typed
<1>4. Has(call[c].key) \in BOOLEAN
  BY Zenon DEF Has
<1>5. r \in Call
  BY <1>1, <1>3, <1>4, Zenon DEF Call
<1>6. /\ r.pc = "incrWrite" /\ r.key = call[c].key /\ r.raw = call[c].raw
      /\ r.exists = Has(call[c].key)
  BY <1>1, Zenon
<1>7. ASSUME serial PROVE Current(r)'
  <2>1. /\ Live(r.key) => db[r.key].value \in Counters
        /\ \E d \in Deltas, ttl \in TTLs : r.raw = Counted(r.key, d, ttl)
    BY <1>2, <1>6, <1>7, Zenon DEF Inv, Current
  <2>2. /\ Live(r.key)' = Live(r.key) /\ Has(r.key)' = Has(r.key)
        /\ db'[r.key] = db[r.key]
        /\ \A d, ttl : Counted(r.key, d, ttl)' = Counted(r.key, d, ttl)
    BY <1>2, Zenon DEF Counted, Live, Has, encode, KeptTTL
  <2>3. r.pc \notin {"drop", "delete"}
    BY <1>6, Zenon
  <2> QED  BY <1>6, <2>1, <2>2, <2>3, Zenon DEF Current
<1> QED  BY <1>2, <1>3, <1>5, <1>7, LookingStep, Zenon

\* The sweeper: nothing changes but what it is doing.
LEMMA SweepLookStep ==
  ASSUME Inv, SweepStart \/ SweepScan
  PROVE  Inv'
<1>1. /\ Typed /\ sweep \in [pc : {"idle", "scan", "commit"}, at : Nat, keys : SUBSET Keys]
      /\ now \in Nat
  BY Zenon DEF Inv, Typed
<1>2. UNCHANGED <<db, disk, count, call, now, ret, serial>>
  BY Zenon DEF SweepStart, SweepScan, bounds
<1>3. /\ sweep' \in [pc : {"idle", "scan", "commit"}, at : Nat, keys : SUBSET Keys]
      /\ IsFiniteSet(sweep'.keys)
      /\ serial => SweepCurrent'
      /\ serial => \A c \in Clients : call[c] = Idle
  <2>1. CASE SweepStart
    <3>1. sweep' = [pc |-> "scan", at |-> now, keys |-> {}] /\ (serial => AtRest)
      BY <2>1, Zenon DEF SweepStart, Quiet
    <3> QED  BY <1>1, <1>2, <3>1, FS_EmptySet DEF SweepCurrent, AtRest
  <2>2. CASE SweepScan
    <3> DEFINE expired == {k \in Present(db) : IsExpired(db[k], sweep.at)}
    <3>1. /\ sweep.pc = "scan"
          /\ sweep' = Quiet \/ sweep' = [pc |-> "commit", at |-> sweep.at, keys |-> expired]
      BY <1>1, <2>2, Zenon DEF SweepScan
    <3>2. expired \in SUBSET Keys /\ IsFiniteSet(expired)
      BY FS_Subset, Zenon DEF Present, Inv, Typed
    <3>3. serial => sweep.at <= now /\ \A c \in Clients : call[c] = Idle
      BY <3>1, Zenon DEF Inv, SweepCurrent, Alone
    <3>4. ASSUME serial, NEW k \in expired PROVE Expired(k)'
      <4>1. db[k] \in Item /\ Has(k) /\ IsExpired(db[k], sweep.at)
        BY <1>1, Zenon DEF Present, Has, Typed, Databases
      <4>2. sweep.at \in Nat /\ sweep.at <= now
        BY <1>1, <3>3, <3>4, Zenon
      <4> QED  BY <1>1, <1>2, <4>1, <4>2 DEF Expired, Has, IsExpired, Item
    <3> HIDE DEF expired
    <3>5. CASE sweep' = Quiet
      BY <3>3, <3>5, FS_EmptySet, Zenon DEF Quiet, SweepCurrent
    <3>6. CASE sweep' = [pc |-> "commit", at |-> sweep.at, keys |-> expired]
      <4>1. sweep'.pc = "commit" /\ sweep'.at = sweep.at /\ sweep'.keys = expired
        BY <3>6, Zenon
      <4>2. serial => SweepCurrent'
        BY <1>2, <3>3, <3>4, <4>1, Zenon DEF SweepCurrent
      <4> QED  BY <1>1, <3>2, <3>3, <3>6, <4>1, <4>2, Zenon
    <3> QED  BY <3>1, <3>5, <3>6, Zenon
  <2> QED  BY <2>1, <2>2, Zenon
<1>4. Typed'
  BY <1>1, <1>2, <1>3, Zenon DEF Typed, Present
<1>5. Alone'
  BY <1>2, <1>3, Zenon DEF Alone
<1>6. serial => \A c \in Clients : Current(call[c])'
  BY <1>2, <1>3 DEF Current, Idle
<1> QED  BY <1>2, <1>3, <1>4, <1>5, <1>6, Zenon DEF Inv

LEMMA SweepCommitStep ==
  ASSUME Inv, SweepCommit
  PROVE  Inv'
<1>1. /\ Typed /\ sweep.pc = "commit" /\ sweep.keys \in SUBSET Keys
      /\ sweep' = Quiet
      /\ db' = [k \in Keys |-> IF k \in sweep.keys THEN NoEntry ELSE db[k]]
      /\ UNCHANGED <<disk, call, now, serial>>
  BY Zenon DEF Inv, Typed, SweepCommit, bounds
<1>2. db' \in Databases /\ IsFiniteSet(Present(db'))
  BY <1>1, ManyEntries, Zenon
<1>3. count' \in Int
  <2>1. Cardinality(sweep.keys) \in Nat
    BY <1>1, FS_CardinalityType, Zenon DEF Typed
  <2> QED  BY <1>1, <2>1 DEF SweepCommit, Typed
<1>4. serial => \A c \in Clients : call'[c] = Idle
  BY <1>1, Zenon DEF Inv, Alone
<1>5. Typed'
  BY <1>1, <1>2, <1>3, FS_EmptySet, Zenon DEF Typed, Quiet
<1>6. Alone' /\ SweepCurrent'
  BY <1>1, <1>4, Zenon DEF Alone, SweepCurrent, Quiet
<1>7. serial => \A c \in Clients : Current(call[c])'
  BY <1>4 DEF Current, Idle
<1> QED  BY <1>1, <1>5, <1>6, <1>7, Zenon DEF Inv

\* The process dies and starts again; nobody is inside a call.
LEMMA RestartStep ==
  ASSUME Inv, Restart
  PROVE  Inv'
<1>1. /\ Typed /\ db' = disk /\ disk' = disk /\ now' = now /\ serial' = serial
      /\ call' = [c \in Clients |-> Idle] /\ sweep' = Quiet
      /\ count' = Cardinality(Present(disk))
  BY Zenon DEF Inv, Restart
<1>2. count' \in Int
  BY <1>1, FS_CardinalityType DEF Typed
<1>3. Idle \in Call
  BY Zenon DEF Call
<1>4. call' \in [Clients -> Call]
  BY <1>1, <1>3, Zenon
<1>5. Typed'
  BY <1>1, <1>2, <1>4, FS_EmptySet, Zenon DEF Typed, Quiet
<1>6. Alone' /\ SweepCurrent'
  BY <1>1, Zenon DEF Alone, SweepCurrent, Quiet
<1>7. \A c \in Clients : Current(call[c])'
  BY <1>1, Zenon DEF Current, Idle
<1> QED  BY <1>5, <1>6, <1>7, Zenon DEF Inv

\* Time passes, but not while an Incr runs.
LEMMA TickStep ==
  ASSUME Inv, Tick
  PROVE  Inv'
<1>1. /\ Typed /\ now' = now + 1 /\ ~IncrRunning /\ now \in Nat \ {0}
      /\ UNCHANGED <<db, disk, count, call, sweep, ret, serial>>
  BY Zenon DEF Inv, Typed, Tick, bounds
<1>2. Typed'
  BY <1>1 DEF Typed, Present
<1>3. Alone'
  BY <1>1, Zenon DEF Inv, Alone
<1>4. ASSUME NEW k \in Keys
      PROVE  /\ Has(k)' = Has(k)
             /\ Expired(k) => Expired(k)'
             /\ Due(k) => Due(k)'
  <2>1. Has(k) => db[k] \in Item
    BY <1>1, Zenon DEF Has, Typed, Databases
  <2>2. Has(k)' = Has(k)
    BY <1>1, Zenon DEF Has
  <2>3. Has(k) /\ db[k].expiresAt # Never /\ now >= db[k].expiresAt => Expired(k)'
    BY <1>1, <2>1, <2>2 DEF Expired, IsExpired, Item
  <2>4. Expired(k) => Expired(k)'
    BY <1>1, <2>1, <2>3 DEF Expired, IsExpired, Item
  <2>5. Due(k) => Expired(k)'
    BY <1>1, <2>3, <2>4 DEF Due, Never
  <2> QED  BY <2>2, <2>4, <2>5, Zenon DEF Due
<1>5. serial => SweepCurrent'
  <2>1. sweep.keys \in SUBSET Keys /\ sweep.at \in Nat
    BY <1>1, Zenon DEF Typed
  <2> QED  BY <1>1, <1>4, <2>1 DEF Inv, SweepCurrent
<1>6. ASSUME serial, NEW c \in Clients PROVE Current(call[c])'
  <2>1. Current(call[c]) /\ call[c].pc \notin {"incrProbe", "incrWrite"}
    BY <1>1, <1>6, Zenon DEF Inv, IncrRunning
  <2>2. call[c].pc # "idle" => call[c].key \in Keys
    BY <1>1, CallShape, Zenon
  <2>3. call'[c] = call[c]
    BY <1>1, Zenon
  <2> QED  BY <1>4, <2>1, <2>2, <2>3, Zenon DEF Current
<1> QED  BY <1>1, <1>2, <1>3, <1>5, <1>6, Zenon DEF Inv

\* Nothing that the store looks at changes.
LEMMA QuietStep ==
  ASSUME Inv, UNCHANGED <<db, count, call, sweep, now, ret, serial>>, disk' \in {db, disk}
  PROVE  Inv'
<1>1. Typed'
  BY Zenon DEF Inv, Typed, Present
<1>2. Alone'
  BY Zenon DEF Inv, Alone
<1>3. serial => SweepCurrent'
  BY Zenon DEF Inv, SweepCurrent, Expired, Has
<1>4. ASSUME serial, NEW c \in Clients PROVE Current(call[c])'
  <2>1. Current(call[c])
    BY <1>4, Zenon DEF Inv
  <2> QED  BY <2>1, Zenon DEF Current, Due, Expired, Has, Live, Counted, encode, KeptTTL
<1> QED  BY <1>1, <1>2, <1>3, <1>4, Zenon DEF Inv

LEMMA NextInv == Inv /\ [Next]_vars => Inv'
<1> SUFFICES ASSUME Inv, [Next]_vars PROVE Inv'
  BY Zenon
<1>1. CASE Tick
  BY <1>1, TickStep, Zenon
<1>2. CASE Flush
  BY <1>2, QuietStep, Zenon DEF Flush, bounds
<1>3. CASE Restart
  BY <1>3, RestartStep
<1>4. CASE SweepStart \/ SweepScan
  BY <1>4, SweepLookStep, Zenon
<1>5. CASE SweepCommit
  BY <1>5, SweepCommitStep
<1>6. ASSUME NEW c \in Clients,
             \/ Drop(c) \/ SetEncode(c) \/ SetWrite(c) \/ DeleteWrite(c)
             \/ IncrProbe(c) \/ IncrWrite(c)
      PROVE  Inv'
  BY <1>6, StoringStep, SetEncodeStep, IncrProbeStep, Zenon
<1>7. ASSUME NEW c \in Clients, NEW k \in Keys,
             Get(c, k) \/ Exists(c, k) \/ TTL(c, k) \/ DeleteCall(c, k)
      PROVE  Inv'
  BY <1>7, ReadStep, DeleteCallStep, Zenon
<1>8. ASSUME NEW c \in Clients, NEW k \in Keys, NEW v \in Value, NEW ttl \in TTLs,
             SetCall(c, k, v, ttl)
      PROVE  Inv'
  BY <1>8, SetCallStep, Zenon
<1>9. ASSUME NEW c \in Clients, NEW k \in Keys, NEW d \in Deltas, NEW ttl \in TTLs,
             IncrRead(c, k, d, ttl)
      PROVE  Inv'
  BY <1>9, IncrReadStep, Zenon
<1>10. CASE UNCHANGED vars
  BY <1>10, QuietStep, Zenon DEF vars
<1> QED
  BY <1>1, <1>2, <1>3, <1>4, <1>5, <1>6, <1>7, <1>8, <1>9, <1>10, Zenon DEF Next

\* The invariant holds throughout: calls that do not overlap write on the
\* strength of what is still so.
THEOREM Invariance == Spec => []Inv
BY InitInv, NextInv, PTL DEF Spec

-----------------------------------------------------------------------------
\* Len

\* An entry goes that was there, and one is taken off the count.
LEMMA DriftDelete ==
  ASSUME Typed, NEW k \in Keys, Has(k), db' = [db EXCEPT ![k] = NoEntry],
         count' = count - 1
  PROVE  Drift' = Drift
<1>1. IsFiniteSet(Present(db)) /\ k \in Present(db) /\ count \in Int
  BY Zenon DEF Typed, Has, Present
<1>2. Present(db') = Present(db) \ {k}
  BY OneEntry, Zenon
<1>3. /\ Cardinality(Present(db) \ {k}) = Cardinality(Present(db)) - 1
      /\ Cardinality(Present(db)) \in Nat
  BY <1>1, FS_RemoveElement, FS_CardinalityType, Zenon
<1>4. /\ Drift' = count' - Cardinality(Present(db'))
      /\ Drift = count - Cardinality(Present(db))
  BY Zenon DEF Drift, Present
<1> QED  BY <1>1, <1>2, <1>3, <1>4

\* An entry is written, and counted unless it was there.
LEMMA DriftWrite ==
  ASSUME Typed, NEW k \in Keys, NEW e \in Item, db' = [db EXCEPT ![k] = e],
         count' = IF Has(k) THEN count ELSE count + 1
  PROVE  Drift' = Drift
<1>1. IsFiniteSet(Present(db)) /\ (Has(k) <=> k \in Present(db)) /\ count \in Int
  BY Zenon DEF Typed, Has, Present
<1>2. Present(db') = Present(db) \cup {k}
  BY OneEntry, ItemNotNil, Zenon
<1>3. /\ Cardinality(Present(db) \cup {k}) =
           IF k \in Present(db) THEN Cardinality(Present(db)) ELSE Cardinality(Present(db)) + 1
      /\ Cardinality(Present(db)) \in Nat
  BY <1>1, FS_AddElement, FS_CardinalityType, Zenon
<1>4. /\ Drift' = count' - Cardinality(Present(db'))
      /\ Drift = count - Cardinality(Present(db))
  BY Zenon DEF Drift, Present
<1> QED  BY <1>1, <1>2, <1>3, <1>4

\* The deletes and writes of calls that do not overlap.
LEMMA DriftStoring ==
  ASSUME Inv, serial, NEW c \in Clients,
         Drop(c) \/ DeleteWrite(c) \/ SetWrite(c) \/ IncrWrite(c)
  PROVE  Drift' = Drift
<1>1. Typed /\ Current(call[c])
  BY Zenon DEF Inv
<1>2. CASE Drop(c) \/ DeleteWrite(c)
  <2>1. /\ db' = [db EXCEPT ![call[c].key] = NoEntry] /\ count' = count - 1
        /\ call[c].pc \in {"drop", "delete"}
    BY <1>2, Zenon DEF Drop, DeleteWrite
  <2>2. call[c].key \in Keys /\ Has(call[c].key)
    BY <1>1, <2>1, CallShape, Zenon DEF Current, Due
  <2> QED  BY <1>1, <2>1, <2>2, DriftDelete, Zenon
<1>3. CASE SetWrite(c) \/ IncrWrite(c)
  <2>1. /\ db' = [db EXCEPT ![call[c].key] = call[c].raw]
        /\ count' = IF call[c].exists THEN count ELSE count + 1
        /\ call[c].pc \in {"write", "incrWrite"}
    BY <1>3, Zenon DEF SetWrite, IncrWrite, Write
  <2>2. call[c].key \in Keys /\ call[c].raw \in Item /\ call[c].exists = Has(call[c].key)
    BY <1>1, <2>1, CallShape, Zenon DEF Current
  <2> QED  BY <1>1, <2>1, <2>2, DriftWrite, Zenon
<1> QED  BY <1>2, <1>3, Zenon

\* The batch of a sweep that no call overlaps: every key of it is there.
LEMMA DriftSweep ==
  ASSUME Inv, serial, SweepCommit
  PROVE  Drift' = Drift
<1>1. /\ Typed /\ sweep.keys \in SUBSET Keys /\ IsFiniteSet(Present(db)) /\ count \in Int
      /\ db' = [k \in Keys |-> IF k \in sweep.keys THEN NoEntry ELSE db[k]]
      /\ count' = count - Cardinality(sweep.keys)
  BY Zenon DEF Inv, Typed, SweepCommit
<1>2. sweep.keys \subseteq Present(db)
  BY <1>1, Zenon DEF Inv, SweepCurrent, SweepCommit, Expired, Has, Present
<1>3. Present(db') = Present(db) \ sweep.keys
  BY <1>1, ManyEntries, Zenon
<1>4. Cardinality(Present(db) \ sweep.keys) =
        Cardinality(Present(db)) - Cardinality(sweep.keys)
  <2>1. Present(db) \cap sweep.keys = sweep.keys
    BY <1>2, Zenon
  <2>2. Cardinality(Present(db) \ sweep.keys) =
          Cardinality(Present(db)) - Cardinality(Present(db) \cap sweep.keys)
    BY <1>1, FS_Difference, Zenon
  <2> QED  BY <2>1, <2>2, Zenon
<1>5. Cardinality(Present(db)) \in Nat /\ Cardinality(sweep.keys) \in Nat
  BY <1>1, <1>2, FS_CardinalityType, FS_Subset, Zenon
<1>6. /\ Drift' = count' - Cardinality(Present(db'))
      /\ Drift = count - Cardinality(Present(db))
  BY Zenon DEF Drift, Present
<1> QED  BY <1>1, <1>3, <1>4, <1>5, <1>6

LEMMA DriftStep ==
  ASSUME Inv, [Next]_vars, serial, Drift' # Drift
  PROVE  \/ Drift' = 0
         \/ \E c \in Clients, k \in Keys, d \in Deltas, ttl \in TTLs :
              Expired(k) /\ IncrRead(c, k, d, ttl)
<1>1. UNCHANGED <<db, count>> => Drift' = Drift
  BY Zenon DEF Drift, Present
<1>2. CASE Tick \/ Flush \/ SweepStart \/ SweepScan \/ UNCHANGED vars
  BY <1>1, <1>2, Zenon DEF Tick, Flush, SweepStart, SweepScan, vars
<1>3. CASE Restart
  <2>1. /\ Drift' = count' - Cardinality(Present(db'))
        /\ count' = Cardinality(Present(disk)) /\ db' = disk
    BY <1>3, Zenon DEF Drift, Present, Restart
  <2>2. Cardinality(Present(disk)) \in Nat
    BY FS_CardinalityType, Zenon DEF Inv, Typed
  <2> QED  BY <2>1, <2>2
<1>4. CASE SweepCommit
  BY <1>4, DriftSweep, Zenon
<1>5. ASSUME NEW c \in Clients,
             \/ Drop(c) \/ SetEncode(c) \/ SetWrite(c) \/ DeleteWrite(c)
             \/ IncrProbe(c) \/ IncrWrite(c)
      PROVE  FALSE
  <2>1. SetEncode(c) \/ IncrProbe(c) => UNCHANGED <<db, count>>
    BY Zenon DEF SetEncode, IncrProbe
  <2> QED  BY <1>1, <1>5, <2>1, DriftStoring, Zenon
<1>6. ASSUME NEW c \in Clients, NEW k \in Keys,
             Get(c, k) \/ Exists(c, k) \/ TTL(c, k) \/ DeleteCall(c, k)
      PROVE  FALSE
  BY <1>1, <1>6, Zenon DEF Get, Exists, TTL, Read, DeleteCall
<1>7. ASSUME NEW c \in Clients, NEW k \in Keys, NEW v \in Value, NEW ttl \in TTLs,
             SetCall(c, k, v, ttl)
      PROVE  FALSE
  BY <1>1, <1>7, Zenon DEF SetCall
<1>8. ASSUME NEW c \in Clients, NEW k \in Keys, NEW d \in Deltas, NEW ttl \in TTLs,
             IncrRead(c, k, d, ttl)
      PROVE  Expired(k)
  BY <1>1, <1>8, Zenon DEF IncrRead
<1> QED
  BY <1>2, <1>3, <1>4, <1>5, <1>6, <1>7, <1>8, Zenon DEF Next

\* Calls that do not overlap keep Len right, but for an Incr that finds an
\* expired counter, and a restart puts it right: how far Len is off changes
\* in no other way, for any database.
THEOREM CountCorrect == Spec => CountFollowsData
<1>1. Inv /\ [Next]_vars
      => [serial /\ Drift' # Drift =>
            \/ Drift' = 0
            \/ \E c \in Clients, k \in Keys, d \in Deltas, ttl \in TTLs :
                 Expired(k) /\ IncrRead(c, k, d, ttl)]_vars
  BY DriftStep, Zenon
<1> QED  BY <1>1, Invariance, PTL DEF Spec, CountFollowsData

-----------------------------------------------------------------------------
\* What callers see: PebbleStore implements Store

\* What a caller sees of an entry at the present time.
Seen(e) == IF e # NoEntry /\ ~IsExpired(e, now) THEN e ELSE NoEntry

LEMMA LiveMapSeen == LiveMap = [k \in Keys |-> Seen(db[k])]
BY Zenon DEF LiveMap, Live, Has, Seen

\* A key is present for the interface iff its entry is live.
LEMMA PresentLive ==
  ASSUME Typed, NEW k \in Keys
  PROVE  /\ StoreView!Present(k) <=> Live(k)
         /\ Live(k) => LiveMap[k] = db[k] /\ db[k] \in Item
         /\ ~Live(k) => LiveMap[k] = NoEntry
<1>1. LiveMap[k] = IF Live(k) THEN db[k] ELSE NoEntry
  BY Zenon DEF LiveMap
<1>2. Live(k) => db[k] \in Item /\ db[k] # NoEntry
  BY Zenon DEF Live, Has, Typed, Databases
<1> QED  BY <1>1, <1>2, Zenon DEF StoreView!Present

\* Changing one entry changes what is seen of its key.
LEMMA LiveMapChange ==
  ASSUME Typed, NEW k \in Keys, NEW e \in Item \cup {NoEntry},
         db' = [db EXCEPT ![k] = e], now' = now
  PROVE  LiveMap' = [LiveMap EXCEPT ![k] = Seen(e)]
<1>1. \A j \in Keys : db'[j] = IF j = k THEN e ELSE db[j]
  BY OneEntry, Zenon
<1>2. LiveMap' = [j \in Keys |-> Seen(db'[j])]
  BY DEF LiveMap, Live, Has, Seen
<1>3. [LiveMap EXCEPT ![k] = Seen(e)] = [j \in Keys |-> IF j = k THEN Seen(e) ELSE Seen(db[j])]
  BY LiveMapSeen, Zenon
<1> QED  BY <1>1, <1>2, <1>3, Zenon

LEMMA LiveMapSame ==
  ASSUME UNCHANGED <<db, now>>
  PROVE  LiveMap' = LiveMap
BY Zenon DEF LiveMap, Live, Has

\* A goroutine moves, and begins or ends no Set of the interface.
LEMMA PendingMove ==
  ASSUME Typed, NEW c \in Clients, NEW r, Goto(c, r), r.pc # "write", call[c].pc # "write"
  PROVE  PendingSets' = PendingSets
<1>1. \A e \in Clients : call'[e] = IF e = c THEN r ELSE call[e]
  BY Zenon DEF Goto, Typed
<1>2. ASSUME NEW e \in Clients
      PROVE  /\ call'[e].pc = "write" <=> call[e].pc = "write"
             /\ call[e].pc = "write" => call'[e] = call[e]
  BY <1>1, Zenon
<1> QED  BY <1>2, Zenon DEF PendingSets

\* The operators of Entry mean the same inside the interface.
LEMMA SameOperators ==
  /\ StoreView!Value = Value /\ StoreView!Counters = Counters /\ StoreView!Never = Never
  /\ \A n : StoreView!Wrap(n) = Wrap(n)
  /\ \A t, ttl : StoreView!Deadline(t, ttl) = Deadline(t, ttl)
  /\ \A e, t : StoreView!IsExpired(e, t) <=> IsExpired(e, t)
  /\ \A e, t : StoreView!Remaining(e, t) = Remaining(e, t)
BY Zenon DEF Value, StoreView!Value, Counters, StoreView!Counters, Never, StoreView!Never,
   Wrap, StoreView!Wrap, Deadline, StoreView!Deadline, IsExpired, StoreView!IsExpired,
   Remaining, StoreView!Remaining

\* The reads, each of which takes effect when it reads the database.
LEMMA ReadView ==
  ASSUME Inv, NEW c \in Clients, NEW k \in Keys
  PROVE  /\ Get(c, k) => StoreView!Get(k)
         /\ Exists(c, k) => StoreView!Exists(k)
         /\ TTL(c, k) => StoreView!TTL(k)
<1>1. Typed /\ now \in Nat
  BY Zenon DEF Inv, Typed
<1>2. ASSUME NEW gone, NEW answer, call[c] = Idle, Read(c, k, gone, answer)
      PROVE  now' = now /\ LiveMap' = LiveMap /\ PendingSets' = PendingSets /\ ret' = answer
  <2>1. PICK r : Goto(c, r) /\ (r = Idle \/ r = [pc |-> "drop", key |-> k])
    BY <1>2, Zenon DEF Read
  <2>2. r.pc # "write" /\ call[c].pc # "write"
    BY <1>2, <2>1 DEF Idle
  <2>3. UNCHANGED <<db, now>> /\ ret' = answer
    BY <1>2, Zenon DEF Read
  <2> QED  BY <1>1, <2>1, <2>2, <2>3, PendingMove, LiveMapSame, Zenon
<1>3. ASSUME Get(c, k) PROVE StoreView!Get(k)
  <2>1. PICK g, a : /\ a = IF Live(k) THEN <<"Hit", k, db[k].value>> ELSE <<"Miss", k>>
                    /\ call[c] = Idle
                    /\ Read(c, k, g, a)
    BY <1>3, Zenon DEF Get, Begin
  <2>2. /\ UNCHANGED <<now, LiveMap, PendingSets>>
        /\ ret' = IF Live(k) THEN <<"Hit", k, db[k].value>> ELSE <<"Miss", k>>
    <3>1. UNCHANGED <<now, LiveMap, PendingSets>> /\ ret' = a
      BY <1>2, <2>1
    <3> QED  BY <2>1, <3>1, Zenon
  <2> QED  BY <1>1, <2>2, PresentLive, Zenon DEF StoreView!Get
<1>4. ASSUME Exists(c, k) PROVE StoreView!Exists(k)
  <2>1. call[c] = Idle /\ Read(c, k, Expired(k), <<"Exists", k, Live(k)>>)
    BY <1>4, Zenon DEF Exists, Begin
  <2>2. UNCHANGED <<now, LiveMap, PendingSets>> /\ ret' = <<"Exists", k, Live(k)>>
    BY <1>2, <2>1, Zenon
  <2>3. Live(k) = StoreView!Present(k)
    BY <1>1, PresentLive, Zenon DEF Live, Has, StoreView!Present
  <2> QED  BY <2>2, <2>3, Zenon DEF StoreView!Exists
<1>5. ASSUME TTL(c, k) PROVE StoreView!TTL(k)
  <2> DEFINE over == Has(k) /\ db[k].expiresAt # Never /\ now >= db[k].expiresAt
             left == IF Has(k) /\ ~over THEN Remaining(db[k], now) ELSE 0
  <2>1. call[c] = Idle /\ Read(c, k, over, <<"TTL", k, left>>)
    BY <1>5, Zenon DEF TTL, Begin
  <2>2. left = IF Live(k) THEN Remaining(db[k], now) ELSE 0
    <3>1. Has(k) => db[k] \in Item
      BY <1>1, Zenon DEF Has, Typed, Databases
    <3> QED  BY <1>1, <3>1 DEF Live, IsExpired, Remaining, Item
  <2> HIDE DEF over, left
  <2>3. UNCHANGED <<now, LiveMap, PendingSets>> /\ ret' = <<"TTL", k, left>>
    BY <1>2, <2>1, Zenon
  <2> QED  BY <1>1, <2>2, <2>3, PresentLive, SameOperators, Zenon DEF StoreView!TTL
<1> QED  BY <1>3, <1>4, <1>5, Zenon

\* A Set of the interface begins when its deadline is computed and takes
\* effect when the entry is written.
LEMMA SetEncodeView ==
  ASSUME Inv, NEW c \in Clients, SetEncode(c)
  PROVE  \E k \in Keys, v \in Value, ttl \in TTLs : StoreView!BeginSet(c, k, v, ttl)
<1>1. /\ Typed /\ call[c].pc = "encode" /\ call[c].key \in Keys
      /\ call[c].value \in Value /\ call[c].ttl \in TTLs
  <2>1. Typed /\ call[c].pc = "encode"
    BY Zenon DEF Inv, SetEncode
  <2>2. call[c].pc # "idle"
    BY <2>1, Zenon
  <2> QED  BY <2>1, <2>2, CallShape, Zenon
<1>2. PICK r : /\ Goto(c, r) /\ r.pc = "write" /\ r.key = call[c].key
               /\ r.raw.value = call[c].value
               /\ r.raw.expiresAt = Deadline(now, call[c].ttl)
  BY DEF SetEncode, encode
<1>3. UNCHANGED <<db, now, ret>>
  BY Zenon DEF SetEncode
<1>4. PendingSets[c] = NoEntry
  BY <1>1, Zenon DEF PendingSets
<1>5. \A e \in Clients : call'[e] = IF e = c THEN r ELSE call[e]
  BY <1>1, <1>2, Zenon DEF Goto, Typed
<1>6. PendingSets' = [PendingSets EXCEPT
        ![c] = [key |-> call[c].key, value |-> call[c].value,
                expiresAt |-> Deadline(now, call[c].ttl)]]
  BY <1>2, <1>5, Zenon DEF PendingSets
<1>7. StoreView!BeginSet(c, call[c].key, call[c].value, call[c].ttl)
  BY <1>3, <1>4, <1>6, LiveMapSame, SameOperators, Zenon DEF StoreView!BeginSet
<1> QED  BY <1>1, <1>7, Zenon

\* Writing an item is a Put of the interface.
LEMMA PutView ==
  ASSUME Typed, NEW k \in Keys, NEW e \in Item, db' = [db EXCEPT ![k] = e], now' = now
  PROVE  StoreView!Put(k, StoreView!NewItem(e.value, e.expiresAt))
<1>1. LiveMap' = [LiveMap EXCEPT ![k] = Seen(e)]
  BY LiveMapChange, Zenon
<1>2. StoreView!NewItem(e.value, e.expiresAt) = e /\ e # NoEntry
  BY ItemNotNil, Zenon DEF StoreView!NewItem, Item
<1>3. Seen(e) = IF StoreView!IsExpired(e, now) THEN NoEntry ELSE e
  BY <1>2, SameOperators, Zenon DEF Seen
<1> QED  BY <1>1, <1>2, <1>3, Zenon DEF StoreView!Put

LEMMA SetWriteView ==
  ASSUME Inv, NEW c \in Clients, SetWrite(c)
  PROVE  StoreView!Set(c)
<1>1. /\ Typed /\ call[c].pc = "write" /\ call[c].key \in Keys /\ call[c].raw \in Item
      /\ db' = [db EXCEPT ![call[c].key] = call[c].raw]
      /\ Goto(c, Idle) /\ UNCHANGED <<now, ret>>
  <2>1. /\ Typed /\ call[c].pc = "write"
        /\ db' = [db EXCEPT ![call[c].key] = call[c].raw]
        /\ Goto(c, Idle) /\ UNCHANGED <<now, ret>>
    BY Zenon DEF Inv, SetWrite, Write
  <2>2. call[c].pc # "idle" /\ call[c].pc \in {"write", "incrProbe", "incrWrite"}
    BY <2>1, Zenon
  <2> QED  BY <2>1, <2>2, CallShape, Zenon
<1>2. PendingSets[c] = [key |-> call[c].key, value |-> call[c].raw.value,
                        expiresAt |-> call[c].raw.expiresAt]
  BY <1>1, Zenon DEF PendingSets
<1>3. PendingSets[c] \in PendingSet
  BY <1>1, <1>2 DEF PendingSet, Item
<1>4. PendingSets[c] # NoEntry
  BY <1>3, NoEntryAssumption, Zenon
<1>5. StoreView!Put(call[c].key,
                    StoreView!NewItem(call[c].raw.value, call[c].raw.expiresAt))
  BY <1>1, PutView, Zenon
<1>6. StoreView!Put(PendingSets[c].key,
                    StoreView!NewItem(PendingSets[c].value, PendingSets[c].expiresAt))
  <2>1. /\ PendingSets[c].key = call[c].key /\ PendingSets[c].value = call[c].raw.value
        /\ PendingSets[c].expiresAt = call[c].raw.expiresAt
    BY <1>2
  <2> QED  BY <1>5, <2>1, Zenon
<1>7. PendingSets' = [PendingSets EXCEPT ![c] = NoEntry]
  <2>1. \A e \in Clients : call'[e] = IF e = c THEN Idle ELSE call[e]
    BY <1>1, Zenon DEF Goto, Typed
  <2>2. \A e \in Clients : PendingSets'[e] = IF e = c THEN NoEntry ELSE PendingSets[e]
    BY <2>1 DEF PendingSets, Idle
  <2>3. /\ PendingSets' = [e \in Clients |-> PendingSets'[e]]
        /\ PendingSets = [e \in Clients |-> PendingSets[e]]
    BY Zenon DEF PendingSets
  <2> QED  BY <2>2, <2>3, Zenon
<1> QED  BY <1>1, <1>4, <1>6, <1>7, Zenon DEF StoreView!Set

\* A Delete that finds nothing takes effect when it looks, and one that finds
\* an entry when it deletes.
LEMMA DeleteView ==
  ASSUME Inv, NEW c \in Clients, DeleteWrite(c) \/ \E k \in Keys : DeleteCall(c, k) /\ ~Has(k)
  PROVE  \E k \in Keys : StoreView!Delete(k)
<1>1. Typed
  BY Zenon DEF Inv
<1>2. CASE DeleteWrite(c)
  <2>1. /\ call[c].pc = "delete" /\ db' = [db EXCEPT ![call[c].key] = NoEntry]
        /\ ret' = <<"Delete", call[c].key, TRUE>>
        /\ Goto(c, Idle) /\ now' = now
    BY <1>2, Zenon DEF DeleteWrite
  <2>2. call[c].pc # "idle" /\ call[c].pc # "write" /\ Idle.pc # "write"
    BY <2>1, Zenon DEF Idle
  <2>3. call[c].key \in Keys
    BY <1>1, <2>2, CallShape, Zenon
  <2>4. LiveMap' = [LiveMap EXCEPT ![call[c].key] = NoEntry]
    BY <1>1, <2>1, <2>3, LiveMapChange, Zenon DEF Seen
  <2>5. PendingSets' = PendingSets
    BY <1>1, <2>1, <2>2, PendingMove, Zenon
  <2>6. StoreView!Delete(call[c].key)
    BY <2>1, <2>4, <2>5, Zenon DEF StoreView!Delete
  <2> QED  BY <2>3, <2>6, Zenon
<1>3. ASSUME NEW k \in Keys, DeleteCall(c, k), ~Has(k) PROVE StoreView!Delete(k)
  <2>1. ret' = <<"Delete", k, FALSE>> /\ UNCHANGED <<db, call, now>>
    BY <1>3, Zenon DEF DeleteCall
  <2>2. ~StoreView!Present(k)
    BY <1>1, <1>3, PresentLive, Zenon DEF Live
  <2>3. PendingSets' = PendingSets /\ LiveMap' = LiveMap
    BY <2>1, LiveMapSame, Zenon DEF PendingSets
  <2>4. LiveMap = [LiveMap EXCEPT ![k] = NoEntry]
    <3>1. LiveMap[k] = NoEntry
      BY <2>2, Zenon DEF StoreView!Present
    <3>2. LiveMap = [j \in Keys |-> LiveMap[j]]
      BY Zenon DEF LiveMap
    <3> QED  BY <3>1, <3>2, Zenon
  <2> QED  BY <2>1, <2>2, <2>3, <2>4, Zenon DEF StoreView!Delete
<1> QED  BY <1>2, <1>3, Zenon

\* The steps that a caller does not see.
LEMMA UnseenView ==
  ASSUME Inv, NEW c \in Clients,
         \/ IncrProbe(c)
         \/ \E k \in Keys, v \in Value, ttl \in TTLs : SetCall(c, k, v, ttl)
         \/ \E k \in Keys : DeleteCall(c, k) /\ Has(k)
  PROVE  UNCHANGED StoreView!vars
<1>1. Typed /\ UNCHANGED <<db, now, ret>>
  BY Zenon DEF Inv, IncrProbe, SetCall, DeleteCall
<1>2. PICK r : Goto(c, r) /\ r.pc # "write" /\ call[c].pc # "write"
  <2>1. IncrProbe(c) => call[c].pc # "write" /\ \E r : Goto(c, r) /\ r.pc = "incrWrite"
    BY DEF IncrProbe
  <2>2. ASSUME NEW k \in Keys, NEW v \in Value, NEW ttl \in TTLs, SetCall(c, k, v, ttl)
        PROVE  call[c].pc # "write" /\ \E r : Goto(c, r) /\ r.pc = "encode"
    BY <2>2 DEF SetCall, Begin, Idle
  <2>3. ASSUME NEW k \in Keys, DeleteCall(c, k), Has(k)
        PROVE  call[c].pc # "write" /\ \E r : Goto(c, r) /\ r.pc = "delete"
    BY <2>3 DEF DeleteCall, Begin, Idle
  <2> QED  BY <2>1, <2>2, <2>3, Zenon
<1> QED  BY <1>1, <1>2, PendingMove, LiveMapSame, Zenon DEF StoreView!vars

\* Incr fails when it reads; otherwise a caller sees nothing until it writes.
LEMMA IncrReadView ==
  ASSUME Inv, NEW c \in Clients, NEW k \in Keys, NEW d \in Deltas, NEW ttl \in TTLs,
         IncrRead(c, k, d, ttl)
  PROVE  StoreView!Incr(k, d, ttl) \/ UNCHANGED StoreView!vars
<1>1. Typed /\ call[c] = Idle /\ UNCHANGED <<db, now>>
  BY Zenon DEF Inv, IncrRead, Begin
<1>2. LiveMap' = LiveMap
  BY <1>1, LiveMapSame, Zenon
<1>3. CASE /\ Goto(c, [pc |-> "incrProbe", key |-> k, raw |-> Counted(k, d, ttl)])
           /\ UNCHANGED ret
  <2>1. PICK r : r = [pc |-> "incrProbe", key |-> k, raw |-> Counted(k, d, ttl)] /\ Goto(c, r)
    BY <1>3, Zenon
  <2>2. r.pc # "write" /\ call[c].pc # "write"
    BY <1>1, <2>1 DEF Idle
  <2>3. PendingSets' = PendingSets
    BY <1>1, <2>1, <2>2, PendingMove, Zenon
  <2> QED  BY <1>1, <1>2, <1>3, <2>3, Zenon DEF StoreView!vars
<1>4. CASE /\ Live(k) /\ db[k].value \notin Counters
           /\ ret' = <<"IncrError", k>>
           /\ UNCHANGED call
  <2>1. PendingSets' = PendingSets
    BY <1>4, Zenon DEF PendingSets
  <2>2. StoreView!Present(k) /\ LiveMap[k].value \notin StoreView!Counters
    BY <1>1, <1>4, PresentLive, SameOperators, Zenon
  <2> QED  BY <1>1, <1>2, <1>4, <2>1, <2>2, Zenon DEF StoreView!Incr
<1> QED  BY <1>3, <1>4, IncrReadCases, Zenon

\* Between calls that do not overlap nothing has changed since Incr read.
LEMMA IncrWriteView ==
  ASSUME Inv, serial, NEW c \in Clients, IncrWrite(c)
  PROVE  \E k \in Keys, d \in Deltas, ttl \in TTLs : StoreView!Incr(k, d, ttl)
<1> DEFINE k == call[c].key
           e == call[c].raw
<1>1. /\ Typed /\ Current(call[c]) /\ call[c].pc = "incrWrite"
      /\ db' = [db EXCEPT ![k] = e] /\ now' = now
      /\ ret' = <<"Incr", k, e.value>>
      /\ Goto(c, Idle)
  BY Zenon DEF Inv, IncrWrite, Write
<1>2. k \in Keys /\ e \in Item /\ call[c].pc # "write" /\ Idle.pc # "write"
  <2>1. call[c].pc # "idle" /\ call[c].pc \in {"write", "incrProbe", "incrWrite"}
    BY <1>1, Zenon
  <2>2. call[c].pc # "write" /\ Idle.pc # "write"
    BY <1>1, Zenon DEF Idle
  <2> QED  BY <1>1, <2>1, <2>2, CallShape, Zenon
<1>3. /\ Live(k) => db[k].value \in Counters
      /\ \E d \in Deltas, ttl \in TTLs : e = Counted(k, d, ttl)
  BY <1>1, Zenon DEF Current
<1> HIDE DEF k, e
<1>4. PICK d \in Deltas, ttl \in TTLs : e = Counted(k, d, ttl)
  BY <1>3, Zenon
<1>5. StoreView!Put(k, StoreView!NewItem(e.value, e.expiresAt))
  BY <1>1, <1>2, PutView, Zenon
<1>6. PendingSets' = PendingSets
  BY <1>1, <1>2, PendingMove, Zenon
<1>7. CASE Live(k)
  <2>1. /\ StoreView!Present(k) /\ LiveMap[k] = db[k] /\ db[k] \in Item
        /\ LiveMap[k].value \in StoreView!Counters
    BY <1>1, <1>2, <1>3, <1>7, PresentLive, SameOperators, Zenon
  <2>2. e.value = StoreView!Wrap(LiveMap[k].value + d)
    <3>1. e.value = Wrap(db[k].value + d)
      BY <1>4, <1>7, Zenon DEF Counted, encode
    <3> QED  BY <2>1, <3>1, SameOperators, Zenon
  <2>3. \/ e.expiresAt = LiveMap[k].expiresAt
        \/ now = LiveMap[k].expiresAt /\ e.expiresAt = StoreView!Never
    <3>1. e.expiresAt = Deadline(now, KeptTTL(db[k]))
      BY <1>4, <1>7, Zenon DEF Counted, encode
    <3>2. db[k].expiresAt \in Nat /\ now \in Nat
      BY <1>1, <2>1, Zenon DEF Item, Typed
    <3>3. db[k].expiresAt = Never \/ now <= db[k].expiresAt
      BY <1>7, <3>2 DEF Live, IsExpired
    <3>4. \/ e.expiresAt = db[k].expiresAt
          \/ now = db[k].expiresAt /\ e.expiresAt = Never
      BY <3>1, <3>2, <3>3 DEF Deadline, KeptTTL, Never
    <3> QED  BY <2>1, <3>4, SameOperators, Zenon
  <2>4. \/ StoreView!Put(k, StoreView!NewItem(e.value, LiveMap[k].expiresAt))
        \/ /\ now = LiveMap[k].expiresAt
           /\ StoreView!Put(k, StoreView!NewItem(e.value, StoreView!Never))
    BY <1>5, <2>3, Zenon
  <2>5. StoreView!Incr(k, d, ttl)
    BY <1>1, <1>6, <2>1, <2>2, <2>4, Zenon DEF StoreView!Incr
  <2> QED  BY <1>2, <2>5, Zenon
<1>8. CASE ~Live(k)
  <2>1. ~StoreView!Present(k)
    BY <1>1, <1>2, <1>8, PresentLive, Zenon
  <2>2. e.value = Wrap(0 + d) /\ e.expiresAt = Deadline(now, ttl)
    BY <1>4, <1>8, Zenon DEF Counted, encode
  <2>3. 0 + d = d
    BY PebbleArgumentsAssumption
  <2>4. e.value = StoreView!Wrap(d) /\ e.expiresAt = StoreView!Deadline(now, ttl)
    BY <2>2, <2>3, SameOperators, Zenon
  <2>5. StoreView!Incr(k, d, ttl)
    BY <1>1, <1>5, <1>6, <2>1, <2>4, Zenon DEF StoreView!Incr
  <2> QED  BY <1>2, <2>5, Zenon
<1> QED  BY <1>7, <1>8, Zenon

\* Between calls that do not overlap a read deletes what has expired, or what
\* TTL has said to have no time left.
LEMMA DropView ==
  ASSUME Inv, serial, NEW c \in Clients, Drop(c)
  PROVE  (\E k \in Keys : StoreView!Expire(k)) \/ UNCHANGED StoreView!vars
<1> DEFINE k == call[c].key
<1>1. /\ Typed /\ Due(k) /\ call[c].pc = "drop"
      /\ db' = [db EXCEPT ![k] = NoEntry] /\ UNCHANGED <<now, ret>> /\ Goto(c, Idle)
  BY Zenon DEF Inv, Drop, Current
<1>2. k \in Keys /\ call[c].pc # "write" /\ Idle.pc # "write"
  <2>1. call[c].pc # "idle" /\ call[c].pc # "write" /\ Idle.pc # "write"
    BY <1>1, Zenon DEF Idle
  <2> QED  BY <1>1, <2>1, CallShape
<1> HIDE DEF k
<1>3. LiveMap' = [LiveMap EXCEPT ![k] = NoEntry]
  BY <1>1, <1>2, LiveMapChange, Zenon DEF Seen
<1>4. PendingSets' = PendingSets
  BY <1>1, <1>2, PendingMove, Zenon
<1>5. CASE Live(k)
  <2>1. StoreView!Present(k) /\ LiveMap[k] = db[k]
    BY <1>1, <1>2, <1>5, PresentLive, Zenon
  <2>2. db[k].expiresAt = now /\ ret = <<"TTL", k, 0>>
    BY <1>1, <1>5, Zenon DEF Due, Expired, Live
  <2>3. StoreView!Expire(k)
    BY <1>1, <1>3, <1>4, <2>1, <2>2, Zenon DEF StoreView!Expire
  <2> QED  BY <1>2, <2>3, Zenon
<1>6. CASE ~Live(k)
  <2>1. LiveMap[k] = NoEntry /\ LiveMap = [j \in Keys |-> LiveMap[j]]
    BY <1>1, <1>2, <1>6, PresentLive, Zenon DEF LiveMap
  <2>2. LiveMap' = LiveMap
    BY <1>3, <2>1, Zenon
  <2> QED  BY <1>1, <1>4, <2>2, Zenon DEF StoreView!vars
<1> QED  BY <1>5, <1>6, Zenon

\* The batch of the sweeper leaves what is seen of the keys that are not in it.
LEMMA SweepLiveMap ==
  ASSUME Inv, SweepCommit
  PROVE  /\ LiveMap' = [k \in Keys |-> IF k \in sweep.keys THEN NoEntry ELSE LiveMap[k]]
         /\ UNCHANGED <<now, PendingSets, ret>>
         /\ sweep.keys \in SUBSET Keys
<1>1. /\ db' = [k \in Keys |-> IF k \in sweep.keys THEN NoEntry ELSE db[k]]
      /\ UNCHANGED <<now, call, ret>> /\ sweep.keys \in SUBSET Keys
  BY Zenon DEF SweepCommit, Inv, Typed
<1>2. \A k \in Keys : LiveMap'[k] = IF k \in sweep.keys THEN NoEntry ELSE LiveMap[k]
  BY <1>1, Zenon DEF LiveMap, Live, Has
<1>3. LiveMap' = [k \in Keys |-> LiveMap'[k]]
  BY Zenon DEF LiveMap
<1>4. PendingSets' = PendingSets
  BY <1>1, Zenon DEF PendingSets
<1> QED  BY <1>1, <1>2, <1>3, <1>4, Zenon

\* A sweep that no call overlaps deletes nothing that a caller still sees.
LEMMA SweepView ==
  ASSUME Inv, serial, SweepCommit
  PROVE  UNCHANGED StoreView!vars
<1>1. \A k \in sweep.keys : k \in Keys /\ ~Live(k)
  BY Zenon DEF Inv, Typed, SweepCurrent, SweepCommit, Expired, Live
<1>2. \A k \in sweep.keys : LiveMap[k] = NoEntry
  BY <1>1, PresentLive, Zenon DEF Inv
<1>3. LiveMap = [k \in Keys |-> LiveMap[k]]
  BY Zenon DEF LiveMap
<1>4. LiveMap' = LiveMap
  BY <1>2, <1>3, SweepLiveMap, Zenon
<1> QED  BY <1>4, SweepLiveMap, Zenon DEF StoreView!vars

\* Time passes.
LEMMA TickView ==
  ASSUME Inv, Tick
  PROVE  StoreView!Tick
<1>1. Typed /\ now \in Nat /\ now' = now + 1 /\ UNCHANGED <<db, call, ret>>
  BY Zenon DEF Tick, Inv, Typed
<1>2. PendingSets' = PendingSets
  BY <1>1, Zenon DEF PendingSets
<1>3. ASSUME NEW k \in Keys
      PROVE  LiveMap'[k] = IF StoreView!Present(k) /\ StoreView!IsExpired(LiveMap[k], now + 1)
                           THEN NoEntry ELSE LiveMap[k]
  <2>1. LiveMap'[k] = IF Has(k) /\ ~IsExpired(db[k], now + 1) THEN db[k] ELSE NoEntry
    BY <1>1, Zenon DEF LiveMap, Live, Has
  <2>2. Has(k) => db[k] \in Item
    BY <1>1, Zenon DEF Has, Typed, Databases
  <2>3. CASE Live(k)
    BY <1>1, <2>1, <2>3, PresentLive, SameOperators, Zenon DEF Live
  <2>4. CASE ~Live(k)
    <3>1. ~(Has(k) /\ ~IsExpired(db[k], now + 1))
      BY <1>1, <2>2, <2>4 DEF Live, IsExpired, Item
    <3> QED  BY <1>1, <2>1, <2>4, <3>1, PresentLive, Zenon
  <2> QED  BY <2>3, <2>4, Zenon
<1>4. LiveMap' = [k \in Keys |->
                    IF StoreView!Present(k) /\ StoreView!IsExpired(LiveMap[k], now + 1)
                    THEN NoEntry ELSE LiveMap[k]]
  <2>1. LiveMap' = [k \in Keys |-> LiveMap'[k]]
    BY Zenon DEF LiveMap
  <2> QED  BY <1>3, <2>1, Zenon
<1> QED  BY <1>1, <1>2, <1>4, Zenon DEF StoreView!Tick

\* The steps that delete, or write back, on the strength of an earlier look.
Stale == SweepCommit \/ \E c \in Clients : Drop(c) \/ IncrWrite(c)

\* All other steps implement the interface, whatever they overlap with.
LEMMA StepView ==
  ASSUME Inv, [Next]_vars
  PROVE  Restart \/ Stale \/ StoreView!Next \/ UNCHANGED StoreView!vars
<1>1. CASE Tick
  BY <1>1, TickView, Zenon DEF StoreView!Next
<1>2. CASE Flush \/ SweepStart \/ SweepScan \/ UNCHANGED vars
  <2>1. UNCHANGED <<db, call, now, ret>>
    BY <1>2, Zenon DEF Flush, SweepStart, SweepScan, vars
  <2>2. PendingSets' = PendingSets
    BY <2>1, Zenon DEF PendingSets
  <2> QED  BY <2>1, <2>2, LiveMapSame, Zenon DEF StoreView!vars
<1>3. CASE Restart \/ SweepCommit
  BY <1>3, Zenon DEF Stale
<1>4. ASSUME NEW c \in Clients,
             \/ Drop(c) \/ SetEncode(c) \/ SetWrite(c) \/ DeleteWrite(c)
             \/ IncrProbe(c) \/ IncrWrite(c)
      PROVE  Stale \/ StoreView!Next \/ UNCHANGED StoreView!vars
  <2>1. Drop(c) \/ IncrWrite(c) => Stale
    BY Zenon DEF Stale
  <2>2. SetEncode(c) => StoreView!Next
    BY SetEncodeView, SameOperators, Zenon DEF StoreView!Next
  <2>3. SetWrite(c) => StoreView!Next
    BY SetWriteView, Zenon DEF StoreView!Next
  <2>4. DeleteWrite(c) => StoreView!Next
    BY DeleteView, Zenon DEF StoreView!Next
  <2>5. IncrProbe(c) => UNCHANGED StoreView!vars
    BY UnseenView, Zenon
  <2> QED  BY <1>4, <2>1, <2>2, <2>3, <2>4, <2>5, Zenon
<1>5. ASSUME NEW c \in Clients, NEW k \in Keys,
             Get(c, k) \/ Exists(c, k) \/ TTL(c, k) \/ DeleteCall(c, k)
      PROVE  StoreView!Next \/ UNCHANGED StoreView!vars
  <2>1. Get(c, k) \/ Exists(c, k) \/ TTL(c, k) => StoreView!Next
    BY ReadView, Zenon DEF StoreView!Next
  <2>2. DeleteCall(c, k) /\ ~Has(k) => StoreView!Next
    BY DeleteView, Zenon DEF StoreView!Next
  <2>3. DeleteCall(c, k) /\ Has(k) => UNCHANGED StoreView!vars
    BY UnseenView, Zenon
  <2> QED  BY <1>5, <2>1, <2>2, <2>3, Zenon
<1>6. ASSUME NEW c \in Clients, NEW k \in Keys, NEW v \in Value, NEW ttl \in TTLs,
             SetCall(c, k, v, ttl)
      PROVE  UNCHANGED StoreView!vars
  BY <1>6, UnseenView, Zenon
<1>7. ASSUME NEW c \in Clients, NEW k \in Keys, NEW d \in Deltas, NEW ttl \in TTLs,
             IncrRead(c, k, d, ttl)
      PROVE  StoreView!Next \/ UNCHANGED StoreView!vars
  BY <1>7, IncrReadView, Zenon DEF StoreView!Next
<1> QED  BY <1>1, <1>2, <1>3, <1>4, <1>5, <1>6, <1>7, Zenon DEF Next

\* Among calls that do not overlap the other steps do as well.
LEMMA SerialStepView ==
  ASSUME Inv, serial, Stale
  PROVE  StoreView!Next \/ UNCHANGED StoreView!vars
<1>1. ASSUME NEW c \in Clients, Drop(c) PROVE StoreView!Next \/ UNCHANGED StoreView!vars
  BY <1>1, DropView, Zenon DEF StoreView!Next
<1>2. ASSUME NEW c \in Clients, IncrWrite(c) PROVE StoreView!Next
  BY <1>2, IncrWriteView, Zenon DEF StoreView!Next
<1> QED  BY <1>1, <1>2, SweepView, Zenon DEF Stale

LEMMA InitView == Init => StoreView!Init
<1> SUFFICES ASSUME Init PROVE StoreView!Init
  OBVIOUS
<1>1. LiveMap = [k \in Keys |-> NoEntry]
  BY Zenon DEF Init, LiveMap, Live, Has
<1>2. PendingSets = [c \in Clients |-> NoEntry]
  BY Zenon DEF Init, PendingSets, Idle
<1> QED  BY <1>1, <1>2, Zenon DEF Init, StoreView!Init

\* As long as calls and sweeps do not overlap, the disk store implements the
\* interface Store between crashes: it evicts nothing, and no read, sweep,
\* Delete or Incr takes away or changes an entry the interface would keep.
THEOREM StoreRefined == Spec => ImplementsStore
<1>1. Inv /\ [Next]_vars
      => [serial => Restart \/ StoreView!Next]_(StoreView!vars)
  BY StepView, SerialStepView, Zenon
<1> QED  BY <1>1, InitView, Invariance, PTL DEF Spec, ImplementsStore

\* The two views differ in what may be dropped.
LEMMA CacheOfStore ==
  /\ StoreView!Init => CacheView!Init
  /\ StoreView!Next => CacheView!Next
  /\ UNCHANGED StoreView!vars => UNCHANGED CacheView!vars
<1>1. /\ \A k : StoreView!Present(k) <=> CacheView!Present(k)
      /\ UNCHANGED StoreView!vars => UNCHANGED CacheView!vars
      /\ StoreView!Init => CacheView!Init
  BY Zenon DEF StoreView!Present, CacheView!Present, StoreView!vars, CacheView!vars,
     StoreView!Init, CacheView!Init
<1>2. /\ StoreView!Value = CacheView!Value /\ StoreView!Counters = CacheView!Counters
      /\ StoreView!Never = CacheView!Never
      /\ \A n : StoreView!Wrap(n) = CacheView!Wrap(n)
      /\ \A t, ttl : StoreView!Deadline(t, ttl) = CacheView!Deadline(t, ttl)
      /\ \A e, t : StoreView!IsExpired(e, t) <=> CacheView!IsExpired(e, t)
      /\ \A e, t : StoreView!Remaining(e, t) = CacheView!Remaining(e, t)
      /\ \A v, t : StoreView!NewItem(v, t) = CacheView!NewItem(v, t)
  BY Zenon DEF CacheView!Value, StoreView!Value, CacheView!Counters, StoreView!Counters,
     CacheView!Never, StoreView!Never, CacheView!Wrap, StoreView!Wrap,
     CacheView!Deadline, StoreView!Deadline, CacheView!IsExpired, StoreView!IsExpired,
     CacheView!Remaining, StoreView!Remaining, CacheView!NewItem, StoreView!NewItem
<1>3. \A k, i : StoreView!Put(k, i) <=> CacheView!Put(k, i)
  BY <1>2, Zenon DEF StoreView!Put, CacheView!Put
<1>4. StoreView!Tick => CacheView!Tick
  BY <1>1, <1>2, Zenon DEF StoreView!Tick, CacheView!Tick
<1>5. \A c : StoreView!Set(c) => CacheView!Set(c)
  BY <1>2, <1>3, Zenon DEF StoreView!Set, CacheView!Set
<1>6. \A c, k, v, ttl : StoreView!BeginSet(c, k, v, ttl) => CacheView!BeginSet(c, k, v, ttl)
  BY <1>2, Zenon DEF StoreView!BeginSet, CacheView!BeginSet
<1>7. \A k : /\ StoreView!Get(k) => CacheView!Get(k)
             /\ StoreView!Delete(k) => CacheView!Delete(k)
             /\ StoreView!Expire(k) => CacheView!Expire(k)
  BY <1>1, Zenon DEF StoreView!Get, CacheView!Get, StoreView!Delete, CacheView!Delete,
     StoreView!Expire, CacheView!Expire
<1>8. \A k : StoreView!Exists(k) => CacheView!Exists(k)
  BY Zenon DEF StoreView!Exists, CacheView!Exists, StoreView!Present, CacheView!Present
<1>9. \A k : StoreView!TTL(k) => CacheView!TTL(k)
  BY <1>1, <1>2, Zenon DEF StoreView!TTL, CacheView!TTL
<1>10. \A k, d, ttl : StoreView!Incr(k, d, ttl) => CacheView!Incr(k, d, ttl)
  BY <1>1, <1>2, <1>3, ZenonT(60) DEF StoreView!Incr, CacheView!Incr
<1>11. StoreView!Next => CacheView!Next
  BY <1>2, <1>4, <1>5, <1>6, <1>7, <1>8, <1>9, <1>10, Zenon DEF StoreView!Next, CacheView!Next
<1> QED  BY <1>1, <1>11, Zenon

\* A delete that comes too late loses entries, as an eviction would.
LEMMA LossView ==
  ASSUME Inv, SweepCommit \/ \E c \in Clients : Drop(c)
  PROVE  CacheView!Next
<1>1. CASE SweepCommit
  BY <1>1, SweepLiveMap, Zenon DEF CacheView!Next, CacheView!Evict
<1>2. ASSUME NEW c \in Clients, Drop(c) PROVE CacheView!Next
  <2> DEFINE k == call[c].key
  <2>1. /\ Typed /\ call[c].pc = "drop" /\ db' = [db EXCEPT ![k] = NoEntry]
        /\ UNCHANGED <<now, ret>> /\ Goto(c, Idle)
    BY <1>2, Zenon DEF Inv, Drop
  <2>2. k \in Keys /\ call[c].pc # "write" /\ Idle.pc # "write"
    <3>1. call[c].pc # "idle" /\ call[c].pc # "write" /\ Idle.pc # "write"
      BY <2>1, Zenon DEF Idle
    <3> QED  BY <2>1, <3>1, CallShape, Zenon
  <2> HIDE DEF k
  <2>3. LiveMap' = [LiveMap EXCEPT ![k] = NoEntry]
    BY <2>1, <2>2, LiveMapChange, Zenon DEF Seen
  <2>4. PendingSets' = PendingSets
    BY <2>1, <2>2, PendingMove, Zenon
  <2>5. LiveMap = [j \in Keys |-> LiveMap[j]]
    BY Zenon DEF LiveMap
  <2>6. LiveMap' = [j \in Keys |-> IF j \in {k} THEN NoEntry ELSE LiveMap[j]]
    BY <2>3, <2>5, Zenon
  <2>7. {k} \in SUBSET Keys /\ CacheView!Evict({k})
    BY <2>1, <2>2, <2>4, <2>6, Zenon DEF CacheView!Evict
  <2> QED  BY <2>7, Zenon DEF CacheView!Next
<1> QED  BY <1>1, <1>2, Zenon

\* Whatever overlaps, the disk store implements a cache but for the write of
\* Incr: reads and sweeps that delete too late lose entries, and no step makes
\* up a value, serves an expired one or changes a deadline.
THEOREM CacheRefined == Spec => ImplementsCache
<1>1. Init => CacheView!Init
  BY InitView, CacheOfStore, Zenon
<1>2. Inv /\ [Next]_vars
      => [Restart \/ (\E c \in Clients : IncrWrite(c)) \/ CacheView!Next]_(CacheView!vars)
  BY StepView, LossView, CacheOfStore, Zenon DEF Stale
<1> QED  BY <1>1, <1>2, Invariance, PTL DEF Spec, ImplementsCache

=============================================================================
