----------------------------- MODULE PebbleStore -----------------------------
(***************************************************************************)
(* The disk store (src/store_pebble.go).  Pebble itself is external: its   *)
(* Get, Set, Delete, iterator and batch are atomic, writes made with       *)
(* NoSync reach the disk some time later and in order, and a crash loses   *)
(* those that did not.                                                     *)
(*                                                                         *)
(* No lock covers a call of the store: every access to the database is an  *)
(* action, and other goroutines get in between.  Only Incr calls exclude   *)
(* each other (PebbleStore.mu).  A call judges an entry on the tick on     *)
(* which it read it, and the clock readings of one Incr fall on the same   *)
(* tick.  count.Add goes with the database access before it: it commutes   *)
(* with everything but Len.                                                *)
(***************************************************************************)
EXTENDS Entry, FiniteSets

CONSTANTS
  Clients,    \* goroutines that may be inside a call at the same time
  Calls,      \* the calls they make
  TTLs,
  Deltas,
  MaxTime,    \* bound on the clock
  MaxSweeps,  \* bound on the rounds of the sweeper
  MaxCrashes  \* bound on the crashes

ASSUME CallsAssumption == Calls \subseteq {"Get", "Set", "Delete", "Exists", "TTL", "Incr"}
ASSUME PebbleArgumentsAssumption == TTLs \subseteq Int /\ Deltas \subseteq Int
ASSUME PebbleBoundsAssumption == {MaxTime, MaxSweeps, MaxCrashes} \subseteq Nat

VARIABLES
  db,      \* db[k]: what Pebble stores under k, or NoEntry
  disk,    \* the state of db that a crash leaves
  count,   \* PebbleStore.count
  call,    \* call[c]: where goroutine c is inside a call
  sweep,   \* where the sweeper goroutine is inside DeleteExpired
  now,
  ret,     \* what the most recent call returned
  crashes, \* how often the process has crashed
  sweeps,  \* how often the sweeper has run
  serial   \* no call and no sweep begins before the one before it has ended

bounds == <<crashes, sweeps, serial>>
vars == <<db, disk, count, call, sweep, now, ret, crashes, sweeps, serial>>

Idle == [pc |-> "idle"]

Quiet == [pc |-> "idle", at |-> 0, keys |-> {}]

Init ==
  /\ db = [k \in Keys |-> NoEntry]
  /\ disk = db
  /\ count = 0
  /\ call = [c \in Clients |-> Idle]
  /\ sweep = Quiet
  /\ now = 1
  /\ ret = <<"none">>
  /\ crashes = 0
  /\ sweeps = 0
  /\ serial \in BOOLEAN

-----------------------------------------------------------------------------
\* Reading

\* The raw bytes: the deadline in eight bytes, then the value.
encode(v, ttl) == [value |-> v, expiresAt |-> Deadline(now, ttl)]

Has(k) == db[k] # NoEntry

Expired(k) == Has(k) /\ IsExpired(db[k], now)

Live(k) == Has(k) /\ ~IsExpired(db[k], now)

\* The entries of a state of the database (countKeys).
Present(d) == {k \in Keys : d[k] # NoEntry}

AtRest == sweep.pc = "idle" /\ \A c \in Clients : call[c] = Idle

Begin(c, name) == call[c] = Idle /\ name \in Calls /\ (serial => AtRest)

Goto(c, r) == call' = [call EXCEPT ![c] = r]

\* A read that answers, and then drops the entry if it found it expired.
Read(c, k, gone, answer) ==
  /\ ret' = answer
  /\ Goto(c, IF gone THEN [pc |-> "drop", key |-> k] ELSE Idle)
  /\ UNCHANGED <<db, disk, count, sweep, now, bounds>>

Get(c, k) ==
  /\ Begin(c, "Get")
  /\ Read(c, k, Expired(k), IF Live(k) THEN <<"Hit", k, db[k].value>> ELSE <<"Miss", k>>)

\* Mutant: an entry exists while it is in the database.
Exists_Stored(c, k) ==
  /\ Begin(c, "Exists")
  /\ Read(c, k, Expired(k), <<"Exists", k, Has(k)>>)

Exists(c, k) ==
  /\ Begin(c, "Exists")
  /\ Read(c, k, Expired(k), <<"Exists", k, Live(k)>>)

\* Unlike IsExpired, TTL takes an entry for expired at its deadline already.
TTL(c, k) ==
  LET over == Has(k) /\ db[k].expiresAt # Never /\ now >= db[k].expiresAt IN
  /\ Begin(c, "TTL")
  /\ Read(c, k, over,
          <<"TTL", k, IF Has(k) /\ ~over THEN Remaining(db[k], now) ELSE 0>>)

\* Mutant: the entry goes but is still counted.
Drop_NotCounted(c) ==
  /\ call[c].pc = "drop"
  /\ db' = [db EXCEPT ![call[c].key] = NoEntry]
  /\ Goto(c, Idle)
  /\ UNCHANGED <<disk, count, sweep, now, ret, bounds>>

\* The delete of a read: whatever is there now goes.
Drop(c) ==
  /\ call[c].pc = "drop"
  /\ db' = [db EXCEPT ![call[c].key] = NoEntry]
  /\ count' = count - 1
  /\ Goto(c, Idle)
  /\ UNCHANGED <<disk, sweep, now, ret, bounds>>

-----------------------------------------------------------------------------
\* Writing

SetCall(c, k, v, ttl) ==
  /\ Begin(c, "Set")
  /\ Goto(c, [pc |-> "encode", key |-> k, value |-> v, ttl |-> ttl, exists |-> Has(k)])
  /\ UNCHANGED <<db, disk, count, sweep, now, ret, bounds>>

SetEncode(c) ==
  /\ call[c].pc = "encode"
  /\ Goto(c, [pc |-> "write", key |-> call[c].key,
              raw |-> encode(call[c].value, call[c].ttl), exists |-> call[c].exists])
  /\ UNCHANGED <<db, disk, count, sweep, now, ret, bounds>>

\* db.Set, and count.Add(1) unless the key was there when the call looked.
Write(c) ==
  /\ db' = [db EXCEPT ![call[c].key] = call[c].raw]
  /\ count' = IF call[c].exists THEN count ELSE count + 1
  /\ Goto(c, Idle)
  /\ UNCHANGED <<disk, sweep, now, bounds>>

SetWrite(c) ==
  /\ call[c].pc = "write"
  /\ Write(c)
  /\ UNCHANGED ret

\* The probe of Delete does not look at the deadline.
DeleteCall(c, k) ==
  /\ Begin(c, "Delete")
  /\ IF Has(k)
     THEN Goto(c, [pc |-> "delete", key |-> k]) /\ UNCHANGED ret
     ELSE ret' = <<"Delete", k, FALSE>> /\ UNCHANGED call
  /\ UNCHANGED <<db, disk, count, sweep, now, bounds>>

DeleteWrite(c) ==
  /\ call[c].pc = "delete"
  /\ db' = [db EXCEPT ![call[c].key] = NoEntry]
  /\ count' = count - 1
  /\ ret' = <<"Delete", call[c].key, TRUE>>
  /\ Goto(c, Idle)
  /\ UNCHANGED <<disk, sweep, now, bounds>>

-----------------------------------------------------------------------------
\* Incr

IncrRunning == \E c \in Clients : call[c].pc \in {"incrProbe", "incrWrite"}

\* What is left of the TTL of a live counter; none at the deadline itself.
KeptTTL(e) == IF e.expiresAt # Never /\ e.expiresAt > now THEN e.expiresAt - now ELSE 0

\* The mutex is taken and the counter read.  An expired one is uncounted.
IncrRead(c, k, d, ttl) ==
  /\ Begin(c, "Incr") /\ ~IncrRunning
  /\ LET old  == IF Live(k) THEN db[k].value ELSE 0
         kept == IF Live(k) THEN KeptTTL(db[k]) ELSE ttl
     IN  IF old \in Counters
         THEN /\ Goto(c, [pc |-> "incrProbe", key |-> k, raw |-> encode(Wrap(old + d), kept)])
              /\ UNCHANGED ret
         ELSE ret' = <<"IncrError", k>> /\ UNCHANGED call
  /\ count' = IF Expired(k) THEN count - 1 ELSE count
  /\ UNCHANGED <<db, disk, sweep, now, bounds>>

IncrProbe(c) ==
  /\ call[c].pc = "incrProbe"
  /\ Goto(c, [pc |-> "incrWrite", key |-> call[c].key, raw |-> call[c].raw,
              exists |-> Has(call[c].key)])
  /\ UNCHANGED <<db, disk, count, sweep, now, ret, bounds>>

IncrWrite(c) ==
  /\ call[c].pc = "incrWrite"
  /\ Write(c)
  /\ ret' = <<"Incr", call[c].key, call[c].raw.value>>

-----------------------------------------------------------------------------
\* The sweeper, the disk and the clock

SweepStart ==
  /\ sweep.pc = "idle" /\ sweeps < MaxSweeps /\ (serial => AtRest)
  /\ sweep' = [Quiet EXCEPT !.pc = "scan", !.at = now]
  /\ sweeps' = sweeps + 1
  /\ UNCHANGED <<db, disk, count, call, now, ret, crashes, serial>>

\* Mutant: an entry goes at its deadline already.
SweepScan_AtDeadline ==
  LET expired == {k \in Present(db) : IsExpired(db[k], sweep.at + 1)} IN
  /\ sweep.pc = "scan"
  /\ sweep' = IF expired = {} THEN Quiet
              ELSE [sweep EXCEPT !.pc = "commit", !.keys = expired]
  /\ UNCHANGED <<db, disk, count, call, now, ret, bounds>>

\* The iterator reads a snapshot of the database.
SweepScan ==
  LET expired == {k \in Present(db) : IsExpired(db[k], sweep.at)} IN
  /\ sweep.pc = "scan"
  /\ sweep' = IF expired = {} THEN Quiet
              ELSE [sweep EXCEPT !.pc = "commit", !.keys = expired]
  /\ UNCHANGED <<db, disk, count, call, now, ret, bounds>>

\* The batch deletes the keys of the snapshot, all at once.
SweepCommit ==
  /\ sweep.pc = "commit"
  /\ db' = [k \in Keys |-> IF k \in sweep.keys THEN NoEntry ELSE db[k]]
  /\ count' = count - Cardinality(sweep.keys)
  /\ sweep' = Quiet
  /\ UNCHANGED <<disk, call, now, ret, bounds>>

\* What is on disk matters only as long as a crash may come.
Flush ==
  /\ disk # db /\ crashes < MaxCrashes
  /\ disk' = db
  /\ UNCHANGED <<db, count, call, sweep, now, ret, bounds>>

\* The process dies and NewPebbleStore opens the database again.
Restart ==
  /\ crashes < MaxCrashes
  /\ crashes' = crashes + 1
  /\ db' = disk
  /\ count' = Cardinality(Present(disk))
  /\ call' = [c \in Clients |-> Idle]
  /\ sweep' = Quiet
  /\ UNCHANGED <<disk, now, ret, sweeps, serial>>

Tick ==
  /\ now < MaxTime /\ ~IncrRunning
  /\ now' = now + 1
  /\ UNCHANGED <<db, disk, count, call, sweep, ret, bounds>>

Next ==
  \/ Tick \/ Flush \/ Restart
  \/ SweepStart \/ SweepScan \/ SweepCommit
  \/ \E c \in Clients :
       \/ Drop(c)
       \/ SetEncode(c) \/ SetWrite(c)
       \/ DeleteWrite(c)
       \/ IncrProbe(c) \/ IncrWrite(c)
  \/ \E c \in Clients, k \in Keys :
       \/ Get(c, k) \/ Exists(c, k) \/ TTL(c, k) \/ DeleteCall(c, k)
       \/ \E v \in Value, ttl \in TTLs : SetCall(c, k, v, ttl)
       \/ \E d \in Deltas, ttl \in TTLs : IncrRead(c, k, d, ttl)

Spec == Init /\ [][Next]_vars

-----------------------------------------------------------------------------
\* Properties

\* How far Len is off.
Drift == count - Cardinality(Present(db))

\* "Check if key already exists to keep count accurate" (Set): while calls
\* do not overlap no call, sweep or restart makes Len wrong, but for one: Incr
\* takes an expired counter off the count and does not put it back when it
\* writes the new one.
CountFollowsData ==
  [][serial /\ Drift' # Drift =>
       \/ Drift' = 0
       \/ \E c \in Clients, k \in Keys, d \in Deltas, ttl \in TTLs :
            Expired(k) /\ IncrRead(c, k, d, ttl)]_vars

LiveMap == [k \in Keys |-> IF Live(k) THEN db[k] ELSE NoEntry]

PendingSets ==
  [c \in Clients |->
     IF call[c].pc = "write"
     THEN [key |-> call[c].key, value |-> call[c].raw.value,
           expiresAt |-> call[c].raw.expiresAt]
     ELSE NoEntry]

StoreView == INSTANCE Store WITH map <- LiveMap, pending <- PendingSets, Evictions <- {}

\* As long as calls and sweeps do not overlap, PebbleStore implements the
\* Store interface: no expired value is served, and nothing is lost but by a
\* crash, after which the store goes on from what was on disk.
ImplementsStore ==
  StoreView!Init /\ [][serial => Restart \/ StoreView!Next]_(StoreView!vars)

CacheView == INSTANCE Store WITH map <- LiveMap, pending <- PendingSets,
                                 Evictions <- SUBSET Keys

\* With the deletes of reads and of the sweeper racing the writes, the store
\* still implements a cache: live entries may be lost, but a call never sees
\* an expired value, a value nobody stored or a wrong deadline.  The exception
\* is the write of Incr, whose mutex keeps out other Incr calls only: what it
\* writes counts on from a value that a Set or a Delete may have replaced.
ImplementsCache ==
  /\ CacheView!Init
  /\ [][Restart \/ (\E c \in Clients : IncrWrite(c)) \/ CacheView!Next]_(CacheView!vars)
==============================================================================
