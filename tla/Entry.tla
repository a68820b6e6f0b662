------------------------------- MODULE Entry -------------------------------
(***************************************************************************)
(* The cache entry of src/internal/cache/entry.go and the values an entry  *)
(* can hold (src/internal/cache/serializer.go).  Shared by the abstract    *)
(* Store and by the stores that implement it.                              *)
(*                                                                         *)
(* A serialized value is either a Blob, bytes that do not decode as an     *)
(* int64, or a counter, the encoding of an int64.  Counters keep their     *)
(* width: they wrap at +-IntLimit as int64 does at +-2^63.                 *)
(*                                                                         *)
(* Time is a natural number.  The zero time.Time, "no expiry", is Never.   *)
(***************************************************************************)
EXTENDS Integers

CONSTANTS
  Keys,           \* the keys in use
  Blobs,          \* values that are not counters
  IntLimit,       \* int64 counters range over -IntLimit .. IntLimit - 1
  KeyLen,         \* len(key)
  ValueLen,       \* len(value), of the encoded value
  EntryOverhead,  \* the fixed part of an entry's footprint (184 in the code)
  NoEntry         \* items[k] when the map has no k

Counters == -IntLimit .. IntLimit - 1

Value == Blobs \cup Counters

ASSUME IntLimitAssumption == IntLimit \in Nat \ {0}
ASSUME BlobsAssumption == Blobs \cap Counters = {}
ASSUME LenAssumption ==
  /\ KeyLen \in [Keys -> Nat]
  /\ ValueLen \in [Value -> Nat]
  /\ EntryOverhead \in Nat \ {0}

Never == 0

Entry == [value : Value, expiresAt : Nat, size : Nat \ {0}]

\* What a caller sees of an entry, and a Set that is under way.
Item == [value : Value, expiresAt : Nat]
PendingSet == [key : Keys, value : Value, expiresAt : Nat]

\* NoEntry is the nil of a map lookup and of no call under way.
ASSUME NoEntryAssumption == NoEntry \notin Entry \cup Item \cup PendingSet

\* int64 addition.
Wrap(n) == ((n + IntLimit) % (2 * IntLimit)) - IntLimit

EstimateSize(k, v) == KeyLen[k] + ValueLen[v] + EntryOverhead

\* time.Now().After(e.ExpiresAt): an entry is still valid at its deadline.
IsExpired(e, t) == e.expiresAt # Never /\ t > e.expiresAt

\* The deadline a call with this ttl computes from a clock reading t.
Deadline(t, ttl) == IF ttl > 0 THEN t + ttl ELSE Never

\* Entry.TTL for an entry that IsExpired has just let through.
Remaining(e, t) ==
  IF e.expiresAt = Never THEN -1
  ELSE IF t > e.expiresAt THEN 0 ELSE e.expiresAt - t
=============================================================================
