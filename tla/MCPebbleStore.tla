---------------------------- MODULE MCPebbleStore ----------------------------
(***************************************************************************)
(* An instance of PebbleStore for TLC.  Sizes play no part in this store.  *)
(***************************************************************************)
EXTENDS PebbleStore, TLC

CONSTANTS k1, c1, c2, blob

MCKeyLen == [k \in Keys |-> 1]
MCValueLen == [v \in Value |-> 1]

AllCalls == {"Get", "Set", "Delete", "Exists", "TTL", "Incr"}
AnyTTL == {-2, 0, 1}

\* Calls that overlap store a counter or a blob with a TTL and meet no crash
\* (so that it does not matter what is on disk).
Overlaps ==
  /\ crashes' = 0 /\ UNCHANGED disk
  /\ \A c \in Clients :
       call'[c].pc = "encode" => call'[c].ttl = 1 /\ call'[c].value \in {0, blob}

\* Calls that do not overlap meet a sweep or a crash, and one tick less.
Follows ==
  /\ now' < MaxTime
  /\ sweeps' = 0 \/ (crashes' = 0 /\ UNCHANGED disk)

MCNext == Next /\ IF serial THEN Follows ELSE Overlaps

MCSpec == Init /\ [][MCNext]_vars

\* Races push the counter ever further off, and only Len looks at it.
MCView == <<db, disk, IF serial THEN count ELSE 0, call, sweep, now, ret, bounds>>

Interchangeable == Permutations(Clients)
==============================================================================
