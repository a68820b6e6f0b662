--------------------------- MODULE MCMemoryStore ---------------------------
(***************************************************************************)
(* Instances of MemoryStore for TLC.  Sizes are in small units: a key is   *)
(* one unit long, the overhead of an entry one unit, a counter one unit    *)
(* and a big blob five, so that with a limit of six a shard holds two      *)
(* counters and a big value does not fit even alone.                       *)
(***************************************************************************)
EXTENDS MemoryStore, TLC

CONSTANTS k1, k2, k3, c1, c2, big

MCKeyLen == [k \in Keys |-> 1]
MCValueLen == [v \in Value |-> IF v = big THEN 5 ELSE 1]
OneShard == [k \in Keys |-> 1]
LastShard == [k \in Keys |-> NumShards]

\* Keys and goroutines that play the same part (one shard, equal lengths).
Interchangeable == Permutations(Keys) \cup Permutations(Clients)
=============================================================================
