----------------------------- MODULE MCHashRing -----------------------------
(***************************************************************************)
(* An instance of HashRing for TLC.  Keys are their own hashes, so every   *)
(* position of the ring is looked up.                                      *)
(***************************************************************************)
EXTENDS HashRing

MCKeyHash == [k \in Keys |-> k]

\* Seven nodes of two virtual nodes; neighbours of every kind, two free hashes.
Scattered == << <<3, 9>>, <<0, 4>>, <<14, 1>>, <<6, 7>>, <<12, 2>>, <<10, 5>>, <<13, 11>> >>

\* RemoveNode tells virtual nodes apart by their hashes only.
ASSUME DistinctHashes == NoCollisions
==============================================================================
