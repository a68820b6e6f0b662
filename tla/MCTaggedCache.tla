--------------------------- MODULE MCTaggedCache ---------------------------
(***************************************************************************)
(* Instances of TaggedCache for TLC: every entry takes three units, so a   *)
(* limit of four leaves room for one.                                      *)
(***************************************************************************)
EXTENDS TaggedCache, TLC

CONSTANTS k1, k2, c1, c2, t1, t2

MCKeyLen == [k \in Keys |-> 1]
MCValueLen == [v \in Value |-> 1]
OneShard == [k \in Keys |-> 1]

\* Nothing here depends on what calls return or on the values of entries,
\* which are all counters of the same length.
ButValues ==
  << [k \in Keys |-> IF Has(k) THEN items[k].expiresAt ELSE NoEntry], lru, size,
     [c \in Clients |->
        IF call[c].pc = "set" THEN <<call[c].key, call[c].expiresAt>> ELSE call[c]],
     sweep, now, index, op, callbacks, unnoticed >>

Interchangeable == Permutations(Keys) \cup Permutations(Clients) \cup Permutations(Tags)
=============================================================================
