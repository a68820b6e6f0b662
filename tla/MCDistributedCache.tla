------------------------- MODULE MCDistributedCache -------------------------
(***************************************************************************)
(* An instance of DistributedCache for TLC.                                *)
(***************************************************************************)
EXTENDS DistributedCache, TLC

CONSTANTS n1, n2, a1, b1, b2

\* The key belongs to the first node while that is in the ring.
MCOwnerOf(S) == IF n1 \in S THEN n1 ELSE CHOOSE n \in S : TRUE

\* One client runs on the owner, two on the other node.
MCHome == [x \in Clients |-> IF x = a1 THEN n1 ELSE n2]

Symmetry == Permutations({b1, b2})
=============================================================================
