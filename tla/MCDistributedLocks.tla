------------------------- MODULE MCDistributedLocks -------------------------
(***************************************************************************)
(* An instance of DistributedLocks for TLC.                                *)
(***************************************************************************)
EXTENDS DistributedLocks

CONSTANTS n1, n2, a1, b1

\* The lock belongs to the first node while that is in the ring.
MCOwnerOf(S) == IF n1 \in S THEN n1 ELSE CHOOSE n \in S : TRUE

\* A client runs on each node.
MCHome == [x \in Clients |-> IF x = a1 THEN n1 ELSE n2]
=============================================================================
