---------------------------- MODULE MCLockEngine ----------------------------
(***************************************************************************)
(* Instances of LockEngine for TLC.                                        *)
(***************************************************************************)
EXTENDS LockEngine

CONSTANTS k1, k2, c1, c2

\* A lease that is over at the next tick, and one that lasts two.
MCTTLs == {0, 1}
=============================================================================
