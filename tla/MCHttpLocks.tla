---------------------------- MODULE MCHttpLocks ----------------------------
(***************************************************************************)
(* An instance of HttpLocks for TLC.                                       *)
(***************************************************************************)
EXTENDS HttpLocks

CONSTANTS k1, c1
=============================================================================
