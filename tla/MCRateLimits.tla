---------------------------- MODULE MCRateLimits ----------------------------
(***************************************************************************)
(* An instance of RateLimits for TLC.                                      *)
(***************************************************************************)
EXTENDS RateLimits

\* Two callers of one key that do not agree on its limit; one allows nothing.
MCOptions == {[limit |-> 2, window |-> 3], [limit |-> 3, window |-> 2], [limit |-> 0, window |-> 1]}
=============================================================================
