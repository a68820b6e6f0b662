---------------------------- MODULE MCTransport ----------------------------
(***************************************************************************)
(* An instance of Transport for TLC.                                       *)
(***************************************************************************)
EXTENDS Transport

CONSTANTS c1, c2
=============================================================================
