------------------------------ MODULE MCBroker ------------------------------
(***************************************************************************)
(* An instance of Broker for TLC.                                          *)
(***************************************************************************)
EXTENDS Broker

CONSTANTS s1, s2, p1, p2, k1, k2

\* s1 has the pattern of all keys, s2 of the first one.
MCMatches == [s \in Subs |-> IF s = s1 THEN Keys ELSE Keys \cap {k1}]
==============================================================================
