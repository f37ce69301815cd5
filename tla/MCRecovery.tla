----------------------------- MODULE MCRecovery -----------------------------
(***************************************************************************)
(* Model checking instance of Recovery: two heap addresses for a broker    *)
(* given as an address, one for a broker given as a name.                  *)
(***************************************************************************)
EXTENDS Recovery

CONSTANTS b1, b2

MCBlocks == {b1, b2}
MCNameBlocks == {b1}
MCSegments == {<<"CONNACK">>}
=============================================================================
