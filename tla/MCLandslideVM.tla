---------------------------- MODULE MCLandslideVM ----------------------------
(***************************************************************************)
(* LandslideVM alone, for TLC: no other node proposes, and the engine runs  *)
(* one block at a time.                                                     *)
(***************************************************************************)
EXTENDS LandslideVM

Alone == {[peers |-> FALSE, processing |-> 1]}
=============================================================================
