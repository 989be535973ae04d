------------------------------ MODULE MCAgent ------------------------------
(* An instance of VxAgent for TLC: four calls on a history that starts     *)
(* with two places, so that it grows twice and a fourth call can hear what *)
(* the third left behind.                                                  *)
EXTENDS VxAgent
=============================================================================
