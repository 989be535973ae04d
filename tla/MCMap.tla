------------------------------- MODULE MCMap -------------------------------
(* An instance of VxMap for TLC: two doublings, keys that share a home     *)
(* slot, keys whose probes wrap around, and keys that part on growing.     *)
EXTENDS VxMap

MCHash == [k \in Keys |->
  CASE k = "a" -> 3 [] k = "b" -> 3 [] k = "c" -> 7 [] OTHER -> 15]
=============================================================================
