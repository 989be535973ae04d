------------------------------ MODULE MCUnwind ------------------------------
(* Instances of VxUnwind for TLC: the two capabilities of the machine, two *)
(* frames, and tables small enough to be full.                             *)
EXTENDS VxUnwind
=============================================================================
