------------------------------ MODULE MCTaskGC ------------------------------
(* Instances of VxTaskGC for TLC: three tasks, so that one can collect     *)
(* while a second sleeps in a wait for the third.                          *)
EXTENDS VxTaskGC, TLC

Symmetry == Permutations(Tasks)
=============================================================================
