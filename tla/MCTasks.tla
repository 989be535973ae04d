------------------------------ MODULE MCTasks ------------------------------
(* Instances of VxTasks for TLC: two tasks, so that a task can be waited   *)
(* for by the other, by main and by tasks_finish.                          *)
EXTENDS VxTasks, TLC

Symmetry == Permutations(Tasks)
=============================================================================
