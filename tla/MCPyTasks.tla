----------------------------- MODULE MCPyTasks -----------------------------
(* Instances of PyTasks for TLC: two tasks and main.                       *)
EXTENDS PyTasks
=============================================================================
