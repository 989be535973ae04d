----------------------------- MODULE MCPyAgent -----------------------------
(* Instances of PyAgent for TLC: calls that overlap in one agent and in    *)
(* different ones.                                                         *)
EXTENDS PyAgent, TLC

Symmetry == Permutations(Asks) \cup Permutations(Agents)
=============================================================================
