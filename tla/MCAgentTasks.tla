---------------------------- MODULE MCAgentTasks ----------------------------
(* The tasks of AgentTasks are interchangeable. *)
EXTENDS AgentTasks

Symmetry == Permutations(Tasks)
=============================================================================
