-------------------------------- MODULE Plan --------------------------------
(***************************************************************************)
(* The validated plan of an Orchestration Run, fixed once it is approved.  *)
(***************************************************************************)
EXTENDS Integers, FiniteSets

CONSTANTS
  Nodes,           (* the node ids of the plan, numbered in their sorted order *)
  Deps,            (* Deps[n]: the dependencies of node n                      *)
  MaxParallelism   (* run.max_parallelism                                      *)

ASSUME PlanAssumption ==
  /\ Nodes \subseteq Nat /\ IsFiniteSet(Nodes) /\ Nodes # {}
  /\ Deps \in [Nodes -> SUBSET Nodes]

ASSUME ParallelismAssumption == MaxParallelism \in Nat \ {0}
=============================================================================
