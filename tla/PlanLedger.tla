----------------------------- MODULE PlanLedger -----------------------------
(***************************************************************************)
(* What the registry promises to whoever reads an Orchestration Run in it, *)
(* the desktop after a crash included: an abstract record of how far each  *)
(* node of the plan has come.  A node goes forward only, is launched only  *)
(* on finished dependencies and while the run is open, and never more than *)
(* MaxParallelism nodes are active.  The one step back is Forget.          *)
(***************************************************************************)
EXTENDS Plan

VARIABLES
  phase,   (* phase[n]: how far node n has come                              *)
  open     (* TRUE until the run has ended                                   *)

vars == <<phase, open>>

Phase == {"waiting", "active", "done", "dead"}

Forward == [waiting |-> {"waiting", "active", "dead"},
            active  |-> {"active", "done", "dead"},
            done |-> {"done"}, dead |-> {"dead"}]

Init == phase = [n \in Nodes |-> "waiting"] /\ open = TRUE

\* One handler of the desktop may record news of many nodes at once.
Advance ==
  /\ phase' \in [Nodes -> Phase]
  /\ \A n \in Nodes : phase'[n] \in Forward[phase[n]]
  /\ \A n \in Nodes : phase[n] = "waiting" /\ phase'[n] = "active" =>
       open /\ \A d \in Deps[n] : phase'[d] = "done"
  /\ Cardinality({n \in Nodes : phase'[n] = "active"}) <= MaxParallelism
  /\ open' \in {open, FALSE}

\* A restart does not find the tasks of some nodes any more (they were cleaned
\* up) and declares the nodes dead, the finished ones too.
Forget ==
  /\ phase' \in [Nodes -> Phase]
  /\ \A n \in Nodes :
       phase'[n] = phase[n] \/ (phase[n] # "waiting" /\ phase'[n] = "dead")
  /\ open' = open

Next == Advance \/ Forget

Spec == Init /\ [][Next]_vars

\* A launched node rests on dependencies that have finished, or that finished
\* and were forgotten.
LaunchedOnFinished ==
  \A n \in Nodes : phase[n] \in {"active", "done"} =>
    \A d \in Deps[n] : phase[d] \in {"done", "dead"}

\* The parallelism of the run is bounded.
ActiveBounded == Cardinality({n \in Nodes : phase[n] = "active"}) <= MaxParallelism
=============================================================================
