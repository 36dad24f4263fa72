------------------------------ MODULE Scheduler ------------------------------
(***************************************************************************)
(* The scheduling decision (orchestration/scheduler.py) and the verdict on *)
(* a run (WorkspaceController._recompute_orchestration), as functions of   *)
(* the statuses st of the plan's nodes.  The decision is taken on one      *)
(* snapshot: a node that it blocks does not count as blocked for the other *)
(* nodes of the same decision.                                             *)
(***************************************************************************)
EXTENDS Plan, OrchestrationStatus

Waiting(st) == {n \in Nodes : st[n] \in Unstarted}

\* A plausible slip: a STARTING node is not counted yet.
ActiveOnceRunning(st) == {n \in Nodes : st[n] = "running"}

Active(st) == {n \in Nodes : st[n] \in InFlight}

Doomed(st) == {n \in Waiting(st) : \E d \in Deps[n] : st[d] \in DeadEnd}

\* A plausible slip: one finished dependency is enough.
StartableOnAnyDep(st) ==
  {n \in Waiting(st) \ Doomed(st) :
     Deps[n] = {} \/ \E d \in Deps[n] : st[d] = "succeeded"}

Startable(st) ==
  {n \in Waiting(st) \ Doomed(st) : \A d \in Deps[n] : st[d] = "succeeded"}

\* A plausible slip: capacity + 1 nodes are taken from the list.
ChosenOffByOne(st, paused) ==
  IF paused THEN {}
  ELSE {n \in Startable(st) :
          Cardinality({m \in Startable(st) : m < n}) + Cardinality(Active(st))
            <= MaxParallelism}

\* A plausible slip: the paused flag is not looked at.
ChosenThoughPaused(st, paused) ==
  {n \in Startable(st) :
     Cardinality({m \in Startable(st) : m < n}) + Cardinality(Active(st))
       < MaxParallelism}

\* The first startable nodes, in id order, that the free capacity allows.
Chosen(st, paused) ==
  IF paused THEN {}
  ELSE {n \in Startable(st) :
          Cardinality({m \in Startable(st) : m < n}) + Cardinality(Active(st))
            < MaxParallelism}

\* A plausible slip: the run is given the status of its nodes.
OutcomeOfNodes(st) ==
  IF \A n \in Nodes : st[n] = "succeeded" THEN "succeeded"
  ELSE IF \E n \in Nodes : st[n] \in {"failed", "blocked"} THEN "failed" ELSE "cancelled"

Outcome(st) ==
  IF \A n \in Nodes : st[n] = "succeeded" THEN "completed"
  ELSE IF \E n \in Nodes : st[n] \in {"failed", "blocked"}
  THEN IF \E n \in Nodes : st[n] = "succeeded" THEN "partial" ELSE "failed"
  ELSE "cancelled"

\* A plausible slip: a run whose last node is cancelled is not looked at again.
RecomputedWithoutCancelled(r, st) ==
  IF r \notin RunEnd /\ \A n \in Nodes : st[n] \in NodeEnd \ {"cancelled"}
  THEN Outcome(st) ELSE r

\* A plausible slip: the run is settled as soon as nothing is in flight.
RecomputedWhenIdle(r, st) ==
  IF r \notin RunEnd /\ Active(st) = {} THEN Outcome(st) ELSE r

\* A plausible slip: a run that has ended is judged again.
RecomputedAgain(r, st) ==
  IF \A n \in Nodes : st[n] \in NodeEnd THEN Outcome(st) ELSE r

\* The run's status after _recompute_orchestration: a run that ended keeps its
\* status, a run with an unfinished node keeps it too, any other is settled
\* (by transition_to, or by plain assignment where that raises).
Recomputed(r, st) ==
  IF r \notin RunEnd /\ \A n \in Nodes : st[n] \in NodeEnd
  THEN Outcome(st) ELSE r
=============================================================================
