----------------------------- MODULE Supervision -----------------------------
(***************************************************************************)
(* The inductive invariant behind the safety properties of Orchestration:  *)
(* what is true of an orchestration run in the middle of any chain of      *)
(* calls, and at any point where the desktop may die.  SupervisionProofs   *)
(* shows that every step keeps it, together with TypeOK and LaunchInv.     *)
(***************************************************************************)
EXTENDS Orchestration

\* The nodes in the calls of that name on the call stack s.
NodesIn(s, name) == UNION {s[i].of : i \in {j \in 1 .. Len(s) : s[j].name = name}}

\* The desktop is still loading its runs.
Recovering == stack # <<>> /\ stack[1].name = "recovering"

-----------------------------------------------------------------------------
(* The calls in progress.                                                  *)

\* Only the call in progress syncs, and it syncs one node.
SyncIsTop ==
  /\ \A i \in 1 .. Len(stack) - 1 : stack[i].name # "sync"
  /\ Running("sync") => \E n \in Nodes : Args = {n}

\* While the runs are loaded nothing is launched, and no handler raises.
RecoveryIsQuiet ==
  Recovering =>
    /\ run # "running" /\ HeldIn(stack) = {}
    /\ NodesIn(stack, "requeue") = {} /\ NodesIn(stack, "sending") = {}

\* No task completes while a list of nodes to start is held: no dependency
\* succeeds meanwhile, and no node becomes startable.
NoNewsWhileHeld ==
  /\ \A n \in HeldIn(stack) : task[n] # "completed"
  /\ Running("sync") /\ HeldIn(stack) # {} => \A n \in Args : task[n] # "completed"

\* A turn is asked for a launched node only.
SendsLaunched == \A n \in NodesIn(stack, "sending") : node[n] \notin Unstarted

\* Nothing is heard any more of a task that was not loaded.
MissingIsQuiet ==
  \A n \in Nodes : task[n] = "missing" =>
    starts[n] = 0 /\ turns[n] = 0 /\ n \notin NodesIn(stack, "sending")

-----------------------------------------------------------------------------
(* Parallelism.                                                            *)

\* The nodes that the calls in progress are still to start.
Reserved == {n \in HeldIn(stack) : node[n] \in Unstarted}

\* Active and reserved nodes are within the bound together, and the reserved
\* ones are the first of the startable, so that a nested decision takes the
\* same ones again.
ReservationsInOrder ==
  /\ Cardinality(Active(node) \cup Reserved) <= MaxParallelism
  /\ Cardinality(Active(saved.node)) <= MaxParallelism
  /\ \A n \in Reserved, m \in Startable(node) :
       m < n /\ task[m] = "none" => m \in Reserved

-----------------------------------------------------------------------------
(* Verdicts, results, dependencies.                                        *)

\* A verdict that the node has not got yet is on its way.
VerdictsOnTheWay ==
  \A n \in Nodes : task[n] \in DOMAIN Verdict /\ node[n] \notin NodeEnd =>
    (Running("sync") /\ n \in Args) \/ n \in NodesIn(stack, "recovering")

\* A success has left a result.
ResultsKept ==
  \A n \in Nodes :
    /\ node[n] = "succeeded" => result[n] # "none"
    /\ saved.node[n] = "succeeded" => saved.result[n] # "none"

\* The dependencies of a launched node have succeeded, or were not loaded; the
\* registry, which a restart rests on, says the same.
LaunchedOnSuccess ==
  \A n \in Nodes, d \in Nodes : d \in Deps[n] =>
    /\ node[n] \in InFlight \cup {"succeeded"} =>
         node[d] = "succeeded" \/ task[d] = "missing"
    /\ saved.node[n] \in InFlight \cup {"succeeded"} =>
         saved.node[d] = "succeeded" \/ (task[d] = "missing" /\ d \in saved.bound)

-----------------------------------------------------------------------------
(* The outcome of the run.                                                 *)

Untouched ==
  \A n \in Nodes : task[n] = "none" /\ node[n] \in Unstarted \cup {"cancelled"}

SavedUntouched ==
  \A n \in Nodes : n \notin saved.bound /\ saved.node[n] \in Unstarted \cup {"cancelled"}

OutcomeKept ==
  /\ run = "approved" => Untouched /\ HeldIn(stack) = {}
  /\ run = "completed" => \A n \in Nodes : node[n] = "succeeded" \/ task[n] = "missing"
  /\ run = "partial" =>
       /\ \A n \in Nodes : node[n] \in NodeEnd
       /\ \E n \in Nodes : node[n] \in {"failed", "blocked"}
  /\ run = "failed" =>
       \/ Untouched /\ HeldIn(stack) = {}
       \/ \A n \in Nodes : node[n] \in DeadEnd

SavedOutcomeKept ==
  /\ saved.run = "approved" => SavedUntouched
  /\ saved.run = "completed" =>
       \A n \in Nodes :
         saved.node[n] = "succeeded" \/ (task[n] = "missing" /\ n \in saved.bound)
  /\ saved.run = "partial" =>
       /\ \A n \in Nodes : saved.node[n] \in NodeEnd
       /\ \E n \in Nodes : saved.node[n] \in {"failed", "blocked"}
  /\ saved.run = "failed" =>
       SavedUntouched \/ \A n \in Nodes : saved.node[n] \in DeadEnd

-----------------------------------------------------------------------------
(* The registry and the memory.                                            *)

\* The registry has the status of the run, and the end of a node, as they are.
RegistryAgrees ==
  /\ saved.run = run
  /\ \A n \in Nodes : saved.node[n] \in NodeEnd => node[n] = saved.node[n]

\* What the registry does not know yet of a node that it has as unstarted: at
\* most that it was launched, in order, and that its thread was asked for.
NotFarAhead ==
  \A n \in Nodes : saved.node[n] \in Unstarted =>
    /\ turns[n] = 0
    /\ task[n] \in {"none", "ready"} \/ (Running("sync") /\ task[n] # "completed")
    /\ n \in NodesIn(stack, "sending") => Running("sync")
    /\ node[n] # "succeeded"
    /\ node[n] \in InFlight => run = "running" /\ \A d \in Deps[n] : node[d] = "succeeded"

-----------------------------------------------------------------------------
\* The calls in progress are in order, a list they hold is within the bound, no
\* verdict or result is lost, and the registry lags behind the memory by no more
\* than a restart can make good (controller.py, the handlers of a run).
SupervisionInv ==
  /\ SyncIsTop /\ RecoveryIsQuiet /\ NoNewsWhileHeld /\ SendsLaunched /\ MissingIsQuiet
  /\ ReservationsInOrder
  /\ VerdictsOnTheWay /\ ResultsKept /\ LaunchedOnSuccess
  /\ OutcomeKept /\ SavedOutcomeKept
  /\ RegistryAgrees /\ NotFarAhead
=============================================================================
