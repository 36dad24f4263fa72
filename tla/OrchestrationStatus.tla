------------------------- MODULE OrchestrationStatus -------------------------
(***************************************************************************)
(* The status machines of an Orchestration Run, of a Plan Node and of the  *)
(* AgentTask bound to a node (models/orchestration.py,                     *)
(* models/agent_task.py).  XMoves[s] is the set of statuses transition_to  *)
(* accepts from s; it also accepts s itself and raises ValueError for      *)
(* anything else.                                                          *)
(***************************************************************************)

RunStatus == {"draft", "validated", "approved", "running", "paused",
              "recovery", "completed", "partial", "cancelled", "failed"}
RunEnd == {"completed", "partial", "cancelled", "failed"}

RunMoves ==
  [ draft     |-> {"validated", "cancelled", "failed"},
    validated |-> {"draft", "approved", "cancelled"},
    approved  |-> {"running", "cancelled", "failed"},
    running   |-> {"paused", "recovery"} \cup RunEnd,
    paused    |-> {"running", "recovery", "completed", "partial", "cancelled"},
    recovery  |-> {"paused", "running"} \cup RunEnd,
    completed |-> {}, partial |-> {}, cancelled |-> {}, failed |-> {} ]

NodeStatus == {"pending", "ready", "starting", "running",
               "succeeded", "failed", "cancelled", "blocked"}
NodeEnd == {"succeeded", "failed", "cancelled", "blocked"}
DeadEnd == NodeEnd \ {"succeeded"}      \* what blocks the dependents
Unstarted == {"pending", "ready"}
InFlight == {"starting", "running"}     \* what takes a unit of parallelism

NodeMoves ==
  [ pending  |-> {"ready", "blocked", "cancelled", "failed"},
    ready    |-> {"starting", "blocked", "cancelled", "failed"},
    starting |-> {"running", "succeeded", "failed", "cancelled"},
    running  |-> {"succeeded", "failed", "cancelled"},
    succeeded |-> {}, failed |-> {}, cancelled |-> {}, blocked |-> {} ]

(***************************************************************************)
(* The statuses of a worker task, as far as the orchestration tells them   *)
(* apart: "running" stands for RUNNING and WAITING_APPROVAL (is_running),  *)
(* "none" for a node without an agent_task_id, "missing" for a node whose  *)
(* agent_task_id names no loaded task.                                     *)
(***************************************************************************)
TaskStatus == {"none", "ready", "running", "completed", "failed",
               "cancelled", "archived", "orphaned", "missing"}

\* The node status _sync_orchestration_task asks for, for the task statuses
\* that settle a node, and those of them it records in node.result.
Verdict == [completed |-> "succeeded", failed |-> "failed",
            cancelled |-> "cancelled", orphaned |-> "failed"]
Reported == {"completed", "failed", "cancelled"}

\* A plausible slip: the verdict is asked of a node that has ended, too.
SyncedStatusAgain(st, s) ==
  IF s = "running" /\ st \in {"starting", "ready"} THEN "running"
  ELSE IF s \in DOMAIN Verdict THEN Verdict[s] ELSE st

\* The status a node in status st is set to, its task being in status s.
SyncedStatus(st, s) ==
  IF s = "running" /\ st \in {"starting", "ready"} THEN "running"
  ELSE IF s \in DOMAIN Verdict /\ st \notin NodeEnd THEN Verdict[s]
  ELSE st
=============================================================================
