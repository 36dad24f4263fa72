----------------------------- MODULE Conditions -----------------------------
(***************************************************************************)
(* What keeps an orchestration run from the three troubles that it can get *)
(* into: a node left behind by a call that was abandoned or a message that *)
(* was never sent, a second thread for the same prompt, a result that      *)
(* changes.  Each needs a condition on the surroundings, and with it the   *)
(* property holds whatever else happens; the invariants below say how.     *)
(* ConditionsProofs shows that every step keeps them.                      *)
(***************************************************************************)
EXTENDS Supervision

-----------------------------------------------------------------------------
(* Enough room: max_running_agent_tasks is never what refuses a start.     *)

Room == Cardinality(Nodes) <= MaxRunning

\* No start was turned away, and a turn is sent for one task at a time.
InOrder(c) == c.name # "requeue" /\ (c.name = "sending" => \E n \in Nodes : c.of = {n})
CallsInOrder == \A i \in 1 .. Len(stack) : InOrder(stack[i])

\* A node that is still to get its task can be marked as failed.
HeldUnharmed ==
  \A n \in HeldIn(stack) : task[n] = "none" => node[n] \in Unstarted \cup {"failed"}

MissingFailed == \A n \in Nodes : task[n] = "missing" => node[n] = "failed"

\* The App Server, or a call in progress, has something to do for task n.
AtWork(n) ==
  \/ task[n] = "ready" /\ starts[n] > 0
  \/ task[n] = "running" /\ (turns[n] > 0 \/ n \in NodesIn(stack, "sending"))
  \/ task[n] \in DOMAIN Verdict

\* The calls in progress will all return, and as long as the desktop was not
\* restarted every node in flight is at work.
WorkInv ==
  /\ CallsInOrder /\ HeldUnharmed /\ MissingFailed
  /\ restarts = 0 =>
       /\ resumable = {}
       /\ \A n \in Nodes : node[n] \in InFlight => AtWork(n)

-----------------------------------------------------------------------------
(* Starts that succeed: a worktree is created when its node is started, is *)
(* usable then, and the user leaves the workers to the run.                *)

StartsSucceed == Mishaps \cap {"worktree", "unusable"} = {} /\ MaxManual = 0

Requeued == NodesIn(stack, "requeue")

\* A list is overtaken only by a start that the limit refused, and then the
\* requeue leaves every call before any task of the list is started again.
StartOnceInv ==
  /\ OneThread
  /\ \A n \in Nodes : task[n] = "none" => starts[n] = 0 /\ n \notin threads
  /\ resumable \subseteq threads /\ \A n \in Nodes : resumes[n] = 0
  /\ Requeued # {} => NumRunning >= MaxRunning
  /\ \A n \in Requeued : task[n] = "ready" /\ node[n] \notin Unstarted
  /\ \A n \in HeldIn(stack) : task[n] = "none" \/ (task[n] = "ready" /\ Requeued # {})
  /\ stack # <<>> /\ HeldIn(Below) # {} => Requeued # {}

-----------------------------------------------------------------------------
(* Tasks that stay: moreover no worktree vanishes or is cleaned up, and    *)
(* the App Server resumes every thread that it is asked for.               *)

TasksKept == StartsSucceed /\ Mishaps \cap {"lost", "cleanup", "resume"} = {}

\* A turn is sent by the first call in progress, and for one task.
SendsFirst(s) ==
  \A i \in 1 .. Len(s) : s[i].name = "sending" => i = 1 /\ \E n \in Nodes : s[i].of = {n}

\* A task has at most one of a thread to come, a turn to be sent and a turn in
\* progress, and none of them once it has completed.
TurnInOrder(n) ==
  /\ turns[n] <= 1
  /\ task[n] = "none" \/ starts[n] > 0 => turns[n] = 0 /\ n \notin NodesIn(stack, "sending")
  /\ n \in NodesIn(stack, "sending") => turns[n] = 0
  /\ task[n] = "completed" =>
       starts[n] = 0 /\ turns[n] = 0 /\ n \notin NodesIn(stack, "sending")

OneTurn == \A n \in Nodes : TurnInOrder(n)

\* A result is that of its task, and the registry has both.
ResultsRest ==
  /\ saved.result = result
  /\ \A n \in Nodes :
       /\ task[n] \notin {"none", "missing"} => n \in worktrees
       /\ n \in saved.bound => task[n] # "none"
       /\ result[n] = "completed" => task[n] = "completed" /\ n \in saved.bound

ResultInv == SendsFirst(stack) /\ OneTurn /\ ResultsRest
=============================================================================
