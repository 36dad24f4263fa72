---------------------------- MODULE Orchestration ----------------------------
(***************************************************************************)
(* One approved Orchestration Run of WorkspaceController: its nodes, the   *)
(* worker AgentTasks bound to them, the limit on running AgentTasks, and   *)
(* what of it is in the SQLite registry.                                   *)
(*                                                                         *)
(* The desktop is single-threaded: a Qt event (a user command, a reply or  *)
(* notification of the App Server) runs its handler to the end before the  *)
(* next one.  The handlers call each other recursively, though: scheduling *)
(* starts a task, which sets a task status, which syncs the node, which    *)
(* schedules again.  The variable stack is that chain of Python calls, its *)
(* last element the call that is running; events happen only when it is    *)
(* empty, an uncaught ValueError empties it, and the process may die at    *)
(* any of the steps.                                                       *)
(***************************************************************************)
EXTENDS Scheduler, Sequences

CONSTANTS
  MaxRunning,    (* max_running_agent_tasks, shared by every AgentTask       *)
  Mishaps,       (* which of the outside failures below may happen           *)
  MaxManual,     (* bounds what the user does with the tasks by hand          *)
  MaxRestarts    (* bounds the restarts of the desktop                       *)

(***************************************************************************)
(* "base"     the Project or the base commit is gone when the run starts   *)
(* "refused"  create_agent_task creates nothing                            *)
(* "worktree" git worktree add fails, the task is created Failed           *)
(* "unusable" the worktree is found unusable when the task is started      *)
(* "lost"     a worktree is found missing when the desktop starts          *)
(* "cleanup"  the user cleans up the worktree of a finished task           *)
(* "resume"   a thread/resume is answered with an error                    *)
(***************************************************************************)
AllMishaps == {"base", "refused", "worktree", "unusable", "lost", "cleanup", "resume"}

ASSUME LimitAssumption == MaxRunning \in Nat \ {0}
ASSUME BoundAssumption ==
  /\ Mishaps \subseteq AllMishaps
  /\ MaxManual \in Nat /\ MaxRestarts \in Nat

VARIABLES
  run,        (* run.status                                                  *)
  node,       (* node[n]: node.status                                        *)
  result,     (* result[n]: terminal_status of node.result, or "none"        *)
  saved,      (* run, nodes and results as last written to the registry      *)
  task,       (* task[n]: status of the bound task; written through to disk  *)
  worktrees,  (* nodes whose task has its worktree on disk                   *)
  threads,    (* nodes whose task has a thread_id                            *)
  starts,     (* starts[n]: thread/start requests not answered yet           *)
  turns,      (* turns[n]: turns requested and not completed                 *)
  resumable,  (* nodes whose thread is of a former session, to be resumed    *)
  resumes,    (* resumes[n]: thread/resume requests of starts, not answered  *)
  cancelReq,  (* nodes whose task runtime has cancel_requested               *)
  stack,      (* the calls in progress                                       *)
  manual,     (* what the user did by hand so far                            *)
  restarts    (* restarts so far                                             *)

runVars == <<run, node, result, saved>>
turnVars == <<threads, starts, turns, cancelReq, resumable, resumes>>
taskVars == <<task, worktrees, turnVars>>
bounds == <<manual, restarts>>
vars == <<runVars, taskVars, stack, bounds>>

-----------------------------------------------------------------------------
(* The call stack.                                                         *)

CallNames == {"schedule", "starting", "requeue", "sync", "sending", "cancelling", "recovering"}
Call(name, of) == [name |-> name, of |-> of]

Idle == stack = <<>>
Running(name) == stack # <<>> /\ stack[Len(stack)].name = name
Args == stack[Len(stack)].of
Below == SubSeq(stack, 1, Len(stack) - 1)

Least(S, n) == n \in S /\ \A m \in S : n <= m

\* The call in progress, with node n of its list dealt with.
NextOf(n) == Append(Below, Call(stack[Len(stack)].name, Args \ {n}))

\* _set_task_status wrote the task's row and goes on to _sync_orchestration_task.
ThenSync(n, below) == stack' = Append(below, Call("sync", {n}))

-----------------------------------------------------------------------------
Bound == {n \in Nodes : task[n] # "none"}
NumRunning == Cardinality({n \in Nodes : task[n] = "running"})

Snapshot == [run |-> run, node |-> node, result |-> result, bound |-> Bound]
Persist == saved' = Snapshot'

Init ==
  /\ run = "approved"
  /\ node = [n \in Nodes |-> "pending"]
  /\ result = [n \in Nodes |-> "none"]
  /\ task = [n \in Nodes |-> "none"]
  /\ worktrees = {} /\ threads = {} /\ cancelReq = {}
  /\ starts = [n \in Nodes |-> 0]
  /\ turns = [n \in Nodes |-> 0]
  /\ resumable = {}
  /\ resumes = [n \in Nodes |-> 0]
  /\ stack = <<>>
  /\ manual = 0 /\ restarts = 0
  /\ saved = Snapshot

-----------------------------------------------------------------------------
(* _sync_orchestration_task: the bound node follows its task, then the run *)
(* is scheduled again or, when it is not active, only recomputed.          *)

\* A plausible slip: a node follows its task only while the run is active.
FollowedWhileRunning(n) == IF run = "running" THEN SyncedStatus(node[n], task[n]) ELSE node[n]

\* A plausible slip: only the results of tasks that went wrong are kept.
SummaryOfFailure(n) == IF task[n] \in Reported \ {"completed"} THEN task[n] ELSE result[n]

\* The status of node n after the sync, and its result.
Followed(n) == SyncedStatus(node[n], task[n])
Summary(n) == IF task[n] \in Reported THEN task[n] ELSE result[n]

Sync ==
  /\ Running("sync")
  /\ UNCHANGED <<taskVars, bounds>>
  /\ \E n \in Args :
       IF Followed(n) = node[n] \/ Followed(n) \in NodeMoves[node[n]]
         THEN /\ node' = [node EXCEPT ![n] = Followed(n)]
              /\ result' = [result EXCEPT ![n] = Summary(n)]
              /\ IF run \in {"running", "paused"}
                   THEN stack' = Append(Below, Call("schedule", {})) /\ UNCHANGED run
                   ELSE stack' = Below /\ run' = Recomputed(run, node')
              /\ Persist
         ELSE stack' = <<>> /\ UNCHANGED runVars

-----------------------------------------------------------------------------
(* _schedule_orchestration: block and choose, start the chosen nodes one   *)
(* by one, then persist and recompute.                                     *)

Schedule ==
  /\ Running("schedule")
  /\ IF run \in {"running", "paused"}
       THEN /\ node' = [n \in Nodes |-> IF n \in Doomed(node) THEN "blocked" ELSE node[n]]
            /\ stack' = Append(Below, Call("starting", Chosen(node, run = "paused")))
       ELSE stack' = Below /\ UNCHANGED node
  /\ UNCHANGED <<run, result, saved, taskVars, bounds>>

FinishSchedule ==
  /\ Running("starting") /\ Args = {}
  /\ run' = Recomputed(run, node)
  /\ stack' = Below
  /\ UNCHANGED <<node, result, taskVars, bounds>>
  /\ Persist

(* _start_orchestration_node, for the next node n of the list.             *)

Starting(n) == Running("starting") /\ Least(Args, n)
Entered(n) == IF node[n] = "pending" THEN "ready" ELSE node[n]
Launched(n) == [node EXCEPT ![n] = IF @ \in Unstarted THEN "starting" ELSE @]

\* create_agent_task returns None, or the bound task is not loaded.
StartRefused(n) ==
  /\ Starting(n)
  /\ task[n] = "missing" \/ (task[n] = "none" /\ "refused" \in Mishaps)
  /\ IF Entered(n) = "failed" \/ "failed" \in NodeMoves[Entered(n)]
       THEN node' = [node EXCEPT ![n] = "failed"] /\ stack' = NextOf(n)
       ELSE stack' = <<>> /\ UNCHANGED node
  /\ UNCHANGED <<run, result, saved, taskVars, bounds>>

\* create_agent_task returns a task whose worktree could not be created.
StartWithoutWorktree(n) ==
  /\ Starting(n) /\ task[n] = "none" /\ "worktree" \in Mishaps
  /\ task' = [task EXCEPT ![n] = "failed"]
  /\ node' = [node EXCEPT ![n] = Entered(n)]
  /\ ThenSync(n, NextOf(n))
  /\ UNCHANGED <<run, result, saved, worktrees, turnVars, bounds>>

\* The node already has a task that start_agent_task would not start.
StartSettled(n) ==
  /\ Starting(n) /\ task[n] \notin {"none", "missing", "ready"}
  /\ IF task[n] \in DOMAIN Verdict
       THEN node' = [node EXCEPT ![n] = Entered(n)] /\ ThenSync(n, NextOf(n))
       ELSE node' = Launched(n) /\ stack' = NextOf(n)
  /\ UNCHANGED <<run, result, saved, taskVars, bounds>>

\* The node has, or now gets, a Ready task, and start_agent_task is called.
Launching(n) ==
  /\ Starting(n) /\ task[n] \in {"none", "ready"}
  /\ node' = Launched(n)
  /\ worktrees' = IF task[n] = "none" THEN worktrees \cup {n} ELSE worktrees

StartUnusable(n) ==
  /\ Launching(n) /\ "unusable" \in Mishaps
  /\ task' = [task EXCEPT ![n] = "failed"]
  /\ ThenSync(n, NextOf(n))
  /\ UNCHANGED <<run, result, saved, turnVars, bounds>>

StartOverLimit(n) ==
  /\ Launching(n) /\ NumRunning >= MaxRunning
  /\ task' = [task EXCEPT ![n] = "ready"]
  /\ ThenSync(n, Append(NextOf(n), Call("requeue", {n})))
  /\ UNCHANGED <<run, result, saved, turnVars, bounds>>

\* Once the status Ready is set again the node goes back to READY, which is no
\* move of a STARTING node: transition_to raises and every caller is left.
Requeue ==
  /\ Running("requeue")
  /\ \E n \in Args :
       IF task[n] # "ready"
         THEN stack' = Below /\ UNCHANGED node
         ELSE IF node[n] = "ready" \/ "ready" \in NodeMoves[node[n]]
         THEN stack' = Below /\ node' = [node EXCEPT ![n] = "ready"]
         ELSE stack' = <<>> /\ UNCHANGED node
  /\ UNCHANGED <<run, result, saved, taskVars, bounds>>

(***************************************************************************)
(* _begin_agent_thread on the Ready task n: without a thread it sends      *)
(* thread/start; with one of a former session, thread/resume, unless a     *)
(* view of the task has resumed it already; with one of this session it    *)
(* goes on to _start_agent_turn, which sets the task Running, with all     *)
(* that this sets off, and only then sends the turn (BeginTurn): an        *)
(* exception on the way and the turn is never sent.                        *)
(***************************************************************************)
ThenSend(n, below) ==
  stack' = Append(Append(below, Call("sending", {n})), Call("sync", {n}))

BeginThread(n, below) ==
  /\ UNCHANGED <<threads, turns, cancelReq, resumable>>
  /\ \/ /\ n \in threads
        /\ task' = [task EXCEPT ![n] = "running"]
        /\ ThenSend(n, below)
        /\ UNCHANGED <<starts, resumes>>
     \/ /\ n \notin threads
        /\ task' = [task EXCEPT ![n] = "ready"]
        /\ starts' = [starts EXCEPT ![n] = @ + 1]
        /\ stack' = below
        /\ UNCHANGED resumes
     \/ /\ n \in resumable
        /\ task' = [task EXCEPT ![n] = "ready"]
        /\ resumes' = [resumes EXCEPT ![n] = @ + 1]
        /\ stack' = below
        /\ UNCHANGED starts

BeginTurn ==
  /\ Running("sending")
  /\ \E n \in Args :
       /\ turns' = [turns EXCEPT ![n] = @ + 1]
       /\ cancelReq' = cancelReq \ {n}
  /\ stack' = Below
  /\ UNCHANGED <<runVars, task, worktrees, threads, starts, resumable, resumes, bounds>>

StartThread(n) ==
  /\ Launching(n) /\ NumRunning < MaxRunning
  /\ BeginThread(n, NextOf(n))
  /\ UNCHANGED <<run, result, saved, bounds>>

-----------------------------------------------------------------------------
(* The user's commands on the run.                                         *)

StartRun ==
  /\ Idle /\ run = "approved"
  /\ run' = "running"
  /\ stack' = <<Call("schedule", {})>>
  /\ UNCHANGED <<node, result, taskVars, bounds>>
  /\ Persist

StartRunWithoutBase ==
  /\ Idle /\ run = "approved" /\ "base" \in Mishaps
  /\ run' = "failed"
  /\ UNCHANGED <<node, result, taskVars, stack, bounds>>
  /\ Persist

PauseRun ==
  /\ Idle /\ run = "running"
  /\ run' = "paused"
  /\ UNCHANGED <<node, result, taskVars, stack, bounds>>
  /\ Persist

\* _orchestration_recovery_is_safe: every bound task is loaded and its worktree usable.
RecoverySafe == \A n \in Bound : n \in worktrees /\ task[n] \notin {"missing", "orphaned"}

ResumeRun ==
  /\ Idle /\ run \in {"paused", "recovery"} /\ RecoverySafe
  /\ run' = "running"
  /\ stack' = <<Call("schedule", {})>>
  /\ UNCHANGED <<node, result, taskVars, bounds>>
  /\ Persist

\* cancel_agent_task, up to _set_task_status.
CancelTask(n, below) ==
  /\ task' = [task EXCEPT ![n] = "cancelled"]
  /\ cancelReq' = cancelReq \cup {n}
  /\ ThenSync(n, below)

Cancellable == {"ready", "running", "failed", "orphaned"}

\* The user cancels the task of a node, itself or through the node.
CancelBound(n) ==
  /\ Idle /\ task[n] \in Cancellable
  /\ CancelTask(n, <<>>)
  /\ UNCHANGED <<runVars, worktrees, threads, starts, turns, resumable, resumes, bounds>>

CancelNode(n) ==
  /\ Idle /\ run \notin RunEnd /\ task[n] = "none" /\ node[n] \in Unstarted
  /\ node' = [node EXCEPT ![n] = "cancelled"]
  /\ stack' = <<Call("schedule", {})>>
  /\ UNCHANGED <<run, result, taskVars, bounds>>
  /\ Persist

(* cancel_orchestration_run walks over the nodes, then ends the run.       *)
CancelRun ==
  /\ Idle /\ run \notin RunEnd
  /\ stack' = <<Call("cancelling", Nodes)>>
  /\ UNCHANGED <<runVars, taskVars, bounds>>

Cancelling(n) == Running("cancelling") /\ Least(Args, n)

CancelWorker(n) ==
  /\ Cancelling(n) /\ task[n] = "running"
  /\ CancelTask(n, NextOf(n))
  /\ UNCHANGED <<runVars, worktrees, threads, starts, turns, resumable, resumes, bounds>>

CancelUnbound(n) ==
  /\ Cancelling(n) /\ task[n] # "running"
  /\ node' = [node EXCEPT ![n] = IF task[n] = "none" /\ @ \in Unstarted
                                   THEN "cancelled" ELSE @]
  /\ stack' = NextOf(n)
  /\ UNCHANGED <<run, result, saved, taskVars, bounds>>

FinishCancel ==
  /\ Running("cancelling") /\ Args = {}
  /\ UNCHANGED <<node, result, taskVars, bounds>>
  /\ IF run = "cancelled" \/ "cancelled" \in RunMoves[run]
       THEN run' = "cancelled" /\ stack' = Below /\ Persist
       ELSE stack' = <<>> /\ UNCHANGED <<run, saved>>

-----------------------------------------------------------------------------
(* The App Server's answers and notifications for the task of node n.      *)

ThreadStarted(n) ==
  /\ Idle /\ starts[n] > 0
  /\ starts' = [starts EXCEPT ![n] = @ - 1]
  /\ threads' = threads \cup {n}
  /\ task' = [task EXCEPT ![n] = IF @ = "ready" THEN "running" ELSE @]
  /\ CASE task[n] = "cancelled" -> UNCHANGED stack
       [] task[n] = "ready" -> ThenSend(n, <<>>)
       [] OTHER -> stack' = <<Call("sending", {n})>>
  /\ UNCHANGED <<runVars, worktrees, turns, cancelReq, resumable, resumes, bounds>>

\* An error, or a reply whose thread, cwd or provider is not the task's.
ThreadRefused(n) ==
  /\ Idle /\ starts[n] > 0
  /\ starts' = [starts EXCEPT ![n] = @ - 1]
  /\ task' = [task EXCEPT ![n] = "failed"]
  /\ ThenSync(n, <<>>)
  /\ UNCHANGED <<runVars, worktrees, threads, turns, cancelReq, resumable, resumes, bounds>>

\* The answer to the thread/resume of a start: the turn follows.
Resumed(n) ==
  /\ Idle /\ resumes[n] > 0
  /\ resumes' = [resumes EXCEPT ![n] = @ - 1]
  /\ IF task[n] = "ready"
       THEN task' = [task EXCEPT ![n] = "running"] /\ ThenSend(n, <<>>)
       ELSE UNCHANGED <<task, stack>>
  /\ UNCHANGED <<runVars, worktrees, threads, starts, turns, cancelReq, resumable, bounds>>

\* thread/resume fails: the task is Failed, whatever it was. Each time a view
\* opens a task with a thread of a former session it asks for the thread.
ResumeFails(n) ==
  /\ Idle /\ "resume" \in Mishaps /\ task[n] # "missing"
  /\ task' = [task EXCEPT ![n] = "failed"]
  /\ ThenSync(n, <<>>)
  /\ UNCHANGED <<runVars, worktrees, threads, starts, turns, cancelReq, resumable, bounds>>

ResumeRefused(n) ==
  ResumeFails(n) /\ resumes[n] > 0 /\ resumes' = [resumes EXCEPT ![n] = @ - 1]

ViewRefused(n) == ResumeFails(n) /\ n \in resumable /\ UNCHANGED resumes

\* turn/started, or the user's answer to an approval request.
TurnProceeds(n) ==
  /\ Idle /\ turns[n] > 0 /\ task[n] # "cancelled" /\ n \notin cancelReq
  /\ task' = [task EXCEPT ![n] = "running"]
  /\ ThenSync(n, <<>>)
  /\ UNCHANGED <<runVars, worktrees, turnVars, bounds>>

\* An approval request: WAITING_APPROVAL whatever the status was.
ApprovalAsked(n) ==
  /\ Idle /\ turns[n] > 0
  /\ task' = [task EXCEPT ![n] = "running"]
  /\ ThenSync(n, <<>>)
  /\ UNCHANGED <<runVars, worktrees, turnVars, bounds>>

TurnCompleted(n, outcome) ==
  /\ Idle /\ turns[n] > 0
  /\ turns' = [turns EXCEPT ![n] = @ - 1]
  /\ task' = [task EXCEPT ![n] = IF n \in cancelReq \/ @ = "cancelled"
                                   THEN "cancelled" ELSE outcome]
  /\ ThenSync(n, <<>>)
  /\ UNCHANGED <<runVars, worktrees, threads, starts, cancelReq, resumable, resumes, bounds>>

\* A plausible slip: the error answer to turn/start is only shown.
TurnRefusedSilently(n) ==
  /\ Idle /\ turns[n] > 0
  /\ turns' = [turns EXCEPT ![n] = @ - 1]
  /\ UNCHANGED <<runVars, task, worktrees, threads, starts, cancelReq, resumable, resumes>>
  /\ UNCHANGED <<stack, bounds>>

\* turn/start is answered with an error: there is no turn.
TurnRefused(n) ==
  /\ Idle /\ turns[n] > 0
  /\ turns' = [turns EXCEPT ![n] = @ - 1]
  /\ task' = [task EXCEPT ![n] = "failed"]
  /\ ThenSync(n, <<>>)
  /\ UNCHANGED <<runVars, worktrees, threads, starts, cancelReq, resumable, resumes, bounds>>

\* An error notification that the server will not retry.
TurnError(n) ==
  /\ Idle /\ turns[n] > 0
  /\ task' = [task EXCEPT ![n] = "failed"]
  /\ ThenSync(n, <<>>)
  /\ UNCHANGED <<runVars, worktrees, turnVars, bounds>>

-----------------------------------------------------------------------------
(* What the user does with the task of node n by hand.                     *)

Manually == Idle /\ manual < MaxManual /\ manual' = manual + 1 /\ UNCHANGED restarts

UserStart(n) ==
  /\ Manually /\ task[n] \in {"ready", "failed"} /\ n \in worktrees
  /\ NumRunning < MaxRunning
  /\ BeginThread(n, <<>>)
  /\ UNCHANGED <<runVars, worktrees>>

UserStartOverLimit(n) ==
  /\ Manually /\ task[n] \in {"ready", "failed"} /\ n \in worktrees
  /\ NumRunning >= MaxRunning
  /\ task' = [task EXCEPT ![n] = "ready"]
  /\ ThenSync(n, <<>>)
  /\ UNCHANGED <<runVars, worktrees, turnVars>>

UserStartUnusable(n) ==
  /\ Manually /\ task[n] \in {"ready", "failed"}
  /\ n \notin worktrees \/ "unusable" \in Mishaps
  /\ task' = [task EXCEPT ![n] = "failed"]
  /\ ThenSync(n, <<>>)
  /\ UNCHANGED <<runVars, worktrees, turnVars>>

\* activate_agent_task: opening a task looks at its worktree, whatever its status.
OpenUnusable(n) ==
  /\ Manually /\ task[n] # "missing"
  /\ \/ n \notin worktrees /\ task' = [task EXCEPT ![n] = "orphaned"]
     \/ n \in worktrees /\ "unusable" \in Mishaps /\ task' = [task EXCEPT ![n] = "failed"]
  /\ ThenSync(n, <<>>)
  /\ UNCHANGED <<runVars, worktrees, turnVars>>

\* send_agent_task_text: a new turn, with no look at the limit.
UserSends(n) ==
  /\ Manually /\ task[n] = "ready" /\ n \in threads
  /\ task' = [task EXCEPT ![n] = "running"]
  /\ ThenSend(n, <<>>)
  /\ UNCHANGED <<runVars, worktrees, turnVars>>

\* cleanup_agent_task of a task that is quiet at the server too.
CleanupStarts(n) ==
  /\ Idle /\ "cleanup" \in Mishaps /\ starts[n] = 0 /\ turns[n] = 0
  /\ task[n] \in {"completed", "failed", "cancelled", "orphaned"}

Cleanup(n) ==
  /\ CleanupStarts(n)
  /\ task' = [task EXCEPT ![n] = "archived"]
  /\ worktrees' = worktrees \ {n}
  /\ UNCHANGED <<runVars, turnVars, stack, bounds>>

\* The worktree is dirty: the task ends Failed, and no node is synced.
CleanupDirty(n) ==
  /\ CleanupStarts(n) /\ n \in worktrees
  /\ task' = [task EXCEPT ![n] = "failed"]
  /\ UNCHANGED <<runVars, worktrees, turnVars, stack, bounds>>

-----------------------------------------------------------------------------
(* The desktop dies, at any step of a handler, and is started again:       *)
(* _load_agent_tasks and _load_orchestrations.                             *)

\* A plausible slip: a task is bound by its name although no binding was saved.
LoadedTaskUnsaved(n, gone) ==
  IF task[n] \in {"archived", "missing"} THEN "missing"
  ELSE IF task[n] # "none" /\ (n \notin worktrees \/ n \in gone) THEN "orphaned"
  ELSE IF task[n] = "running" THEN "ready" ELSE task[n]

\* The status of the task of node n once loaded; the worktrees in gone vanished.
LoadedTask(n, gone) ==
  IF n \notin saved.bound THEN "none"
  ELSE IF task[n] \in {"archived", "missing"} THEN "missing"
  ELSE IF n \notin worktrees \/ n \in gone THEN "orphaned"
  ELSE IF task[n] = "running" THEN "ready" ELSE task[n]

\* A plausible slip: the run goes on as if nothing had happened.
LoadedRunAsSaved == saved.run

LoadedRun == IF saved.run = "running" THEN "recovery" ELSE saved.run

\* A plausible slip: a node whose worktree is gone has failed, even a finished one.
LoadedNodeOrFailed(n, s) == IF s \in {"missing", "orphaned"} THEN "failed" ELSE saved.node[n]

\* A plausible slip: a node that was at work is scheduled afresh.
LoadedNodeAfresh(n, s) ==
  IF s = "missing" THEN "failed"
  ELSE IF saved.node[n] \in InFlight THEN "pending" ELSE saved.node[n]

\* The status of node n, given the status s its task is loaded with.
LoadedNode(n, s) == IF s = "missing" THEN "failed" ELSE saved.node[n]

\* A plausible slip: only the tasks that were still at work are looked at.
SyncsActive(s) == s \in {"running", "ready"}

\* The nodes with a loaded task in status s are synced at start-up.
Syncs(s) == s \notin {"none", "missing"}

Restart ==
  /\ restarts < MaxRestarts /\ restarts' = restarts + 1
  /\ \E gone \in SUBSET (IF "lost" \in Mishaps THEN worktrees ELSE {}) :
       /\ task' = [n \in Nodes |-> LoadedTask(n, gone)]
       /\ worktrees' = (worktrees \cap saved.bound) \ gone
  /\ run' = LoadedRun
  /\ node' = [n \in Nodes |-> LoadedNode(n, task'[n])]
  /\ result' = saved.result
  /\ threads' = threads \cap saved.bound
  /\ starts' = [n \in Nodes |-> 0]
  /\ turns' = [n \in Nodes |-> 0]
  /\ cancelReq' = {}
  /\ resumable' = {n \in threads' : n \in worktrees' \/ task[n] = "running"}
  /\ resumes' = [n \in Nodes |-> 0]
  /\ stack' = <<Call("recovering", {n \in Nodes : Syncs(task'[n])})>>
  /\ UNCHANGED manual
  /\ Persist

\* _load_orchestrations syncs every bound task before the first event.
RecoverNode(n) ==
  /\ Running("recovering") /\ Least(Args, n)
  /\ ThenSync(n, NextOf(n))
  /\ UNCHANGED <<runVars, taskVars, bounds>>

FinishRecovery ==
  /\ Running("recovering") /\ Args = {}
  /\ stack' = Below
  /\ UNCHANGED <<runVars, taskVars, bounds>>

-----------------------------------------------------------------------------
\* The steps of the handler in progress.
HandlerStep ==
  \/ Sync \/ Schedule \/ FinishSchedule \/ Requeue \/ BeginTurn \/ FinishCancel \/ FinishRecovery
  \/ \E n \in Nodes :
       \/ StartRefused(n) \/ StartWithoutWorktree(n) \/ StartSettled(n)
       \/ StartUnusable(n) \/ StartOverLimit(n) \/ StartThread(n)
       \/ CancelWorker(n) \/ CancelUnbound(n) \/ RecoverNode(n)

RunCommand ==
  \/ StartRun \/ StartRunWithoutBase \/ PauseRun \/ ResumeRun \/ CancelRun
  \/ \E n \in Nodes : CancelNode(n)

ServerEvent(n) ==
  \/ ThreadStarted(n) \/ ThreadRefused(n) \/ Resumed(n) \/ ResumeRefused(n) \/ ViewRefused(n)
  \/ TurnProceeds(n) \/ ApprovalAsked(n)
  \/ \E outcome \in {"completed", "failed"} : TurnCompleted(n, outcome)
  \/ TurnRefused(n) \/ TurnError(n)

TaskCommand(n) ==
  \/ CancelBound(n) \/ UserStart(n) \/ UserStartOverLimit(n) \/ UserStartUnusable(n)
  \/ OpenUnusable(n) \/ UserSends(n) \/ Cleanup(n) \/ CleanupDirty(n)

Next ==
  \/ HandlerStep
  \/ RunCommand
  \/ \E n \in Bound : ServerEvent(n) \/ TaskCommand(n)
  \/ Restart

Spec == Init /\ [][Next]_vars

(***************************************************************************)
(* Qt runs a handler to its end, and delivers the App Server's output in   *)
(* order; the App Server answers every request and ends every turn.        *)
(***************************************************************************)
Fairness ==
  /\ WF_vars(HandlerStep)
  /\ \A n \in Nodes :
       /\ SF_vars(ThreadStarted(n) \/ ThreadRefused(n) \/ Resumed(n) \/ ResumeRefused(n))
       /\ SF_vars(\E outcome \in {"completed", "failed"} : TurnCompleted(n, outcome))

FairSpec == Spec /\ Fairness

-----------------------------------------------------------------------------
(* The abstract record of the run that the saved statuses stand for.       *)

PhaseOf(st) ==
  CASE st \in Unstarted -> "waiting" [] st \in InFlight -> "active"
    [] st = "succeeded" -> "done" [] st \in DeadEnd -> "dead"

Ledger == INSTANCE PlanLedger WITH
  phase <- [n \in Nodes |-> PhaseOf(saved.node[n])],
  open <- saved.run \notin RunEnd

-----------------------------------------------------------------------------
NodeMap == [Nodes -> NodeStatus]
ResultMap == [Nodes -> Reported \cup {"none"}]

\* The types of the variables.
TypeOK ==
  /\ run \in RunStatus
  /\ node \in NodeMap
  /\ result \in ResultMap
  /\ saved \in [run : RunStatus, node : NodeMap, result : ResultMap, bound : SUBSET Nodes]
  /\ task \in [Nodes -> TaskStatus]
  /\ worktrees \subseteq Nodes /\ threads \subseteq Nodes /\ cancelReq \subseteq Nodes
  /\ starts \in [Nodes -> Nat] /\ turns \in [Nodes -> Nat]
  /\ resumable \subseteq Nodes /\ resumes \in [Nodes -> Nat]
  /\ stack \in Seq([name : CallNames, of : SUBSET Nodes])
  /\ manual \in Nat /\ restarts \in Nat

(***************************************************************************)
(* What the two properties of launching below rest on: LaunchInv is the    *)
(* inductive invariant they are proved from.                               *)
(***************************************************************************)
\* The nodes in the lists of the starting calls of a call stack s.
HeldIn(s) == UNION {s[i].of : i \in {j \in 1 .. Len(s) : s[j].name = "starting"}}

\* A list is never overtaken: whatever the starts before it have set off, the
\* dependencies of a node in it have succeeded, and if the node is still
\* unstarted, the run is RUNNING.
HeldReady ==
  \A n \in HeldIn(stack) : \A d \in Deps[n] : node[d] = "succeeded"
HeldWhileRunning ==
  \A n \in HeldIn(stack) : node[n] \in Unstarted => run = "running"

\* A node gets its task and leaves Unstarted together, except between the
\* creation of a task without worktree and the sync that fails the node.
BoundIsLaunched ==
  \A n \in Nodes : node[n] \in Unstarted =>
    task[n] = "none" \/ (task[n] = "failed" /\ Running("sync") /\ Args = {n})

\* The registry is never ahead of the memory, and binds no unstarted node.
RegistryBehind ==
  \A n \in Nodes :
    /\ saved.node[n] \notin Unstarted => node[n] \notin Unstarted
    /\ saved.node[n] \in Unstarted => n \notin saved.bound

\* The walks over all nodes are never called by another call.
AtBottom(s) ==
  \A i \in 1 .. Len(s) : s[i].name \in {"cancelling", "recovering"} => i = 1

\* Every start that is still to come, of whatever call in progress, is in order,
\* and what a crash would leave behind is consistent with it.
LaunchInv ==
  /\ HeldReady /\ HeldWhileRunning /\ BoundIsLaunched /\ RegistryBehind
  /\ AtBottom(stack)

Launches(n) == node[n] \in Unstarted /\ node'[n] \in InFlight

\* A node is launched only when every one of its dependencies has succeeded,
\* whatever happened to the run between the scheduling decision and the launch
\* (nested scheduling, mishaps, cancels, restarts).
LaunchAfterDependencies ==
  [][\A n \in Nodes : Launches(n) => \A d \in Deps[n] : node[d] = "succeeded"]_vars

\* A node is launched only while the run is RUNNING: a pause, the review a
\* restart asks for, and the end of the run stop new scheduling (README).
LaunchOnlyWhileRunning ==
  [][\A n \in Nodes : Launches(n) => run = "running"]_vars

\* A restart never launches a node by itself: the run waits for the user's
\* review ("recover into a review-required state after restart", README).
ReviewAfterRestart ==
  [][(\E n \in Nodes : Launches(n)) => stack[1].name # "recovering"]_vars

\* A node that is in flight or has succeeded rests on dependencies that have
\* succeeded and have left a result for its prompt, unless a restart found the
\* task of the dependency archived.
DependenciesMet ==
  \A n \in Nodes : node[n] \in InFlight \cup {"succeeded"} =>
    \A d \in Deps[n] :
      (node[d] = "succeeded" /\ result[d] # "none") \/ task[d] = "missing"

\* STARTING and RUNNING nodes never exceed max_parallelism, although a nested
\* scheduling starts nodes while an outer one still holds its list.
ParallelismBound == Cardinality(Active(node)) <= MaxParallelism

\* The status a run ends with agrees with how its nodes ended.
OutcomeMatchesNodes ==
  /\ run = "completed" => \A n \in Nodes : node[n] = "succeeded" \/ task[n] = "missing"
  /\ run = "partial" =>
       /\ \A n \in Nodes : node[n] \in NodeEnd
       /\ \E n \in Nodes : node[n] \in {"failed", "blocked"}
  /\ run = "failed" =>
       \/ \A n \in Nodes : node[n] \in Unstarted \cup {"cancelled"}
       \/ \A n \in Nodes : node[n] \in DeadEnd

\* Between events no verdict of a task is lost: the node of a task that
\* completed, failed or was cancelled has ended, also when the desktop died
\* between writing the task's row and writing the node's.
NoLostVerdict ==
  Idle => \A n \in Nodes : task[n] \in Reported => node[n] \in NodeEnd

\* What the registry says of an ended node or run stays, over restarts too,
\* except for a node whose archived task is not loaded any more.
DurableVerdicts ==
  [][/\ saved.run \in RunEnd => saved'.run = saved.run
     /\ \A n \in Nodes : saved.node[n] \in NodeEnd =>
          saved'.node[n] = saved.node[n] \/ task'[n] = "missing"]_vars

\* What is in the registry behaves as PlanLedger says: the run survives a crash
\* at any step of a handler without a node going back, a launch before its
\* dependencies or after the end of the run, or one node in flight too many.
KeepsLedger == Ledger!Spec

\* Between events every node in flight has a task at work: a turn in progress,
\* or a thread/start to be answered.
NoStrandedNode ==
  Idle => \A n \in Nodes : node[n] \in InFlight =>
    \/ (task[n] = "running" /\ turns[n] > 0)
    \/ (task[n] = "ready" /\ starts[n] > 0)

\* The task prompt starts one Thread.
OneThread == \A n \in Nodes : starts[n] + (IF n \in threads THEN 1 ELSE 0) <= 1

\* The result a dependent may have received is immutable.
ResultImmutable ==
  [][\A n \in Nodes : result[n] = "completed" => result'[n] = "completed"]_vars

\* A step ends at most the call that is in progress: while the desktop runs no
\* ValueError of a status machine leaves the callers of a handler behind, and
\* what they were still to do is done.
CallsReturn == [][restarts' = restarts => Len(stack') >= Len(stack) - 1]_vars

\* A running run ends, or waits for the user.
RunSettles == run = "running" ~> run # "running"
=============================================================================
