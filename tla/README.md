# A verification project for Mint Codex Desktop

Mint Codex Desktop (`src/src/mint_codex`, PySide6) is a desktop client of `codex
app-server`. Besides an ordinary chat Thread in a Project's main workspace it runs
*AgentTasks*, each with its own Git worktree, branch and Thread, and supervises
*Orchestration Runs*: plans (a DAG of nodes) whose nodes are worker AgentTasks, started
by a scheduler as their dependencies succeed. These TLA+ modules model the supervision
of a run, the AgentTasks themselves, the workspace with its main Thread, the life of the
app-server process under them, and the Git view beside them.

## Inventory

| component | source | state | operations | what makes it correct |
| --- | --- | --- | --- | --- |
| Status machines | `models/orchestration.py`, `models/agent_task.py` | status of run, node, task | `transition_to` (raises `ValueError`), `_set_task_status` (overrides) | an end is final; run, node and task agree |
| Plan | `orchestration/plan.py` | none | parse, validate, cycle check | an accepted plan is a DAG over its own nodes |
| Scheduler | `orchestration/scheduler.py` | none | `decide` | dependencies first, bounded parallelism, a paused run starts nothing |
| Supervision | `workspace/controller.py` 184-401, 907-1264 | runs, nodes, planner tasks | create, set plan, validate, approve, start, pause, resume, cancel; schedule, start node, sync, recompute | every node ends with a verdict its task gave; the run ends, and with the right status |
| AgentTasks | `workspace/controller.py` 485-702, 799-905, 1251-1685 | tasks, runtimes, pending starts and recoveries | create, start, cancel, send, clean up, restart; replies, notifications and approval requests of the App Server | one Thread and one turn at a time per task, the shared limit, cancel is final, no worktree removed under a turn |
| Registry | `workspace/registry.py` | SQLite file | upserts, one transaction each | after a crash at any point what is read back is consistent |
| Worktrees | `workspace/worktrees.py` | Git worktrees and branches | create, inspect, cleanup | nothing dirty is deleted |
| Workspace | `workspace/controller.py` 403-521, 704-865, 1664-1748; `workspace/state.py` | active Project and context, Thread history | activate, new Thread, remove Project | a Thread belongs to the Project whose cwd it runs in |
| Provider router | `core/provider_router.py` | current Thread, turns, approvals, busy flag, generation | send, resume, interrupt, notifications | a late reply of another Thread or workspace changes nothing |
| App Server backend | `core/backend.py`, `rpc.py`, `process.py`, `framing.py` | process, readiness, pending requests, buffer | start, stop, restart, request, feed | every request is answered once; a restart starts clean |
| Git view | `workspace/git_workspace.py` | one process, its operation, generation | set_root, refresh, diff, timeout | what is shown is of the current root |
| Terminal | `workspace/terminal.py` | PTY, pid | start, input, interrupt, stop | I/O, hardly any state |
| File access, secrets, redaction | `workspace/file_access.py`, `core/secrets.py`, `core/redaction.py` | none | checks, keyring, filters | stateless |
| Views | `ui/*`, `main.py` | widgets | call the controllers | they play the user in the models |

The parts talk by direct calls and Qt signals in one thread: the views call
`WorkspaceController` (a `ProviderRouter`), which sends JSON-RPC requests through a
backend and gets replies (callbacks), notifications and server requests back from the
event loop; everything durable goes to the registry as it happens. There is no
parallelism inside the program, and modal dialogs are opened only by user actions, so no
handler contains another event. What is hard all the same:

* **Recursion.** `_schedule_orchestration` -> `_start_orchestration_node` ->
  `start_agent_task` -> `_set_task_status` -> `_sync_orchestration_task` ->
  `_schedule_orchestration`: the inner call changes nodes and run while the outer one
  still holds the list it decided on. `cancel_orchestration_run` does the same from its
  loop.
* **Exceptions.** `transition_to` raises on a move that is not allowed; nothing on the
  way up catches it, so a raise deep in the recursion abandons every call in progress
  (the framer, or PySide, reports it and goes on with the next event).
* **Ordering.** Replies and notifications come when the user has moved on: cancelled,
  paused, cleaned up, started again.
* **Crashes.** Tasks, run and nodes are written by different transactions at different
  points of one handler; a restart has to make sense of any prefix.

`PROJECT.json` lists the hazards one by one, at their lines, with the properties that
watch them.

## Modules

| module | models |
| --- | --- |
| `OrchestrationStatus` | the transition tables, and the status a task status asks of its node |
| `Plan` | the constants of a validated plan, with their assumptions |
| `Scheduler` | `decide` and the verdict of `_recompute_orchestration`, as operators on the node statuses |
| `Orchestration` | an approved run: run, nodes, worker tasks, limit, registry, crash and restart |
| `Supervision` | the inductive invariant of `Orchestration`: what holds in the middle of any chain of calls |
| `Conditions` | what keeps a run from its three troubles, and the inductive invariants that say how |
| `PlanLedger` | the abstract record a reader of the registry may rely on; refined by `Orchestration` |
| `MCOrchestration` | the plans of the model-checking runs |
| `Backend` | one App Server backend: process, request table, framer |
| `AgentTasks`, `MCAgentTasks` | the life of the tasks over one App Server: requests, turns, approvals, cancel, cleanup, deaths |
| `Workspace`, `MCWorkspace` | the active project and root, the main Thread, the thread history, and the requests under way to several App Servers |
| `GitWorkspace` | the git process of the developer panel, and the root of what the panel shows |
| `LaunchProofs`, `SupervisionProofs`, `ConditionsProofs`, `PlanLedgerProofs`, `BackendProofs`, `AgentTasksProofs`, `WorkspaceProofs`, `GitWorkspaceProofs` | theorems and proofs |

The models overlap on purpose where the code does, each with the detail its properties
need. `Orchestration` takes a task as a status that changes and asks what that does to
the nodes in one nested handler; `AgentTasks` takes a handler as one step and asks what
the answers of the server do to the task. `Workspace` takes a task as a root only.
`Backend` shows that a request is called back once whatever happens to the process;
`AgentTasks` and `Workspace` assume just that of their bag `sent`.

### Orchestration

`run`, `node`, `result` are `run.status`, `node.status` and the `terminal_status` of
`node.result`; `task[n]` is the status of the AgentTask bound to node `n` ("none" before
`bind_task`, "missing" when `agent_task_id` names no loaded task); `worktrees`, `threads`
and `cancelReq` hold the nodes whose task has its worktree, a `thread_id`, and a runtime
with `cancel_requested`; `starts[n]` and `turns[n]` count the `thread/start` requests not
answered and the turns not completed (they can be more than one, see `one_thread`).
`resumable` holds the nodes whose task has a thread of a former session, which a view of
the task asks for with a `thread/resume` of its own, and `resumes[n]` counts the
`thread/resume` requests of starts that are not answered.
`saved` is the run as last written by `upsert_orchestration`; `task` is its own durable
copy, because every change of a task is written at once.

Call stack. The recursion above is what the properties are about, so a handler is not
one step: the variable `stack` is the chain of Python calls, each with the nodes it has
still to deal with, and each step runs the last call up to its next nested call.

| call in `stack` | code | steps |
| --- | --- | --- |
| `schedule` | `_schedule_orchestration`, 969-991 | `Schedule` |
| `starting` | its loop, 992-995, and `_start_orchestration_node` | `StartRefused`, `StartWithoutWorktree`, `StartSettled`, `StartUnusable`, `StartOverLimit`, `StartThread`, `FinishSchedule` |
| `requeue` | 1025-1029, after `start_agent_task` | `Requeue` |
| `sync` | `_sync_orchestration_task` | `Sync` |
| `sending` | `_start_agent_turn` after its status change | `BeginTurn` |
| `cancelling` | the loop of `cancel_orchestration_run` | `CancelWorker`, `CancelUnbound`, `FinishCancel` |
| `recovering` | the last loop of `_load_orchestrations` | `RecoverNode`, `FinishRecovery` |

A user command or an event of the App Server needs an empty stack (`Idle`): the event
loop. An exception is `stack' = <<>>`. A crash (`Restart`) may happen at every step, so
also between two writes of one handler. Where a step of the code writes the registry
twice in a row (`_persist_orchestration`, then the one of `_recompute_orchestration`),
the model writes once. Properties "between events" speak of `Idle` states, which include
those an exception leaves behind.

What is abstracted: RUNNING and WAITING_APPROVAL are one status ("running", as
`is_running`); CREATING and CLEANUP_PENDING last within one handler and are not seen;
prompts, result texts, metadata and planner tasks are left out; the App Server is ready
and alive, so that the branches of a start that wait for it (624-628, 1272, 1335) and the
end of its turns with the process are in `AgentTasks` and `Backend` only; a task row
whose binding a crash lost is nobody's any more and is left out; a cleanup is modelled
for tasks quiet at the server (its races belong to AgentTasks); `cancel_requested`
matters only with a runtime, which a task has from its first `thread/start` on. The
worktree of a task is on disk or not, and `Mishaps` names which failures of the outside
a run of TLC allows. `StartRefused` stands for every early return of
`create_agent_task`.

After a restart `BeginThread` on a task with a thread asks for the thread (`resumes`),
unless a view has resumed it already, which is left open: then the turn follows at once.
`Resumed` is the answer, after which the turn is sent if the task is still READY;
`ResumeRefused` an error to a start, `ViewRefused` one to a view (a task that is opened,
or recovered once the App Server is ready). An error sets the task FAILED whatever it
was (controller.py:1397), a COMPLETED one too. `OpenUnusable` is the other thing that
opening a task may do to its status: its worktree is gone or no longer usable
(497-503).

### Backend

`process` is the state of the QProcess: off, starting, or running, and then "on", "deaf"
(it has closed its input, a write has failed) or "closing" (its input was closed by
`stop`). `stopping` says that `stop` is waiting for the process, and for which caller:
QProcess delivers `started`, output, `errorOccurred` and `finished` from inside the wait
too, but no user command and no timer. `ready` and `restarting` are the flags of
`AppServerBackend`; `scheduled`, a 0 ms timer for `_complete_restart`; `nextId` and
`pending`, those of `JsonRpcClient`; `replies` counts, for every request made, the calls
of its callback; `hello` is the `initialize` request of the process that runs now,
`atServer` what that process has read and not answered, and `buffer` what the framer
holds: nothing, the first part of the response to a request, or the half line a former
process left (`Stale`). A line that begins with such a half is `Malformed`, whatever it
ends with.

`Finished` is `finished` with the `errorOccurred(Crashed)` that may come before it: both
lose the transport, and the second time there is nothing to lose. The callbacks it calls
may start the backend again (`start_agent_task`, `_resume_agent_task`): the second branch
of its last conjunct, which `restart` and its timer then meet. The two timers of one
restart are one variable, since they fire in one pass of the event loop and the second
returns early, and they fire before the event loop comes to the report of a later start.
Requests of the router and the workspace are `Call`; all of them look at `is_ready`
first. Notifications and server requests do not touch this state.

### AgentTasks

| variable | code |
| --- | --- |
| `status`, `threadId`, `activeTurn` | the row of the task, written at each change |
| `runtime` | `_agent_runtimes`: is the thread known, `cancel_requested`, `pending_approvals` |
| `starts`, `recovery` | `_pending_agent_starts`, `_pending_agent_recovery` |
| `worktree` | on disk: gone, usable, or broken (no worktree of this branch any more) |
| `backend`, `loaded`, `turns`, `nextAsk` | the App Server process: its state, the threads it knows, the turns it runs, its next request id |
| `sent` | the bag of requests that wait for their answer |

One handler is one step, since none lets another event in; what the steps interleave are
the user, the answers (in any order, and each may be an error) and the notifications of
the turns. A request has its effect at the server when it is answered, so one whose
answer a death of the server cuts off had none; a turn runs from the answer to its
`turn/start` until its `turn/completed`, and is `told` when a `turn/interrupt` names it.
The server asks for approvals only within a turn it has announced, completes no turn that
waits for one, and rejects a turn on a thread its process has not loaded. A request id is
of one process: `nextAsk` begins again with each, as the pending approvals do not.

| action | code |
| --- | --- |
| `Create`, `Activate`, `StartUnusable`, `StartOverLimit`, `StartQueued`, `Start`, `SendText`, `Cancel`, `CleanedUp`, `CleanupRefused`, `Answer` | the operations of the user, each with every early return that changes something |
| `ThreadStarted`, `Resumed`, `TurnAccepted`, `Refused` | the callbacks of the three kinds of request |
| `TurnStarted`, `TurnCompleted`, `ErrorReported`, `ApprovalAsked`, `ApprovalMissed` | the branches of `_handle_agent_notification` and `_handle_agent_server_request` that touch this state |
| `ServerRuns`, `ServerReady`, `ServerDies` | process started, `_on_backend_ready`, process gone and `fail_pending` |
| `Restart`, `CrashInCreate`, `CrashInCleanup`, `Damage` | `_load_agent_tasks` on the rows and worktrees it finds, also those of half a handler; somebody removes a worktree |

What is abstracted: one provider; items, texts and metadata; the terminal, which also
refuses a cleanup. `shared` is a history mark on turns that ran beside another of their
task, for the properties.

### Workspace

| variable | code |
| --- | --- |
| `rows`, `saved`, `savedTask`, `listed`, `last` | the registry: projects, `active_project_id`, `active_workspace_task_id`, the thread index and the last thread of each project |
| `active`, `context`, `draft` | `WorkspaceState` |
| `cwd`, `thread`, `summaries`, `busy` | the fields of `ProviderRouter` of these names |
| `pending` | `_pending_resume` |
| `ready`, `threads`, `turns` | the App Servers that are ready, all threads with their provider and directory, the turns that run |
| `sent` | the bag of requests under way; `fresh` says that a request was made in the present `_workspace_generation` |

A switch is one handler and one step, though it calls through four layers: the registry,
the state, `set_workspace_path` and the lists it asks of every ready provider. Raising the
generation is `NextGeneration`: the `fresh` of all requests is dropped, and requests for a
list or a resume, whose late answer does nothing and did nothing at the server, leave the
bag. An answer may tell the workspace of a new history, which may resume the pending
thread: `History` is that chain of calls (`_emit_history`, `_on_router_history`,
`_resume_summary`). A restart may find half a switch (`Restart`: the project is written
before the task is cleared). `AddProject` may add a project that was removed before.

What is abstracted: a thread is an identity with its maker and home, a project is its path;
approvals of the main Thread, the turns and items of a thread, labels and
`agent_status`; a project that has a task is not removed; a rename or removal is chosen
from the index, as in the sidebar.

### GitWorkspace

`op`, `untracked`, `pending`, `timer` are the fields of `GitWorkspace`; `process` is its
QProcess, by the directory it runs in and whether it was killed; `shown` and `diffShown`
are the directory whose output the two parts of the panel show. `_stop_process` kills the
process and waits 100 ms: either `_finished` runs inside that wait, or the process
lingers, and while it does QProcess ignores every `start`, so that its end is taken for
that of the operation begun meanwhile. `Left` holds what the wait in `set_root` can leave
behind. `SetProject` is `set_project` with `set_root` and `refresh`; `Refresh` stands for the
button, a finished turn and a file change; `Succeeds`, `Fails`, `FailsWithoutHead` and
`EndsUnheeded` are the branches of `_finished`; `FailsToStart` is `errorOccurred` without
`finished`. Not modelled: the parsing of the status, paths, the preview, `close`.

## Runs

`MaxManual` bounds what the user does with single tasks by hand (starts, messages, opening
a task whose worktree is unusable), `MaxRestarts` the restarts;
all other variables are bounded by the code itself (a node is bound once, a start or turn is
sent by a finite number of calls). `CHECK_DEADLOCK FALSE` in all runs but `git`: an orchestration run really
ends, a backend may stay as it is, and with the bounds used up nobody need do anything. In `Backend`, `MaxCommands` bounds the calls of
start, stop and restart (every process costs one, so all else is bounded by it) and
`MaxCalls` the requests beside the four of each start-up.

| run | instance | what it shows |
| --- | --- | --- |
| `core` | 4 nodes (three free, one on two of them), 2 in parallel, 1 AgentTask allowed, all creation and worktree mishaps | the safety of scheduling with the limit path, the nested scheduling, pauses and cancels at every moment, and `KeepsLedger`: the registry refines `PlanLedger` |
| `restart` | 2 nodes, one on the other, all mishaps, 2 actions by hand, 2 restarts, each at any step | the same over crashes, with a registry that lags behind, and with what a restart asks for again: threads to be resumed, worktrees to be found |
| `live` | 3 nodes (a join), room for every task, worktrees that turn out unusable | no node is stranded, no call is abandoned, and a running run settles |
| `blocked_chain` | a chain of 3 | violated: the third node is never blocked and the run never ends |
| `shared_limit` | 3 free nodes, 1 AgentTask allowed | violated: the refused node is stranded STARTING |
| `one_thread` | 3 free nodes, worktree creation may fail | violated: a node is started twice |
| `immutable_result` | a join, cleanup, 1 restart | violated: a delivered result changes |
| `backend` | 3 commands, 1 request more, all mishaps | each request is called back once, a restart comes to a start |
| `stale_buffer` | 2 commands, crashes and cut lines | violated: the next process's `initialize` is never called back |
| `agent_tasks` | 2 tasks (symmetric), limit 1, 1 request at a time made by the user, 1 thread, 2 turns, 1 approval, 1 death, all mishaps | cancel is final and stops the turn, cleanup removes no worktree under a turn, `active_turn_id` is live |
| `workspace` | 2 projects, 1 task, 2 providers, 1 old thread and 1 new, 2 requests under way, 1 turn, 1 death or restart | the workspace has one authority, threads and turns stay where they belong, the composer is freed |
| `git` | 3 roots | the panel shows its root, and operations and pending refreshes end |

Four nodes are the fewest with a list of two whose first start sets off a scheduling
that finds a third node, and a dependent whose dependencies are not neighbours in the
order. `restart` takes few nodes and everything that may befall them instead: a node and
its dependent, each with its task row and its node row, have a crash between any two of
their writes, the second crash may strike while the first is recovered from, and two
actions by hand start a recovered task and open or start one again. Two nodes in flight
together are in `core`, without a crash; with one, the theorems have them. Three nodes
with a join in `live` have two nodes in flight and a dependent on both. Three commands make a start, a restart, and a restart or a start
by a callback while that one is under way.

`agent_tasks` has one thread, which goes to either task, and two turns, so that the turn
of a cancelled task is overtaken by a second one; `MaxSent` bounds what the *user* asks for
beside what the answers ask for; one approval and one death already meet the next
process's request of the same id. `workspace` needs two projects and a task to be
somewhere else when an answer comes, two providers for the lists of a switch to be two,
and two requests under way to be answered out of order; one new thread is enough because
a thread carries no state of its own. `git` is unbounded: three roots are the old one,
the new one and one more, and nothing else grows.

### Properties

* `DependenciesMet`, `LaunchAfterDependencies`: the order of the plan, for the nodes
  that are in flight and at the moment of each launch.
* `LaunchOnlyWhileRunning`, `ReviewAfterRestart`: a pause, an end or a restart stops
  launches ("recover into a review-required state after restart", `src/README.md`).
* `ParallelismBound`: the bound, with outer lists still to be started.
* `OutcomeMatchesNodes`, `NoLostVerdict`, `DurableVerdicts`: run, nodes and tasks agree,
  across crashes, exceptions and late events.
* `LaunchInv`, `SupervisionInv`: the inductive invariants of the proofs, checked by TLC
  where they say most: `LaunchInv` in `restart`, for its parts about the registry,
  `SupervisionInv` in `core`, with the nested lists.
* `KeepsLedger`: `saved`, mapped by `PhaseOf`, behaves as `PlanLedger`.
* `NoStrandedNode`, `RunSettles`: nothing waits for an event that cannot come.
* `CallsReturn`: no exception of `transition_to` leaves the callers of a handler behind, with
  the rest of a list not started or a turn not sent; in `live`, for with the limit in the way
  one does.
* `OneThread`, `ResultImmutable`: what the documents promise and two of the violated runs
  refute; the theorems of `ConditionsProofs` say when they hold.
* `ExactlyOnce`, `NoneWithoutTransport`: over crashes, failed writes, restarts and late
  responses a callback is called once, and none waits for a process that is gone.
* `ReadyIsInitialized`: `is_ready` speaks of the process that runs now.
* `AnsweredUnlessCut`, `AllAnswered`: every request is called back at last, in behaviours
  where no process dies in the middle of a line; without that condition it is violated.
* `CancelledNeverCompletes`: whatever a turn reports after the user has cancelled, the task
  is not counted as completed unless it is started again.
* `CancelStopsTurn`: no turn of a cancelled task runs that was not told to stop, also one
  that was only asked for when the user cancelled.
* `CleanupSparesTurns`: "Cleanup is explicit and refuses dirty worktrees, active turns"
  (`README.md` of the repository): no cleanup takes the worktree from a turn that nobody
  told to stop.
* `ActiveTurnIsLive`: `active_turn_id`, which refuses the cleanup, is the id of a turn that
  runs or of a process that is gone; otherwise a worktree could never be cleaned up.
* `OneAuthority`: "Runtime project selection has one authority" (`README.md`), over
  switches, removals, late answers and a restart on half a switch.
* `ThreadsAtHome`: the current thread, the thread index and the thread to be restored are of
  their own project, though `_on_router_thread` labels what comes with the project that is
  active by then and `_thread_action_completed` looks at no generation.
* `RoutedHome`: a turn or an operation goes to the App Server and the directory its thread
  was made for.
* `BusyIsFreed`: the composer is off only while an answer or a turn is still to come that
  will switch it on.
* `ShowsRoot`, `OperationEnds`, `RefreshCatchesUp`: the Git panel shows the active root, and
  neither a process that never starts, lingers nor hangs keeps it from doing so.
* `RestartCompletes`: whatever happens between `restart` and its timer, a new process is
  started.

Two properties need the exception they name: after a restart a node whose task was
cleaned up (ARCHIVED tasks are not loaded) is declared FAILED, a SUCCEEDED one too, so
`DependenciesMet`, `OutcomeMatchesNodes` and `DurableVerdicts` except nodes whose task
is "missing", and `PlanLedger` has the step `Forget`. `OutcomeMatchesNodes` says nothing
of cancelled runs, whose nodes may have ended, or still end, in any way.

The properties of tasks, workspace and Git view name theirs, too; each is a place where
TLC finds the unrestricted property violated by what the code does.

* Turns of a task that had two threads or two turns at a time (`Single`, `shared`): the
  task knows only the last thread, to which alone an interrupt goes, and any
  `turn/completed` clears `active_turn_id` (controller.py:1561), so a cleanup may remove the worktree
  under the other turn.
* Tasks that were cleaned up while an answer was to come (`worktree # "gone"`): the late
  answer starts a turn, for `_agent_thread_started` looks for CANCELLED only (1329), and
  leaves an `active_turn_id` behind.
* An App Server that dies in the middle of a turn leaves `busy` set (`faults = 0` in
  `BusyIsFreed`): `_on_backend_connection` (provider_router.py:819) does not clear it; the
  facade `CodexController` does, and only tests use that one.
* A switch that finds a refresh pending (`overtaken` in `ShowsRoot`). Five steps: the panel
  is for A; git status runs; a refresh is asked for and becomes pending; the user switches
  to B, `set_root` raises the generation and kills git, and `_finished`, called inside the
  wait, makes the pending refresh, in A, for the root is set after the wait
  (git_workspace.py:162-164); the refresh for B is a `start` that QProcess ignores; what git prints
  of A is shown as the changes of B. The next refresh corrects it.

### Fairness

`live` and `blocked_chain` assume `WF(HandlerStep)`, because Qt runs a handler to its
end, and strong fairness for the answer to each request for a thread (`thread/start` or
`thread/resume`) and for the completion of each turn, because the App Server answers every request and ends every turn (the event
loop is busy again and again, hence strong). Nothing is assumed of the user, of errors
or of approvals. `live` gives every task room (`MaxRunning = 3`) and a plan without
chains, since `shared_limit` and `blocked_chain` show what happens otherwise. `FairSpec` of
`Backend` assumes weak fairness of the report of a start (`started` or a failure), of the
end of a process that `stop` has terminated and killed, of the timer, and of the answers
to the requests the process has read; nothing of commands, nor that a process which has
closed its input ends. `Spec` of `GitWorkspace` assumes that the event loop delivers a timeout
and that a killed process ends and is reported; nothing says that git itself ends.
`AgentTasks` and `Workspace` state no fairness: an App Server may leave a turn unfinished and
an approval waits for the user, so that nothing eventual is promised there.

## Proofs

Checked by TLAPS, for every plan (finite set of nodes and any `Deps`), limit, set of
mishaps and bound; the assumptions are `PlanAssumption`, `ParallelismAssumption`,
`LimitAssumption` and `BoundAssumption`, which TLC evaluates in the runs.

* `LaunchProofs`: `TypeCorrect == Spec => []TypeOK`, one lemma per group of actions; the call
  stack needs lemmas on `SubSeq` and `Append`. `LaunchInvariant == Spec => []LaunchInv`, from which `LaunchSafe`
  (`LaunchAfterDependencies`) and `LaunchControlled` (`LaunchOnlyWhileRunning`). That a
  list was right when `decide` made it says nothing of the moment a node of it is
  started, after any number of nested calls. The invariant therefore speaks of every list on the
  stack at once: SUCCEEDED is final while the desktop runs (`HeldReady`), and nothing a
  nested call does takes the run out of RUNNING while a node of a list is unstarted
  (`HeldWhileRunning`): a run only ends when no node is unstarted, and pause and cancel
  need an empty stack, or, for the walk of a cancel, the bottom of it (`AtBottom`).
  `BoundIsLaunched` and `RegistryBehind` are what a crash needs, for a restart takes
  nodes from `saved` and tasks from their own rows.
* `SupervisionProofs`: `SupervisionInvariant == Spec => []SupervisionInv`, and from it and
  the two invariants above the rest of the safety of a run: `DependenciesAreMet`
  (`DependenciesMet`), `ParallelismBounded` (`ParallelismBound`), `OutcomeIsTrue`
  (`OutcomeMatchesNodes`), `VerdictsArrive` (`NoLostVerdict`), `ReviewFirst`
  (`ReviewAfterRestart`), `VerdictsAreDurable` (`DurableVerdicts`) and the refinement
  `RegistryKeepsLedger` (`KeepsLedger`). The proof describes a step three times, by what it
  does to the stack (`Base`), to nodes and tasks (`NodeStep`, `TaskStep`) and to run and
  registry (`RunStep`), and each part of the invariant needs only those. What the
  properties lack to be inductive:
  * `ReservationsInOrder`, for the bound. Several lists are held at a time, made at
    different moments. Their unstarted nodes are reserved: active and reserved nodes
    together are within `max_parallelism`, and the reserved ones are the first of the
    startable, so that a nested decision takes the same nodes and not others. It needs
    that no node becomes startable meanwhile, `NoNewsWhileHeld`: no task completes while a
    list is held.
  * `VerdictsOnTheWay`, for the verdicts: a task that has ended while its node has not is
    being synced by the call in progress (`SyncIsTop`), or is still in the list of nodes
    to be recovered.
  * `LaunchedOnSuccess`, `ResultsKept`, `OutcomeKept` and `SavedOutcomeKept` say of memory
    and of the registry what the properties say of memory, for a restart reads the
    registry. That what was saved is still true then is `RegistryAgrees` (the registry has
    the run's status and every end of a node) and `NotFarAhead` (memory is ahead of it
    by a launch at most). These two also carry the refinement: every write of a handler is
    `Ledger!Advance`, every restart `Ledger!Forget`, everything else a stutter.
  * `RecoveryIsQuiet`, `SendsLaunched` and `MissingIsQuiet` keep the loading of a run, and
    turns asked for late, from launching or completing anything.
* `ConditionsProofs`: what three of the violated runs refute holds all the same, for every
  plan, when what they need is absent. Each theorem has a condition on the constants as its
  hypothesis; each condition has instances that TLC explores (`live` has `Room`), and is
  about the surroundings, not the code.
  * `Room`: the limit is at least the number of nodes (the model has this run only: tasks of
    others take room too). `NoneStranded` (`NoStrandedNode`, up to
    the first restart, and with an App Server that is ready and alive, as in all of
    `Orchestration`) and `EveryCallReturns` (`CallsReturn`, over restarts too), for any
    mishaps, cancels and starts by hand. Their invariant `WorkInv` says of every call in
    progress why it will return: a held node can always be failed (`HeldUnharmed`), and no
    requeue is on the stack. A node in flight is then at work (`AtWork`): its thread, its turn, or the
    call that sends its turn is still to come, or its verdict is on its way.
  * `StartsSucceed`: no worktree fails to be made or is found unusable, and the user starts
    no worker by hand. `OneThreadEach` (`OneThread`), whatever the limit. Its invariant
    `StartOnceInv` says why the nested scheduling, which takes the nodes of the outer lists
    again, starts none of them twice: it is set off only by a start that the limit has
    refused, until the requeue below that start raises the limit stays reached, and the exception
    leaves every list.
  * `TasksKept`: moreover no worktree vanishes or is cleaned up, and no `thread/resume` is
    answered with an error. `ResultsAreFinal` (`ResultImmutable`), whatever else the App
    Server answers, and over cancels, crashes and restarts. `ResultInv` adds that a task has at most one of a
    thread to come, a turn to be sent and a turn in progress, and none once it has completed
    (`OneTurn`), that only the first call in progress sends a turn (`SendsFirst`), and that
    the registry has the results that memory has (`ResultsRest`).

  None of the conditions is idle. TLC finds `NoStrandedNode` violated without `Room`
  (`shared_limit`) or after a restart; `CallsReturn` without `Room`; `OneThread` with any one
  of the mishaps "worktree" (`one_thread`) and "unusable" and of a start by hand;
  `ResultImmutable`, over a restart, with any one of "cleanup" (`immutable_result`), "lost",
  "resume", "worktree", "unusable" and starts by hand. `MCOrchestration` extends `Conditions`, so that the
  three invariants can be added to a configuration in which their condition holds; TLC agrees
  with them on plans of two and of three nodes.
* `BackendProofs`, for every number of commands and requests and every set of mishaps
  (`BackendAssumption`): `CalledBackOnce`, `NoneLeftWaiting`, `ReadyMeansInitialized` and
  `BackendTyped`, from their conjunction, which is inductive. Two lemmas about the
  table carry it: new requests (`RequestedKeeps`) and the loss of the transport
  (`TransportLostKeeps`) leave every request either pending or called back once.
* `PlanLedgerProofs`: `LedgerSafe`, what a reader of any `PlanLedger` may rely on.
* `AgentTasksProofs`, for any tasks, limit, mishaps and bounds: `CancelIsFinal`
  (`CancelledNeverCompletes`), `CancelReachesTurn` (`CancelStopsTurn`), `ActiveTurnRuns`
  (`ActiveTurnIsLive`) and `CleanupIsSafe` (`CleanupSparesTurns`), from `TasksInv`, and `TasksTyped`
  (`TypeOK`). Both
  the cancel and the cleanup look at `active_turn_id` only, so the heart of it is
  `Watched`: while a task has a worktree, a turn of it that nobody told to stop is its
  active turn, and the task is not cancelled. To keep it one needs that a task with
  requests or turns under way has a runtime as long as it has a worktree (`Held`), that
  threads and turns are of the task they are for (`ThreadsOwn`, `SentProper`, `TurnsOwn`),
  and that ids are not used twice (`Accepted`). Most steps leave threads and active turns
  alone; `QuietStep` deals with those at once, `DeadStep` with the deaths. The types need
  more than the bounds: that every request but `thread/start` is about a thread that was made
  (`SentSound`), which holds since what is started, recovered or loaded has one
  (`KnownThreads`).
* `WorkspaceProofs`, for all projects, tasks, providers, threads of earlier sessions and
  bounds (`WorkspaceAssumption`): `SingleAuthority` (`OneAuthority`), `NoThreadAstray`
  (`ThreadsAtHome`) and `NoTurnAstray` (`RoutedHome`), from `WorkspaceInv`. The three are not
  inductive on their own. An answer takes its thread from the request and its place from
  the workspace, so the invariant has to say where the requests under way were made:
  `SentHome`, every request about a thread is for its maker and home, and one whose answer
  will make a thread current (a `thread/start` of this generation, a `thread/resume`) is for the
  directory of the active project. That every step which changes the place raises the
  generation (`Outdated`) is what keeps it. `Typed` adds that threads only ever grow, so
  that a thread keeps its maker and home (`GrownHome`). `ComposerIsFreed` (`BusyIsFreed`)
  needs `ComposerInv` besides: the turn a busy composer waits for was asked for of the
  *current* Thread in this generation, or runs in it. "Some turn was asked for" would be
  kept neither by the answer, which may start it in another Thread, nor by a switch.
  `WorkspaceTyped` is `TypeOK`; it assumes that the threads of earlier sessions are within
  `MaxThreads`, which only names a bound of the runs.
* `GitWorkspaceProofs`, for any set of directories: `GitShowsRoot`, `GitOperationEnds` and
  `GitTyped`, from `GitInv`. Its strengthening is `Owned`: while an operation is in progress
  there is a root, and a process that was not killed runs in it, unless a switch found a
  refresh pending; a killed one may be of any root, and its output is never shown.

Every invariant and every action property of a passing run is now a theorem, `NoStrandedNode` and
`CallsReturn` under the condition of the run that checks them. What stays with TLC are the
properties under fairness (`RunSettles`, `RestartCompletes`, `AnsweredUnlessCut`,
`RefreshCatchesUp`): the prover handles neither fairness nor ENABLED here. `AllAnswered` and,
over chains, `RunSettles` do not hold of the code.

## Findings

The five violated runs show disagreements between the code and what its comments, tests
and documents say; `PROJECT.json` quotes both sides. In short: a chain behind a failed
node hangs the run; the shared limit strands a node instead of requeueing it; a failed
worktree creation makes a nested scheduling start another node twice; a refused cleanup
changes a delivered result at the next start-up (and so does a refused `thread/resume`
after it); half a line left by a dead process
swallows the `initialize` response of the next.

What `AgentTasks`, `Workspace` and `GitWorkspace` found is listed above, under the exceptions
their properties name.

## Plan

1. Done: status machines, scheduler, supervision, restart; `Backend`; `AgentTasks`;
   `Workspace`; `GitWorkspace`; the theorems above.
2. Done: every safety property of the passing runs, and the refinement, as theorems; the
   conditions under which the refuted ones hold.
3. `PlanLifecycle`: draft, validation, approval, planner task; `PlanGraph`: the cycle check
   against reachability, over all graphs of up to four nodes.

## Not modelled

* The draft phase of a run (`controller.py` 184-303, 1052-1109): user commands one after the
  other on a run no event touches yet, but for the planner task, whose late completion
  overwrites a plan set meanwhile (1098). `Orchestration` begins with an approved run.
* Plan parsing and validation: a pure function of one message; `Plan` states its result.
* Approvals and items of the main Thread: display and one answer each; `AgentTasks` has the
  same protocol with its races.
* Several runs at once: they share nothing but the limit on tasks, which `AgentTasks` and
  `shared_limit` have.
* Terminal, file access, secrets, redaction, views: I/O, filters and widgets with hardly any
  state, or, for the views, the user of these models.
