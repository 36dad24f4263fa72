------------------------------ MODULE AgentTasks ------------------------------
(***************************************************************************)
(* The AgentTasks of WorkspaceController over one App Server: creation,    *)
(* start, the thread and its turns, approvals, cancel, cleanup of the      *)
(* worktree, and what a death of the App Server or of the desktop leaves.  *)
(*                                                                         *)
(* Every handler runs to its end before the next event, so an action is a  *)
(* whole handler; what interleaves are the user, the answers to requests,  *)
(* which the server gives in any order, and the notifications of turns.    *)
(* A request reaches the server together with its answer, and a turn runs  *)
(* there from the answer to turn/start to its turn/completed.  Orchestration *)
(* models what the same status changes set off in a run.                   *)
(***************************************************************************)
EXTENDS Integers, FiniteSets, Sequences, Bags, TLC

CONSTANTS
  Tasks,
  Limit,         (* max_running_agent_tasks                                  *)
  Mishaps,       (* which of the outside failures below may happen           *)
  MaxSent,       (* bounds the requests without an answer                    *)
  MaxThreads,    (* bounds the threads the server makes                      *)
  MaxTurns,      (* bounds the turns the server runs                         *)
  MaxAsks,       (* bounds the approval requests of one App Server process   *)
  MaxFaults      (* bounds the deaths of the App Server and of the desktop   *)

(***************************************************************************)
(* "refused"  the server answers a request with an error                   *)
(* "error"    a turn reports an error that ends it                         *)
(* "create"   the worktree cannot be created, or is created unusable       *)
(* "damaged"  somebody removes a worktree or its branch                    *)
(***************************************************************************)
ASSUME TasksAssumption ==
  /\ Limit \in Nat \ {0}
  /\ Mishaps \subseteq {"refused", "error", "create", "damaged"}
  /\ {MaxSent, MaxThreads, MaxTurns, MaxAsks, MaxFaults} \subseteq Nat

\* "new" is not created yet, "unloaded" was archived before the last restart.
Status == {"creating", "ready", "running", "waiting", "completed", "failed",
           "cancelled", "cleanup", "archived", "orphaned", "new", "unloaded"}

\* _TRANSITIONS, as far as a refused transition is not overridden by
\* _set_task_status: what may go to CLEANUP_PENDING.
Cleanable == {"completed", "failed", "cancelled", "orphaned", "cleanup"}

\* is_running
Active == {"running", "waiting"}

VARIABLES
  status,      (* status[t]                                                  *)
  threadId,    (* threadId[t]: thread_id, or 0                               *)
  activeTurn,  (* activeTurn[t]: active_turn_id, or 0                        *)
  worktree,    (* "gone", "broken" or "usable" on disk                       *)
  runtime,     (* _agent_runtimes: for some tasks [thread, cancel, asks]     *)
  starts,      (* _pending_agent_starts                                      *)
  recovery,    (* _pending_agent_recovery                                    *)
  backend,     (* "off", "starting", "running" (not initialized), "ready"    *)
  sent,        (* the bag of requests without an answer yet                  *)
  threads,     (* threads[h]: the task thread h was made for                 *)
  loaded,      (* the threads this App Server process started or resumed     *)
  turns,       (* the turns running at the server                            *)
  nextTurn,    (* the id of the next turn                                    *)
  born,        (* nextTurn when this App Server process was started          *)
  nextAsk,     (* the id of the next request of this App Server process      *)
  faults       (* deaths of the App Server and of the desktop so far         *)

rows == <<status, threadId, activeTurn>>
memory == <<runtime, starts, recovery>>
server == <<backend, sent, threads, loaded, turns, nextTurn, born, nextAsk>>
vars == <<rows, worktree, memory, server, faults>>

-----------------------------------------------------------------------------
(* Requests, runtimes and turns.                                           *)

Kinds == {"thread", "resume", "view", "turn"}
Requests == [kind : Kinds, task : Tasks, thread : 0 .. MaxThreads]

\* thread/start, thread/resume (view: restore_only) and turn/start for task t.
Request(kind, t) == [kind |-> kind, task |-> t, thread |-> threadId[t]]

Waiting(t) == {r \in BagToSet(sent) : r.task = t}

\* The requests in S are made, and those in S once request r is answered.
Send(S) == sent' = sent (+) SetToBag(S)
Reply(r, S) == sent' = (sent (-) SetToBag({r})) (+) SetToBag(S)

Fresh == [thread |-> FALSE, cancel |-> FALSE, asks |-> {}]

\* What _agent_runtimes.setdefault returns, and the table with t's set to r.
Runtime(t) == IF t \in DOMAIN runtime THEN runtime[t] ELSE Fresh
With(t, r) == [x \in DOMAIN runtime \cup {t} |-> IF x = t THEN r ELSE runtime[x]]

Cancelling(t) == status[t] = "cancelled" \/ Runtime(t).cancel

NumRunning == Cardinality({t \in Tasks : status[t] \in Active})

\* A plausible slip: cancelling answers the approvals, and the turn goes on.
ToldNothing(t, u) == turns

\* turn/interrupt for turn u of the thread the task holds now.
Told(t, u) ==
  [x \in DOMAIN turns |->
     IF x = u /\ turns[x].thread = threadId[t] /\ backend = "ready"
       THEN [turns[x] EXCEPT !.told = TRUE] ELSE turns[x]]

\* The commands that make requests keep to the bound.
Calm == BagCardinality(sent) < MaxSent

SetStatus(t, s) == status' = [status EXCEPT ![t] = s]

\* backend.start() of a backend that is not running
Woken == backend' = IF backend = "off" THEN "starting" ELSE backend
IsRunning == backend \in {"running", "ready"}

Init ==
  /\ status = [t \in Tasks |-> "new"]
  /\ threadId = [t \in Tasks |-> 0] /\ activeTurn = [t \in Tasks |-> 0]
  /\ worktree = [t \in Tasks |-> "gone"]
  /\ runtime = <<>> /\ starts = {} /\ recovery = {}
  /\ backend = "starting" /\ sent = EmptyBag
  /\ threads = <<>> /\ loaded = {} /\ turns = <<>>
  /\ nextTurn = 1 /\ born = 1 /\ nextAsk = 1
  /\ faults = 0

-----------------------------------------------------------------------------
(* Creation and start.                                                     *)

\* create_agent_task without auto_start, which is a Start that follows at once.
Create(t) ==
  /\ status[t] = "new"
  /\ \/ SetStatus(t, "ready") /\ worktree' = [worktree EXCEPT ![t] = "usable"]
     \/ /\ "create" \in Mishaps /\ SetStatus(t, "failed")
        /\ \E w \in {"gone", "broken"} : worktree' = [worktree EXCEPT ![t] = w]
  /\ UNCHANGED <<threadId, activeTurn, memory, server, faults>>

\* What _resume_agent_task(restore_only=True) asks for or queues, for a task
\* whose thread is known and not in memory.
Lacking(t) == threadId[t] # 0 /\ ~Runtime(t).thread
Viewed(t) == IF Lacking(t) /\ backend = "ready" THEN {Request("view", t)} ELSE {}
Queued(t) == IF Lacking(t) /\ ~IsRunning THEN {t} ELSE {}

\* activate_agent_task.
Activate(t) ==
  /\ status[t] \notin {"new", "unloaded"} /\ Calm
  /\ CASE worktree[t] = "broken" ->
            SetStatus(t, "failed") /\ UNCHANGED <<memory, server>>
       [] worktree[t] = "gone" ->
            /\ SetStatus(t, "orphaned")
            /\ runtime' = With(t, Runtime(t))
            /\ UNCHANGED <<starts, recovery, server>>
       [] OTHER ->
            /\ runtime' = With(t, Runtime(t))
            /\ Send(Viewed(t))
            /\ recovery' = recovery \cup Queued(t)
            /\ IF Queued(t) # {} THEN Woken ELSE UNCHANGED backend
            /\ UNCHANGED <<status, starts, threads, loaded, turns, nextTurn, born, nextAsk>>
  /\ UNCHANGED <<threadId, activeTurn, worktree, faults>>

Startable(t) == status[t] \in {"ready", "failed"}

StartUnusable(t) ==
  /\ Startable(t) /\ worktree[t] # "usable"
  /\ SetStatus(t, "failed")
  /\ UNCHANGED <<threadId, activeTurn, worktree, memory, server, faults>>

StartOverLimit(t) ==
  /\ Startable(t) /\ worktree[t] = "usable" /\ NumRunning >= Limit
  /\ SetStatus(t, "ready")
  /\ UNCHANGED <<threadId, activeTurn, worktree, memory, server, faults>>

MayStart(t) == Startable(t) /\ worktree[t] = "usable" /\ NumRunning < Limit

\* The App Server is not ready yet: the start waits in _pending_agent_starts.
StartQueued(t, activate) ==
  /\ MayStart(t) /\ backend # "ready"
  /\ SetStatus(t, "ready")
  /\ starts' = starts \cup {t}
  /\ Woken
  /\ IF activate
       THEN runtime' = With(t, Runtime(t)) /\ recovery' = recovery \cup Queued(t)
       ELSE UNCHANGED <<runtime, recovery>>
  /\ UNCHANGED <<threadId, activeTurn, worktree, sent, threads, loaded, turns,
                 nextTurn, born, nextAsk, faults>>

\* _begin_agent_thread of a task with status s: the requests it makes, and
\* whether a turn is among them.
TurnAtOnce(t, s) == threadId[t] # 0 /\ Runtime(t).thread /\ s = "ready"
Begun(t, s) ==
  IF threadId[t] = 0 THEN {Request("thread", t)}
  ELSE IF ~Runtime(t).thread THEN {Request("resume", t)}
  ELSE IF s = "ready" THEN {Request("turn", t)} ELSE {}
BegunRuntime(t, s) ==
  IF TurnAtOnce(t, s) THEN [Runtime(t) EXCEPT !.cancel = FALSE] ELSE Runtime(t)

Start(t, activate) ==
  /\ MayStart(t) /\ backend = "ready" /\ Calm
  /\ SetStatus(t, IF TurnAtOnce(t, "ready") THEN "running" ELSE "ready")
  /\ runtime' = With(t, BegunRuntime(t, "ready"))
  /\ Send(Begun(t, "ready") \cup (IF activate THEN Viewed(t) ELSE {}))
  /\ UNCHANGED <<threadId, activeTurn, worktree, starts, recovery, backend,
                 threads, loaded, turns, nextTurn, born, nextAsk, faults>>

\* send_agent_task_text: a further turn of a ready task, with no look at the
\* limit.  A task that is not the active one is activated first.
SendText(t, activate) ==
  /\ status[t] = "ready" /\ threadId[t] # 0 /\ Calm /\ (activate => worktree[t] = "usable")
  /\ IF backend = "ready"
       THEN /\ SetStatus(t, "running")
            /\ runtime' = With(t, [Runtime(t) EXCEPT !.cancel = FALSE])
            /\ Send({Request("turn", t)} \cup (IF activate THEN Viewed(t) ELSE {}))
            /\ UNCHANGED <<recovery, backend>>
       ELSE /\ SetStatus(t, "failed")
            /\ runtime' = With(t, Runtime(t))
            /\ IF activate /\ Queued(t) # {}
                 THEN Woken /\ recovery' = recovery \cup {t}
                 ELSE UNCHANGED <<recovery, backend>>
            /\ UNCHANGED sent
  /\ UNCHANGED <<threadId, activeTurn, worktree, starts, threads, loaded, turns,
                 nextTurn, born, nextAsk, faults>>

-----------------------------------------------------------------------------
(* Answers to requests.                                                    *)

\* thread/start is answered: the thread is the task's from now on, and the
\* first turn is asked for unless the task was cancelled.
ThreadStarted(t, r) ==
  LET h == Len(threads) + 1
      begins == status[t] # "cancelled"
      turn == [kind |-> "turn", task |-> t, thread |-> h]
  IN  /\ r.kind = "thread" /\ h <= MaxThreads
      /\ threads' = Append(threads, t)
      /\ threadId' = [threadId EXCEPT ![t] = h]
      /\ loaded' = loaded \cup {h}
      /\ runtime' = With(t, [Runtime(t) EXCEPT !.thread = TRUE,
                                               !.cancel = @ /\ ~begins])
      /\ status' = [status EXCEPT ![t] = IF @ = "ready" THEN "running" ELSE @]
      /\ Reply(r, IF begins THEN {turn} ELSE {})
      /\ UNCHANGED <<activeTurn, worktree, starts, recovery, backend, turns, nextTurn,
                     born, nextAsk, faults>>

\* thread/resume is answered.
Resumed(t, r) ==
  LET begins == r.kind = "resume" /\ status[t] = "ready"
  IN  /\ r.kind \in {"resume", "view"} /\ r.thread = threadId[t]
      /\ loaded' = loaded \cup {r.thread}
      /\ recovery' = recovery \ {t}
      /\ runtime' = With(t, [Runtime(t) EXCEPT !.thread = TRUE,
                                               !.cancel = @ /\ ~begins])
      /\ status' = [status EXCEPT ![t] = IF begins THEN "running" ELSE @]
      /\ Reply(r, IF begins THEN {Request("turn", t)} ELSE {})
      /\ UNCHANGED <<threadId, activeTurn, worktree, starts, backend, threads, turns,
                     nextTurn, born, nextAsk, faults>>

\* turn/start is answered and the turn runs.  shared marks the turns that have
\* ever run beside another turn of their task.
TurnAccepted(t, r) ==
  LET others == {x \in DOMAIN turns : turns[x].task = t}
      turn == [task |-> t, thread |-> r.thread, begun |-> FALSE, asking |-> {},
               told |-> Cancelling(t) /\ r.thread = threadId[t], shared |-> others # {}]
  IN  /\ r.kind = "turn" /\ r.thread \in loaded /\ nextTurn <= MaxTurns
      /\ turns' = [x \in DOMAIN turns \cup {nextTurn} |->
                     IF x = nextTurn THEN turn
                     ELSE [turns[x] EXCEPT !.shared = @ \/ x \in others]]
      /\ nextTurn' = nextTurn + 1
      /\ activeTurn' = [activeTurn EXCEPT ![t] = nextTurn]
      /\ Reply(r, {})
      /\ UNCHANGED <<status, threadId, worktree, memory, backend, threads, loaded, born, nextAsk,
                     faults>>

\* An answer with an error, as for a turn on a thread that is not loaded, or a
\* resumed thread that is not the task's any more.
Refused(t, r) ==
  /\ \/ "refused" \in Mishaps
     \/ r.kind \in {"resume", "view"} /\ r.thread # threadId[t]
     \/ r.kind = "turn" /\ r.thread \notin loaded
  /\ SetStatus(t, "failed")
  /\ Reply(r, {})
  /\ UNCHANGED <<threadId, activeTurn, worktree, memory, backend, threads, loaded, turns, nextTurn,
                 born, nextAsk, faults>>

-----------------------------------------------------------------------------
(* Notifications of turn u.                                                *)

\* _on_backend_notification finds the task, in _agent_task_by_thread since the
\* thread was started or resumed, and its runtime.
Handled(u) == turns[u].task \in DOMAIN runtime

TurnStarted(u) ==
  LET t == turns[u].task
      seen == [turns EXCEPT ![u].begun = TRUE]
  IN  /\ ~turns[u].begun
      /\ IF ~Handled(u)
           THEN turns' = seen /\ UNCHANGED <<status, activeTurn>>
           ELSE /\ activeTurn' = [activeTurn EXCEPT ![t] = u]
                /\ IF Cancelling(t)
                     THEN /\ turns' = [seen EXCEPT ![u].told = @ \/ turns[u].thread = threadId[t]]
                          /\ UNCHANGED status
                     ELSE turns' = seen /\ SetStatus(t, "running")
      /\ UNCHANGED <<threadId, worktree, memory, backend, sent, threads, loaded, nextTurn, born,
                     nextAsk, faults>>

\* A plausible slip: the status of the turn is taken as it is reported.
OutcomeAsReported(t, how) == IF Cancelling(t) THEN "cancelled" ELSE how

\* A plausible slip: a turn that completed is looked at before the cancel.
OutcomeOfTurn(t, how) ==
  IF how = "completed" THEN "completed" ELSE IF Cancelling(t) THEN "cancelled" ELSE "failed"

Outcome(t, how) ==
  IF Cancelling(t) THEN "cancelled" ELSE IF how = "completed" THEN "completed" ELSE "failed"

\* A plausible slip: active_turn_id is left to the next turn/started.
KeptActive(t) == activeTurn

\* The active turn of task t is over, or given up.
NoneActive(t) == [activeTurn EXCEPT ![t] = 0]

\* turn/completed, which is not compared with active_turn_id.
TurnCompleted(u, how) ==
  LET t == turns[u].task
  IN  /\ turns[u].begun
      /\ how = "completed" => turns[u].asking = {}
      /\ how = "interrupted" => turns[u].told
      /\ how = "failed" => "error" \in Mishaps
      /\ turns' = [x \in DOMAIN turns \ {u} |-> turns[x]]
      /\ IF Handled(u)
           THEN /\ activeTurn' = NoneActive(t)
                /\ SetStatus(t, Outcome(t, how))
           ELSE UNCHANGED <<activeTurn, status>>
      /\ UNCHANGED <<threadId, worktree, memory, backend, sent, threads, loaded, nextTurn, born,
                     nextAsk, faults>>

\* error without willRetry; the turn is still to be reported as completed.
ErrorReported(u) ==
  /\ "error" \in Mishaps /\ turns[u].begun
  /\ Handled(u)
  /\ SetStatus(turns[u].task, "failed")
  /\ UNCHANGED <<threadId, activeTurn, worktree, memory, server, faults>>

-----------------------------------------------------------------------------
(* Approvals.                                                              *)

\* The ids of the requests pending in the runtime of t, by which
\* request_key tells them apart.
Keys(t) == {a.id : a \in Runtime(t).asks}

\* The client takes the request of turn u for an approval of its task's.
Acceptable(u) ==
  /\ turns[u].thread = threadId[turns[u].task]
  /\ turns[u].task \in DOMAIN runtime
  /\ nextAsk \notin Keys(turns[u].task)

\* _handle_agent_server_request of a request that is then to be answered.
ApprovalAsked(u) ==
  LET t == turns[u].task
  IN  /\ turns[u].begun /\ nextAsk <= MaxAsks /\ Acceptable(u)
      /\ nextAsk' = nextAsk + 1
      /\ runtime' = With(t, [Runtime(t) EXCEPT !.asks = @ \cup {[id |-> nextAsk, turn |-> u]}])
      /\ SetStatus(t, "waiting")
      /\ turns' = [turns EXCEPT ![u].asking = @ \cup {nextAsk}]
      /\ UNCHANGED <<threadId, activeTurn, worktree, starts, recovery, backend, sent,
                     threads, loaded, nextTurn, born, faults>>

\* One that is not: it is answered with an error, or never when the runtime is
\* gone (KeyError).
ApprovalMissed(u) ==
  LET t == turns[u].task
      unanswered == turns[u].thread = threadId[t] /\ t \notin DOMAIN runtime
  IN  /\ turns[u].begun /\ nextAsk <= MaxAsks /\ ~Acceptable(u)
      /\ nextAsk' = nextAsk + 1
      /\ turns' = IF unanswered THEN [turns EXCEPT ![u].asking = @ \cup {nextAsk}] ELSE turns
      /\ UNCHANGED <<rows, worktree, memory, backend, sent, threads, loaded, nextTurn, born, faults>>

\* The turns once the server has got answers to the requests S.
AnsweredBy(S, ts) == [x \in DOMAIN ts |-> [ts[x] EXCEPT !.asking = @ \ S]]

\* respond_to_approval of request a of task t; the App Server that gets the
\* answer may be another than the one that asked.
Answer(t, a) ==
  /\ t \in DOMAIN runtime /\ a \in runtime[t].asks /\ backend = "ready"
  /\ runtime' = With(t, [runtime[t] EXCEPT !.asks = @ \ {a}])
  /\ SetStatus(t, "running")
  /\ turns' = AnsweredBy({a.id}, turns)
  /\ UNCHANGED <<threadId, activeTurn, worktree, starts, recovery, backend, sent,
                 threads, loaded, nextTurn, born, nextAsk, faults>>

-----------------------------------------------------------------------------
(* Cancel and cleanup.                                                     *)

\* cancel_agent_task: answer what is asked, interrupt the active turn.
Cancel(t) ==
  /\ status[t] \notin {"completed", "cancelled", "archived", "new", "unloaded"}
  /\ IF t \in DOMAIN runtime
       THEN /\ runtime' = With(t, [runtime[t] EXCEPT !.cancel = TRUE, !.asks = {}])
            /\ turns' = IF backend = "ready" THEN AnsweredBy(Keys(t), Told(t, activeTurn[t]))
                                             ELSE turns
       ELSE UNCHANGED <<runtime, turns>>
  /\ starts' = starts \ {t} /\ recovery' = recovery \ {t}
  /\ activeTurn' = NoneActive(t)
  /\ SetStatus(t, "cancelled")
  /\ UNCHANGED <<threadId, worktree, backend, sent, threads, loaded, nextTurn, born, nextAsk,
                 faults>>

\* A plausible slip: the status alone tells whether a task is at rest.
CleanableByStatus(t) == status[t] \in Cleanable

MayClean(t) == status[t] \in Cleanable /\ activeTurn[t] = 0

\* cleanup_agent_task, when WorktreeManager.cleanup finds nothing or removes
\* the worktree ...
CleanedUp(t) ==
  /\ MayClean(t)
  /\ worktree' = [worktree EXCEPT ![t] = "gone"]
  /\ SetStatus(t, "archived")
  /\ runtime' = [x \in DOMAIN runtime \ {t} |-> runtime[x]]
  /\ UNCHANGED <<threadId, activeTurn, starts, recovery, server, faults>>

\* ... and when it raises, for a repository that is gone, a worktree that is
\* dirty or not registered, or that git removed and could not prune.
CleanupRefused(t) ==
  /\ MayClean(t)
  /\ SetStatus(t, "failed")
  /\ \/ UNCHANGED worktree
     \/ worktree' = [worktree EXCEPT ![t] = "gone"]
  /\ UNCHANGED <<threadId, activeTurn, memory, server, faults>>

\* Outside the desktop: a worktree or its branch is removed.
Damage(t) ==
  /\ "damaged" \in Mishaps /\ worktree[t] = "usable"
  /\ \E w \in {"broken", "gone"} : worktree' = [worktree EXCEPT ![t] = w]
  /\ UNCHANGED <<rows, memory, server, faults>>

-----------------------------------------------------------------------------
(* The App Server and the desktop.                                         *)

ServerRuns ==
  /\ backend = "starting"
  /\ backend' = "running"
  /\ UNCHANGED <<rows, worktree, memory, sent, threads, loaded, turns, nextTurn, born, nextAsk, faults>>

\* _on_backend_ready: the starts that waited, then the threads to recover.
ServerReady ==
  /\ backend = "running"
  /\ backend' = "ready"
  /\ starts' = {}
  /\ status' = [t \in Tasks |->
       IF t \in starts /\ TurnAtOnce(t, status[t]) THEN "running" ELSE status[t]]
  /\ runtime' = [t \in DOMAIN runtime \cup starts |->
       IF t \in starts THEN BegunRuntime(t, status[t]) ELSE runtime[t]]
  /\ Send((UNION {Begun(t, status[t]) : t \in starts}) \cup {Request("view", t) : t \in recovery})
  /\ UNCHANGED <<threadId, activeTurn, worktree, recovery, threads, loaded, turns, nextTurn,
                 born, nextAsk, faults>>

\* The App Server dies, its turns with it, and fail_pending calls back every
\* request; nothing else tells a task of it.
ServerDies ==
  /\ backend # "off" /\ faults < MaxFaults
  /\ faults' = faults + 1
  /\ backend' = "off"
  /\ status' = [t \in Tasks |->
       IF Waiting(t) # {} THEN "failed" ELSE status[t]]
  /\ sent' = EmptyBag
  /\ loaded' = {} /\ turns' = <<>> /\ born' = nextTurn /\ nextAsk' = 1
  /\ UNCHANGED <<threadId, activeTurn, worktree, memory, threads, nextTurn>>

\* The desktop is started again: _load_agent_tasks on the rows st and the
\* worktrees wt that it finds.
Interrupted(st) == {t \in Tasks : st[t] \in Active}

Reload(st, wt) ==
  /\ faults < MaxFaults
  /\ faults' = faults + 1
  /\ worktree' = wt
  /\ status' = [t \in Tasks |->
       IF st[t] = "new" THEN "new"
       ELSE IF st[t] \in {"archived", "unloaded"} THEN "unloaded"
       ELSE IF wt[t] = "gone" THEN "orphaned"
       ELSE IF t \in Interrupted(st) THEN "ready" ELSE st[t]]
  \* A turn/started that found the task cancelled is not written to the row.
  /\ \E unsaved \in SUBSET {t \in Tasks : Cancelling(t)} :
       activeTurn' = [t \in Tasks |->
         IF t \in Interrupted(st) \cup unsaved THEN 0 ELSE activeTurn[t]]
  /\ runtime' = <<>> /\ starts' = {}
  /\ recovery' = {t \in Interrupted(st) : threadId[t] # 0}
  /\ backend' = "starting" /\ sent' = EmptyBag
  /\ loaded' = {} /\ turns' = <<>> /\ born' = nextTurn /\ nextAsk' = 1
  /\ UNCHANGED <<threadId, threads, nextTurn>>

Restart == Reload(status, worktree)

\* The desktop dies in the middle of a creation or a cleanup.
CrashInCreate(t) ==
  /\ status[t] = "new"
  /\ \E w \in {"gone", "usable"} :
       Reload([status EXCEPT ![t] = "creating"], [worktree EXCEPT ![t] = w])

CrashInCleanup(t) ==
  /\ MayClean(t)
  /\ \E w \in {"gone", worktree[t]} :
       Reload([status EXCEPT ![t] = "cleanup"], [worktree EXCEPT ![t] = w])

-----------------------------------------------------------------------------
Answers(t, r) == ThreadStarted(t, r) \/ Resumed(t, r) \/ TurnAccepted(t, r) \/ Refused(t, r)

Command(t) ==
  \/ Create(t) \/ Activate(t) \/ Cancel(t)
  \/ StartUnusable(t) \/ StartOverLimit(t)
  \/ \E activate \in BOOLEAN :
       StartQueued(t, activate) \/ Start(t, activate) \/ SendText(t, activate)
  \/ CleanedUp(t) \/ CleanupRefused(t)
  \/ \E a \in Runtime(t).asks : Answer(t, a)

Notification(u) ==
  \/ TurnStarted(u) \/ ErrorReported(u)
  \/ \E how \in {"completed", "failed", "interrupted"} : TurnCompleted(u, how)
  \/ ApprovalAsked(u) \/ ApprovalMissed(u)

Next ==
  \/ \E t \in Tasks :
       \/ Command(t)
       \/ \E r \in Waiting(t) : Answers(t, r)
       \/ Damage(t) \/ CrashInCreate(t) \/ CrashInCleanup(t)
  \/ \E u \in DOMAIN turns : Notification(u)
  \/ ServerRuns \/ ServerReady \/ ServerDies \/ Restart

Spec == Init /\ [][Next]_vars

-----------------------------------------------------------------------------
\* The types of the variables.
Asks == [id : 1 .. MaxAsks, turn : 1 .. MaxTurns]
Runtimes == [thread : BOOLEAN, cancel : BOOLEAN, asks : SUBSET Asks]
Turns == [task : Tasks, thread : 1 .. MaxThreads, begun : BOOLEAN, told : BOOLEAN,
          asking : SUBSET (1 .. MaxAsks), shared : BOOLEAN]

TypeOK ==
  /\ status \in [Tasks -> Status]
  /\ threadId \in [Tasks -> 0 .. MaxThreads]
  /\ activeTurn \in [Tasks -> 0 .. MaxTurns]
  /\ worktree \in [Tasks -> {"gone", "broken", "usable"}]
  /\ DOMAIN runtime \subseteq Tasks /\ \A t \in DOMAIN runtime : runtime[t] \in Runtimes
  /\ loaded \subseteq 1 .. MaxThreads
  /\ starts \subseteq Tasks /\ recovery \subseteq Tasks
  /\ backend \in {"off", "starting", "running", "ready"}
  /\ IsABag(sent) /\ BagToSet(sent) \subseteq Requests
  /\ threads \in Seq(Tasks) /\ Len(threads) <= MaxThreads
  /\ DOMAIN turns \subseteq 1 .. MaxTurns /\ \A u \in DOMAIN turns : turns[u] \in Turns
  /\ nextTurn \in 1 .. MaxTurns + 1 /\ born \in 1 .. nextTurn
  /\ nextAsk \in 1 .. MaxAsks + 1
  /\ faults \in 0 .. MaxFaults

\* A task the user has cancelled is never counted as completed, whatever its
\* turn reports later, unless it is started again (cancel_requested is reset).
CancelledNeverCompletes == \A t \in Tasks : Runtime(t).cancel => status[t] # "completed"

\* The turns of t that run and were not told to stop, unless the task has had
\* several threads or turns at a time, of which it knows only the last.
Single(t) == \A h \in DOMAIN threads : threads[h] = t => h = threadId[t]
Untold(t) == {u \in DOMAIN turns :
                turns[u].task = t /\ ~turns[u].told /\ ~turns[u].shared /\ Single(t)}

\* Cancelling stops the turn of a task, also one that was only asked for: no turn
\* of a cancelled task runs that was not told to stop.
CancelStopsTurn ==
  \A t \in Tasks : status[t] = "cancelled" /\ worktree[t] # "gone" => Untold(t) = {}

\* "Cleanup is explicit and refuses ... active turns" (README): a cleanup never
\* takes the worktree from a turn that was not told to stop.
CleanupSparesTurns ==
  [][\A t \in Tasks : MayClean(t) /\ status'[t] \in {"archived", "failed"}
                      /\ worktree[t] # "gone" /\ worktree'[t] = "gone" => Untold(t) = {}]_vars

\* active_turn_id, which keeps a worktree from being cleaned up, names a turn
\* that still runs, or one of an App Server process that is gone, except where
\* a cleanup met an answer that was still to come.
ActiveTurnIsLive ==
  \A t \in Tasks : activeTurn[t] >= born /\ worktree[t] # "gone" => activeTurn[t] \in DOMAIN turns

=============================================================================
