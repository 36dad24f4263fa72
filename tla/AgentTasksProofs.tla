--------------------------- MODULE AgentTasksProofs ---------------------------
(***************************************************************************)
(* Safety of the AgentTasks for any number of tasks, threads, turns and    *)
(* deaths: a cancelled task is never counted as completed, its turn is     *)
(* told to stop, no worktree is taken from a turn that was not, and what   *)
(* requests, turns and approvals refer to was made.                        *)
(***************************************************************************)
EXTENDS AgentTasks, TLAPS

\* Runtimes and turns as the proofs need them: no bounds.
Entry == [thread : BOOLEAN, cancel : BOOLEAN, asks : SUBSET [id : Nat, turn : Nat]]
Turn == [task : Tasks, thread : Nat, begun : BOOLEAN, told : BOOLEAN,
         asking : SUBSET Nat, shared : BOOLEAN]

\* What the variables range over, as far as the proofs need it.
Typed ==
  /\ status \in [Tasks -> Status]
  /\ threadId \in [Tasks -> Nat] /\ activeTurn \in [Tasks -> Nat]
  /\ worktree \in [Tasks -> {"gone", "broken", "usable"}]
  /\ runtime \in [DOMAIN runtime -> Entry] /\ DOMAIN runtime \subseteq Tasks
  /\ starts \subseteq Tasks /\ recovery \subseteq Tasks
  /\ turns \in [DOMAIN turns -> Turn] /\ DOMAIN turns \subseteq Nat
  /\ threads \in Seq(Tasks)
  /\ nextTurn \in Nat /\ born \in Nat /\ nextAsk \in Nat
  /\ 1 <= born /\ born <= nextTurn

\* Thread h was made for task t.
Own(t, h) == h \in DOMAIN threads /\ threads[h] = t

\* A task with a worktree has a runtime: what comes for it is handled.
Held(t) == worktree[t] # "gone" => t \in DOMAIN runtime

ThreadsOwn == \A t \in Tasks : threadId[t] # 0 => Own(t, threadId[t])

\* A request is for a task that was created, a turn/start for a thread of it,
\* and the server that will answer it is ready.
Proper(r) ==
  /\ r.task \in Tasks /\ status[r.task] # "new"
  /\ r.kind = "turn" => Own(r.task, r.thread) /\ Held(r.task)
  /\ r.kind = "resume" => r.thread # 0
SentProper ==
  /\ \A r \in BagToSet(sent) : Proper(r)
  /\ BagToSet(sent) # {} => backend = "ready"

\* A turn is of a thread of its task and of this App Server process; one that
\* is not marked as shared has no other beside it.
TurnsOwn ==
  /\ \A u \in DOMAIN turns :
       /\ Own(turns[u].task, turns[u].thread) /\ Held(turns[u].task)
       /\ status[turns[u].task] # "new"
       /\ born <= u /\ u < nextTurn
  /\ \A u, v \in DOMAIN turns : u # v /\ turns[u].task = turns[v].task => turns[u].shared
  /\ DOMAIN turns # {} => backend = "ready"

\* A task that is not created yet waits for nothing.
NewIsBlank ==
  \A t \in Tasks : status[t] = "new" => t \notin starts \cup recovery /\ activeTurn[t] = 0

\* active_turn_id names the turn that was not told to stop.
Watched ==
  \A t \in Tasks : worktree[t] # "gone" =>
    \A u \in Untold(t) : activeTurn[t] = u /\ status[t] # "cancelled"

\* active_turn_id is the id of a turn that was accepted, and for this task.
Accepted ==
  \A t \in Tasks :
    /\ activeTurn[t] < nextTurn
    /\ activeTurn[t] \in DOMAIN turns => turns[activeTurn[t]].task = t

\* CancelledNeverCompletes, in terms of the table.
CancelFinal == \A t \in DOMAIN runtime : runtime[t].cancel => status[t] # "completed"

\* The inductive invariant.
TasksInv ==
  /\ Typed /\ ThreadsOwn /\ SentProper /\ TurnsOwn /\ NewIsBlank
  /\ Watched /\ Accepted /\ ActiveTurnIsLive /\ CancelFinal

-----------------------------------------------------------------------------
(* Bags, tables and the initial state.                                     *)

\* What is in a bag that requests are added to or taken from.
LEMMA BagSum ==
  ASSUME NEW A, NEW S
  PROVE  BagToSet(A (+) SetToBag(S)) = BagToSet(A) \cup S
BY DEF BagToSet, SetToBag, (+)

LEMMA BagLess ==
  ASSUME NEW A, NEW B
  PROVE  BagToSet(A (-) B) \subseteq BagToSet(A)
BY DEF BagToSet, (-)

LEMMA SentBy ==
  ASSUME NEW S, Send(S)
  PROVE  BagToSet(sent') = BagToSet(sent) \cup S
BY BagSum DEF Send

LEMMA RepliedBy ==
  ASSUME NEW r, NEW S, Reply(r, S)
  PROVE  BagToSet(sent') \subseteq BagToSet(sent) \cup S
BY BagSum, BagLess DEF Reply

LEMMA EmptyHasNone == BagToSet(EmptyBag) = {} /\ DOMAIN <<>> = {}
BY DEF BagToSet, EmptyBag, SetToBag

\* An entry of the table, and the table with another one.
LEMMA RuntimeType ==
  ASSUME Typed, NEW t \in Tasks
  PROVE  /\ Runtime(t) \in Entry
         /\ t \notin DOMAIN runtime => Runtime(t).cancel = FALSE
         /\ t \in DOMAIN runtime => Runtime(t) = runtime[t]
BY DEF Typed, Runtime, Fresh, Entry

LEMMA WithType ==
  ASSUME Typed, NEW t \in Tasks, NEW e \in Entry, runtime' = With(t, e)
  PROVE  /\ DOMAIN runtime' = DOMAIN runtime \cup {t}
         /\ DOMAIN runtime' \subseteq Tasks
         /\ runtime' \in [DOMAIN runtime' -> Entry]
         /\ runtime'[t] = e
         /\ \A x \in DOMAIN runtime \ {t} : runtime'[x] = runtime[x]
BY DEF Typed, With

LEMMA InitTasksInv == Init => TasksInv
<1> SUFFICES ASSUME Init PROVE TasksInv
  OBVIOUS
<1>1. /\ DOMAIN runtime = {} /\ DOMAIN turns = {} /\ DOMAIN threads = {}
      /\ BagToSet(sent) = {} /\ threads \in Seq(Tasks)
  BY EmptyHasNone DEF Init
<1>2. Typed
  BY <1>1 DEF Init, Typed, Status
<1> QED
  BY <1>1, <1>2 DEF Init, TasksInv, ThreadsOwn, SentProper, TurnsOwn, NewIsBlank, Watched,
     Accepted, ActiveTurnIsLive, CancelFinal, Untold

-----------------------------------------------------------------------------
(* Steps that leave threads and active turns alone.                        *)

\* The turns are the same, some perhaps told to stop or no longer asking.
SameTurns ==
  /\ DOMAIN turns' = DOMAIN turns
  /\ \A u \in DOMAIN turns :
       /\ turns'[u].task = turns[u].task /\ turns'[u].thread = turns[u].thread
       /\ turns'[u].shared = turns[u].shared
       /\ turns[u].told => turns'[u].told

\* Nothing is cancelled, nothing is put back among the tasks not created.
NoneCancelled ==
  \A t \in Tasks :
    /\ status'[t] = "cancelled" => status[t] = "cancelled"
    /\ status'[t] = "new" =>
         status[t] = "new" /\ (t \in starts' \cup recovery' => t \in starts \cup recovery)

\* A worktree comes up for a new task only, and a runtime goes with its worktree.
KeptHeld ==
  \A t \in Tasks : worktree'[t] # "gone" =>
    \/ worktree[t] # "gone" /\ (t \in DOMAIN runtime => t \in DOMAIN runtime')
    \/ status[t] = "new"

\* Requests that were proper are so after a step that does not touch threads.
LEMMA ProperKept ==
  ASSUME TasksInv, UNCHANGED threads, NoneCancelled, KeptHeld,
         NEW r \in BagToSet(sent)
  PROVE  Proper(r)'
<1>1. Proper(r)
  BY DEF TasksInv, SentProper
<1> QED BY <1>1 DEF Proper, Own, Held, NoneCancelled, KeptHeld

\* What waits or runs does so at a server that is ready.
LEMMA AtReady ==
  ASSUME TasksInv
  PROVE  BagToSet(sent) # {} \/ DOMAIN turns # {} => backend = "ready"
BY DEF TasksInv, SentProper, TurnsOwn

LEMMA QuietStep ==
  ASSUME TasksInv, Typed',
         UNCHANGED <<threadId, activeTurn, threads, nextTurn, born>>,
         SameTurns, NoneCancelled, KeptHeld,
         BagToSet(sent') # {} \/ DOMAIN turns # {} => backend' = "ready",
         \A r \in BagToSet(sent') \ BagToSet(sent) : Proper(r)',
         CancelFinal'
  PROVE  TasksInv'
<1>1. ThreadsOwn'
  BY DEF TasksInv, ThreadsOwn, Own
<1>2. SentProper'
  BY ProperKept DEF SentProper
<1>3. TurnsOwn'
  <2>1. ASSUME NEW u \in DOMAIN turns'
        PROVE  /\ Own(turns[u].task, turns[u].thread)' /\ Held(turns[u].task)'
               /\ status'[turns'[u].task] # "new" /\ born' <= u /\ u < nextTurn'
    <3>1. /\ Own(turns[u].task, turns[u].thread) /\ Held(turns[u].task)
          /\ status[turns[u].task] # "new" /\ born <= u /\ u < nextTurn
          /\ turns[u].task \in Tasks
      BY DEF TasksInv, TurnsOwn, SameTurns, Typed, Turn
    <3> QED BY <3>1 DEF SameTurns, NoneCancelled, KeptHeld, Own, Held
  <2>2. \A u, v \in DOMAIN turns' :
          u # v /\ turns'[u].task = turns'[v].task => turns'[u].shared
    BY DEF TasksInv, TurnsOwn, SameTurns
  <2>3. DOMAIN turns' # {} => backend' = "ready"
    BY DEF TasksInv, TurnsOwn, SameTurns
  <2> QED BY <2>1, <2>2, <2>3 DEF TurnsOwn
<1>4. NewIsBlank'
  BY DEF TasksInv, NewIsBlank, NoneCancelled
<1>5. Watched'
  <2> SUFFICES ASSUME NEW t \in Tasks, worktree'[t] # "gone", NEW u \in Untold(t)'
               PROVE  activeTurn'[t] = u /\ status'[t] # "cancelled"
    BY DEF Watched
  <2>1. u \in Untold(t)
    BY DEF Untold, Single, SameTurns
  <2>2. status[t] # "new"
    BY <2>1 DEF TasksInv, TurnsOwn, Untold
  <2> QED BY <2>1, <2>2 DEF TasksInv, Watched, KeptHeld, NoneCancelled
<1>6. Accepted'
  BY DEF TasksInv, Accepted, SameTurns
<1>7. ActiveTurnIsLive'
  BY DEF TasksInv, ActiveTurnIsLive, NewIsBlank, KeptHeld, SameTurns, Typed
<1> QED BY <1>1, <1>2, <1>3, <1>4, <1>5, <1>6, <1>7 DEF TasksInv

\* The same for a step that leaves the turns and the worktrees as they are.
LEMMA CalmStep ==
  ASSUME TasksInv, Typed',
         UNCHANGED <<threadId, activeTurn, threads, nextTurn, born, turns, worktree>>,
         NoneCancelled, DOMAIN runtime \subseteq DOMAIN runtime',
         BagToSet(sent') # {} \/ DOMAIN turns # {} => backend' = "ready",
         \A r \in BagToSet(sent') \ BagToSet(sent) : Proper(r)',
         CancelFinal'
  PROVE  TasksInv'
<1>1. SameTurns /\ KeptHeld
  BY DEF SameTurns, KeptHeld
<1> QED BY <1>1, QuietStep

-----------------------------------------------------------------------------
(* The requests that commands make.                                        *)

LEMMA RequestIs ==
  ASSUME NEW kind, NEW t
  PROVE  /\ Request(kind, t).kind = kind /\ Request(kind, t).task = t
         /\ Request(kind, t).thread = threadId[t]
BY DEF Request

LEMMA BegunIs ==
  ASSUME TasksInv, NEW t \in Tasks, NEW s, NEW r \in Begun(t, s)
  PROVE  /\ r.task = t
         /\ r.kind = "turn" => t \in DOMAIN runtime /\ Own(t, r.thread)
         /\ r.kind = "resume" => r.thread # 0
         /\ r.kind \in {"thread", "resume", "turn"}
<1>1. \/ threadId[t] = 0 /\ r = Request("thread", t)
      \/ threadId[t] # 0 /\ ~Runtime(t).thread /\ r = Request("resume", t)
      \/ threadId[t] # 0 /\ Runtime(t).thread /\ r = Request("turn", t)
  BY DEF Begun
<1>2. t \notin DOMAIN runtime => Runtime(t).thread = FALSE
  BY DEF Runtime, Fresh
<1> QED BY <1>1, <1>2, RequestIs DEF TasksInv, ThreadsOwn

LEMMA ViewedIs ==
  ASSUME NEW t, NEW r \in Viewed(t)
  PROVE  r.task = t /\ r.kind = "view"
BY RequestIs DEF Viewed

LEMMA BegunRuntimeType ==
  ASSUME Typed, NEW t \in Tasks, NEW s
  PROVE  BegunRuntime(t, s) \in Entry /\ (BegunRuntime(t, s).cancel => Runtime(t).cancel)
BY RuntimeType DEF BegunRuntime, Entry

-----------------------------------------------------------------------------
(* Creation and start.                                                     *)

LEMMA CreateStep ==
  ASSUME TasksInv, NEW t \in Tasks, Create(t)
  PROVE  TasksInv'
<1>1. Typed'
  BY DEF TasksInv, Typed, Create, SetStatus, Status, memory, server
<1>2. SameTurns /\ NoneCancelled /\ KeptHeld
  BY DEF TasksInv, Typed, Create, SetStatus, SameTurns, NoneCancelled, KeptHeld, memory, server
<1>3. CancelFinal'
  BY DEF TasksInv, Typed, CancelFinal, Create, SetStatus, memory
<1> QED BY <1>1, <1>2, <1>3, AtReady, QuietStep DEF Create, memory, server

LEMMA ActivateStep ==
  ASSUME TasksInv, NEW t \in Tasks, Activate(t)
  PROVE  TasksInv'
<1>1. CASE worktree[t] = "broken"
  <2>1. status' = [status EXCEPT ![t] = "failed"] /\ UNCHANGED <<memory, server>>
    BY <1>1 DEF Activate, SetStatus
  <2>2. Typed' /\ NoneCancelled /\ CancelFinal'
    BY <2>1 DEF TasksInv, Typed, Status, NoneCancelled, CancelFinal, memory, server, Activate
  <2> QED BY <2>1, <2>2, AtReady, CalmStep DEF Activate, memory, server
<1>2. CASE worktree[t] # "broken"
  <2>1. /\ runtime' = With(t, Runtime(t))
        /\ \/ status' = [status EXCEPT ![t] = "orphaned"] \/ UNCHANGED status
        /\ UNCHANGED <<threadId, activeTurn, worktree, starts, threads, turns, nextTurn, born, nextAsk>>
        /\ recovery' = recovery \cup Queued(t) \/ UNCHANGED recovery
        /\ Send(Viewed(t)) \/ UNCHANGED sent
        /\ UNCHANGED backend \/ backend # "ready"
    BY <1>2 DEF Activate, SetStatus, server, Queued, Woken, IsRunning
  <2>2. /\ DOMAIN runtime' = DOMAIN runtime \cup {t} /\ runtime' \in [DOMAIN runtime' -> Entry]
        /\ DOMAIN runtime' \subseteq Tasks /\ runtime'[t] = Runtime(t)
        /\ \A x \in DOMAIN runtime \ {t} : runtime'[x] = runtime[x]
    BY <2>1, RuntimeType, WithType DEF TasksInv
  <2>3. status[t] # "new" /\ status'[t] # "new" /\ (status'[t] = "cancelled" => status[t] = "cancelled")
    BY <2>1 DEF Activate, TasksInv, Typed
  <2>4. Typed'
    BY <2>1, <2>2 DEF TasksInv, Typed, Status, Queued
  <2>5. NoneCancelled
    BY <2>1, <2>3 DEF NoneCancelled, Queued, TasksInv, Typed
  <2>6. CancelFinal'
    BY <2>1, <2>2, RuntimeType DEF CancelFinal, TasksInv, Typed
  <2>7. ASSUME NEW r \in BagToSet(sent') \ BagToSet(sent) PROVE Proper(r)'
    BY <2>1, <2>3, SentBy, ViewedIs DEF Proper
  <2>8. BagToSet(sent') # {} \/ DOMAIN turns # {} => backend' = "ready"
    BY <2>1, SentBy DEF TasksInv, TurnsOwn, SentProper, Viewed
  <2> QED BY <2>1, <2>2, <2>4, <2>5, <2>6, <2>7, <2>8, CalmStep
<1> QED BY <1>1, <1>2

LEMMA StartLimitedStep ==
  ASSUME TasksInv, NEW t \in Tasks,
         StartUnusable(t) \/ StartOverLimit(t)
  PROVE  TasksInv'
<1>1. /\ \/ status' = [status EXCEPT ![t] = "failed"]
         \/ status' = [status EXCEPT ![t] = "ready"]
      /\ UNCHANGED <<threadId, activeTurn, worktree, memory, server>>
  BY DEF StartUnusable, StartOverLimit, SetStatus
<1>2. Typed' /\ NoneCancelled /\ CancelFinal'
  BY <1>1 DEF TasksInv, Typed, Status, NoneCancelled, CancelFinal, memory, server
<1> QED BY <1>1, <1>2, AtReady, CalmStep DEF memory, server

LEMMA StartQueuedStep ==
  ASSUME TasksInv, NEW t \in Tasks, NEW activate \in BOOLEAN, StartQueued(t, activate)
  PROVE  TasksInv'
<1>1. /\ status' = [status EXCEPT ![t] = "ready"]
      /\ starts' = starts \cup {t}
      /\ \/ runtime' = With(t, Runtime(t)) /\ recovery' = recovery \cup Queued(t)
         \/ UNCHANGED <<runtime, recovery>>
      /\ UNCHANGED <<threadId, activeTurn, worktree, sent, threads, turns, nextTurn, born, nextAsk>>
      /\ backend # "ready"
  BY DEF StartQueued, SetStatus
<1>2. /\ DOMAIN runtime \subseteq DOMAIN runtime' /\ runtime' \in [DOMAIN runtime' -> Entry]
      /\ DOMAIN runtime' \subseteq Tasks
      /\ \A x \in DOMAIN runtime' \ {t} : x \in DOMAIN runtime /\ runtime'[x] = runtime[x]
  BY <1>1, RuntimeType, WithType DEF TasksInv, Typed
<1>3. Typed'
  BY <1>1, <1>2 DEF TasksInv, Typed, Status, Queued
<1>4. NoneCancelled
  BY <1>1 DEF NoneCancelled, Queued, TasksInv, Typed
<1>5. CancelFinal'
  BY <1>1, <1>2 DEF CancelFinal, TasksInv, Typed
<1>6. BagToSet(sent') # {} \/ DOMAIN turns # {} => backend' = "ready"
  BY <1>1 DEF TasksInv, TurnsOwn, SentProper
<1> QED BY <1>1, <1>2, <1>3, <1>4, <1>5, <1>6, CalmStep

\* What Start and SendText have in common: the requests S for task t, whose
\* runtime becomes e.
LEMMA AskStep ==
  ASSUME TasksInv, NEW t \in Tasks, NEW e \in Entry, NEW s \in Status \ {"new", "cancelled", "completed"}, NEW S,
         status' = [status EXCEPT ![t] = s],
         runtime' = With(t, e), Send(S),
         \A r \in S : /\ r.task = t /\ (r.kind = "turn" => Own(t, r.thread))
                      /\ r.kind = "resume" => r.thread # 0,
         backend = "ready",
         UNCHANGED <<threadId, activeTurn, worktree, starts, recovery, backend,
                     threads, turns, nextTurn, born, nextAsk>>
  PROVE  TasksInv'
<1>1. /\ DOMAIN runtime' = DOMAIN runtime \cup {t} /\ runtime' \in [DOMAIN runtime' -> Entry]
      /\ DOMAIN runtime' \subseteq Tasks
      /\ \A x \in DOMAIN runtime \ {t} : runtime'[x] = runtime[x]
  BY WithType DEF TasksInv
<1>2. Typed' /\ NoneCancelled /\ status'[t] # "new"
  BY <1>1 DEF TasksInv, Typed, NoneCancelled
<1>3. CancelFinal'
  BY <1>1 DEF CancelFinal, TasksInv, Typed
<1>4. ASSUME NEW r \in BagToSet(sent') \ BagToSet(sent) PROVE Proper(r)'
  <2>1. r \in S
    BY SentBy
  <2>2. /\ r.task = t /\ (r.kind = "resume" => r.thread # 0)
        /\ r.kind = "turn" => Own(t, r.thread)
    BY <2>1
  <2>3. Held(t)'
    BY <1>1 DEF Held
  <2>4. r.kind = "turn" => Own(t, r.thread)'
    BY <2>2 DEF Own
  <2> QED BY <1>2, <2>2, <2>3, <2>4 DEF Proper
<1> QED BY <1>1, <1>2, <1>3, <1>4, CalmStep

LEMMA StartStep ==
  ASSUME TasksInv, NEW t \in Tasks, NEW activate \in BOOLEAN, Start(t, activate)
  PROVE  TasksInv'
<1> DEFINE s == IF TurnAtOnce(t, "ready") THEN "running" ELSE "ready"
           S == Begun(t, "ready") \cup (IF activate THEN Viewed(t) ELSE {})
<1>1. s \in Status \ {"new", "cancelled", "completed"}
  BY DEF Status
<1>2. \A r \in S : /\ r.task = t /\ (r.kind = "turn" => Own(t, r.thread))
                   /\ r.kind = "resume" => r.thread # 0
  BY BegunIs, ViewedIs
<1>3. BegunRuntime(t, "ready") \in Entry
  BY BegunRuntimeType DEF TasksInv
<1>4. /\ status' = [status EXCEPT ![t] = s] /\ runtime' = With(t, BegunRuntime(t, "ready")) /\ Send(S)
      /\ backend = "ready"
      /\ UNCHANGED <<threadId, activeTurn, worktree, starts, recovery, backend,
                     threads, turns, nextTurn, born, nextAsk>>
  BY DEF Start, SetStatus
<1> HIDE DEF s, S
<1> QED BY <1>1, <1>2, <1>3, <1>4, AskStep

LEMMA SendTextStep ==
  ASSUME TasksInv, NEW t \in Tasks, NEW activate \in BOOLEAN, SendText(t, activate)
  PROVE  TasksInv'
<1>1. CASE backend = "ready"
  <2> DEFINE S == {Request("turn", t)} \cup (IF activate THEN Viewed(t) ELSE {})
             e == [Runtime(t) EXCEPT !.cancel = FALSE]
  <2>1. \A r \in S : /\ r.task = t /\ (r.kind = "turn" => Own(t, r.thread))
                     /\ r.kind = "resume" => r.thread # 0
    BY RequestIs, ViewedIs DEF SendText, TasksInv, ThreadsOwn
  <2>2. e \in Entry
    BY RuntimeType DEF TasksInv, Entry
  <2>3. /\ status' = [status EXCEPT ![t] = "running"] /\ runtime' = With(t, e) /\ Send(S)
        /\ UNCHANGED <<threadId, activeTurn, worktree, starts, recovery, backend,
                       threads, turns, nextTurn, born, nextAsk>>
    BY <1>1 DEF SendText, SetStatus
  <2>4. "running" \in Status \ {"new", "cancelled", "completed"}
    BY DEF Status
  <2> HIDE DEF S, e
  <2> QED BY <1>1, <2>1, <2>2, <2>3, <2>4, AskStep
<1>2. CASE backend # "ready"
  <2>1. /\ status' = [status EXCEPT ![t] = "failed"] /\ runtime' = With(t, Runtime(t))
        /\ recovery' = recovery \cup {t} \/ UNCHANGED recovery
        /\ UNCHANGED <<threadId, activeTurn, worktree, starts, sent, threads, turns, nextTurn, born, nextAsk>>
    BY <1>2 DEF SendText, SetStatus
  <2>2. /\ DOMAIN runtime \subseteq DOMAIN runtime' /\ runtime' \in [DOMAIN runtime' -> Entry]
        /\ DOMAIN runtime' \subseteq Tasks
        /\ \A x \in DOMAIN runtime' \ {t} : x \in DOMAIN runtime /\ runtime'[x] = runtime[x]
    BY <2>1, RuntimeType, WithType DEF TasksInv
  <2>3. Typed' /\ NoneCancelled
    BY <2>1, <2>2 DEF TasksInv, Typed, Status, NoneCancelled
  <2>4. CancelFinal'
    BY <2>1, <2>2 DEF CancelFinal, TasksInv, Typed
  <2>5. BagToSet(sent') # {} \/ DOMAIN turns # {} => backend' = "ready"
    BY <1>2, <2>1 DEF TasksInv, TurnsOwn, SentProper
  <2> QED BY <2>1, <2>2, <2>3, <2>4, <2>5, CalmStep
<1> QED BY <1>1, <1>2

-----------------------------------------------------------------------------
(* Answers to requests.                                                    *)

\* A request that waits for task t.
LEMMA WaitingIs ==
  ASSUME TasksInv, NEW t \in Tasks, NEW r \in Waiting(t)
  PROVE  /\ r \in BagToSet(sent) /\ r.task = t /\ Proper(r) /\ status[t] # "new"
         /\ backend = "ready"
BY DEF TasksInv, SentProper, Waiting, Proper

\* The runtime of a task whose thread has come; cancel_requested is reset when
\* a turn begins.
LEMMA LoadedRuntime ==
  ASSUME TasksInv, NEW t \in Tasks, NEW begins \in BOOLEAN,
         runtime' = With(t, [Runtime(t) EXCEPT !.thread = TRUE, !.cancel = @ /\ ~begins])
  PROVE  /\ DOMAIN runtime' = DOMAIN runtime \cup {t} /\ DOMAIN runtime' \subseteq Tasks
         /\ runtime' \in [DOMAIN runtime' -> Entry]
         /\ \A x \in DOMAIN runtime \ {t} : runtime'[x] = runtime[x]
         /\ runtime'[t].cancel => t \in DOMAIN runtime /\ runtime[t].cancel
<1> DEFINE e == [Runtime(t) EXCEPT !.thread = TRUE, !.cancel = @ /\ ~begins]
<1>1. Runtime(t) \in Entry
  BY RuntimeType DEF TasksInv
<1>2. Runtime(t).cancel \in BOOLEAN
  BY <1>1 DEF Entry
<1>3. (Runtime(t).cancel /\ ~begins) \in BOOLEAN
  BY <1>2, Zenon
<1>4. e \in Entry
  BY <1>1, <1>3 DEF Entry
<1>5. e.cancel => Runtime(t).cancel
  BY <1>1 DEF Entry
<1>6. runtime' = With(t, e)
  OBVIOUS
<1> HIDE DEF e
<1> QED BY <1>4, <1>5, <1>6, WithType, RuntimeType DEF TasksInv

LEMMA ResumedStep ==
  ASSUME TasksInv, NEW t \in Tasks, NEW r \in Waiting(t), Resumed(t, r)
  PROVE  TasksInv'
<1> DEFINE begins == r.kind = "resume" /\ status[t] = "ready"
           S == IF begins THEN {Request("turn", t)} ELSE {}
<1>1. /\ status' = [status EXCEPT ![t] = IF begins THEN "running" ELSE @]
      /\ runtime' = With(t, [Runtime(t) EXCEPT !.thread = TRUE, !.cancel = @ /\ ~begins])
      /\ recovery' = recovery \ {t}
      /\ Reply(r, S)
      /\ UNCHANGED <<threadId, activeTurn, worktree, starts, backend, threads, turns,
                     nextTurn, born, nextAsk>>
      /\ r.thread = threadId[t]
  BY DEF Resumed
<1>2. /\ r \in BagToSet(sent) /\ r.task = t /\ Proper(r) /\ status[t] # "new" /\ backend = "ready"
  BY WaitingIs
<1>3. /\ DOMAIN runtime' = DOMAIN runtime \cup {t} /\ DOMAIN runtime' \subseteq Tasks
      /\ runtime' \in [DOMAIN runtime' -> Entry]
      /\ \A x \in DOMAIN runtime \ {t} : runtime'[x] = runtime[x]
      /\ runtime'[t].cancel => t \in DOMAIN runtime /\ runtime[t].cancel
  BY <1>1, LoadedRuntime
<1>4. /\ \A x \in Tasks \ {t} : status'[x] = status[x]
      /\ status'[t] = status[t] \/ status'[t] = "running"
      /\ status' \in [Tasks -> Status]
  BY <1>1 DEF TasksInv, Typed, Status
<1>5. Typed'
  BY <1>1, <1>3, <1>4 DEF TasksInv, Typed
<1>6. NoneCancelled
  BY <1>1, <1>2, <1>4 DEF NoneCancelled
<1>7. CancelFinal'
  BY <1>3, <1>4 DEF CancelFinal, TasksInv
<1>8. ASSUME NEW q \in BagToSet(sent') \ BagToSet(sent) PROVE Proper(q)'
  <2>1. BagToSet(sent') \subseteq BagToSet(sent) \cup S
    BY <1>1, RepliedBy
  <2>2. begins /\ q = Request("turn", t)
    BY <2>1
  <2>3. q.task = t /\ q.kind = "turn" /\ q.thread = threadId[t]
    BY <2>2, RequestIs
  <2>4. Own(t, threadId[t])
    BY <1>1, <1>2, <2>2 DEF Proper, TasksInv, ThreadsOwn
  <2>5. Own(t, threadId[t])' /\ Held(t)'
    BY <1>1, <1>3, <2>4 DEF Own, Held
  <2>6. status'[t] # "new"
    BY <1>2, <1>4
  <2> QED BY <1>1, <2>3, <2>5, <2>6 DEF Proper, Own
<1> QED BY <1>1, <1>2, <1>3, <1>5, <1>6, <1>7, <1>8, CalmStep

LEMMA RefusedStep ==
  ASSUME TasksInv, NEW t \in Tasks, NEW r \in Waiting(t), Refused(t, r)
  PROVE  TasksInv'
<1>1. /\ status' = [status EXCEPT ![t] = "failed"] /\ Reply(r, {})
      /\ UNCHANGED <<threadId, activeTurn, worktree, memory, backend, threads, turns, nextTurn,
                     born, nextAsk>>
  BY DEF Refused, SetStatus
<1>2. BagToSet(sent') \subseteq BagToSet(sent)
  BY <1>1, RepliedBy
<1>3. Typed' /\ NoneCancelled /\ CancelFinal'
  BY <1>1 DEF TasksInv, Typed, Status, NoneCancelled, CancelFinal, memory
<1> QED BY <1>1, <1>2, <1>3, WaitingIs, CalmStep DEF memory

\* The threads that were made before keep their task.
LEMMA AppendOwn ==
  ASSUME TasksInv, NEW t \in Tasks, threads' = Append(threads, t)
  PROVE  /\ threads' \in Seq(Tasks) /\ Len(threads) + 1 \notin DOMAIN threads
         /\ DOMAIN threads' = DOMAIN threads \cup {Len(threads) + 1}
         /\ threads'[Len(threads) + 1] = t
         /\ \A h \in DOMAIN threads : threads'[h] = threads[h]
         /\ Len(threads) + 1 \in Nat \ {0}
<1>1. threads \in Seq(Tasks) /\ DOMAIN threads = 1 .. Len(threads) /\ Len(threads) \in Nat
  BY DEF TasksInv, Typed
<1> QED BY <1>1

LEMMA ThreadStartedStep ==
  ASSUME TasksInv, NEW t \in Tasks, NEW r \in Waiting(t), ThreadStarted(t, r)
  PROVE  TasksInv'
<1>0. PICK h : h = Len(threads) + 1
  OBVIOUS
<1> DEFINE begins == status[t] # "cancelled"
           turn == [kind |-> "turn", task |-> t, thread |-> h]
           S == IF begins THEN {turn} ELSE {}
<1>1. /\ threads' = Append(threads, t)
      /\ threadId' = [threadId EXCEPT ![t] = h]
      /\ runtime' = With(t, [Runtime(t) EXCEPT !.thread = TRUE, !.cancel = @ /\ ~begins])
      /\ status' = [status EXCEPT ![t] = IF @ = "ready" THEN "running" ELSE @]
      /\ Reply(r, S)
      /\ UNCHANGED <<activeTurn, worktree, starts, recovery, backend, turns, nextTurn, born, nextAsk>>
  BY <1>0 DEF ThreadStarted
<1>2. /\ status[t] # "new" /\ backend = "ready"
  BY WaitingIs
<1>3. /\ DOMAIN runtime' = DOMAIN runtime \cup {t} /\ DOMAIN runtime' \subseteq Tasks
      /\ runtime' \in [DOMAIN runtime' -> Entry]
      /\ \A x \in DOMAIN runtime \ {t} : runtime'[x] = runtime[x]
      /\ runtime'[t].cancel => t \in DOMAIN runtime /\ runtime[t].cancel
  BY <1>1, LoadedRuntime
<1>4. /\ threads' \in Seq(Tasks) /\ h \notin DOMAIN threads
      /\ DOMAIN threads' = DOMAIN threads \cup {h}
      /\ threads'[h] = t /\ \A k \in DOMAIN threads : threads'[k] = threads[k]
      /\ h \in Nat \ {0}
  BY <1>0, <1>1, AppendOwn
<1>5. /\ \A x \in Tasks \ {t} : status'[x] = status[x] /\ threadId'[x] = threadId[x]
      /\ status'[t] = status[t] \/ status'[t] = "running"
      /\ status' \in [Tasks -> Status] /\ threadId'[t] = h /\ threadId' \in [Tasks -> Nat]
  BY <1>1, <1>4 DEF TasksInv, Typed, Status
<1>6. Typed'
  BY <1>1, <1>3, <1>4, <1>5 DEF TasksInv, Typed
<1>7. /\ \A x, k : Own(x, k) => Own(x, k)'
      /\ Own(t, h)'
      /\ \A x : Held(x) => Held(x)'
      /\ Held(t)'
  <2>1. \A x, k : Own(x, k) => Own(x, k)'
    BY <1>4 DEF Own
  <2>2. Own(t, h)'
    BY <1>4 DEF Own
  <2>3. \A x : Held(x) => Held(x)'
    BY <1>1, <1>3 DEF Held
  <2>4. Held(t)'
    BY <1>3 DEF Held
  <2> QED BY <2>1, <2>2, <2>3, <2>4
<1>8. ThreadsOwn'
  <2> SUFFICES ASSUME NEW x \in Tasks, threadId'[x] # 0 PROVE Own(x, threadId[x])'
    BY DEF ThreadsOwn
  <2>1. CASE x = t
    BY <2>1, <1>4, <1>5 DEF Own
  <2>2. CASE x # t
    BY <2>2, <1>4, <1>5 DEF TasksInv, ThreadsOwn, Own
  <2> QED BY <2>1, <2>2
<1>9. SentProper'
  <2>1. ASSUME NEW q \in BagToSet(sent') PROVE Proper(q)'
    <3>1. CASE q \in BagToSet(sent)
      <4>1. Proper(q)
        BY <3>1 DEF TasksInv, SentProper
      <4> QED BY <4>1, <1>5, <1>7 DEF Proper
    <3>2. CASE q \notin BagToSet(sent)
      <4>1. q = turn
        BY <1>1, <3>2, RepliedBy
      <4>2. q.task = t /\ q.kind = "turn" /\ q.thread = h
        BY <4>1
      <4>3. status'[t] # "new"
        BY <1>2, <1>5
      <4> QED BY <4>2, <4>3, <1>7 DEF Proper
    <3> QED BY <3>1, <3>2
  <2> QED BY <1>1, <1>2, <2>1 DEF SentProper
<1>10. TurnsOwn'
  <2>1. ASSUME NEW u \in DOMAIN turns
        PROVE  /\ Own(turns[u].task, turns[u].thread)' /\ Held(turns[u].task)'
               /\ status'[turns[u].task] # "new"
    <3>1. turns[u].task \in Tasks
      BY DEF TasksInv, Typed, Turn
    <3> QED BY <3>1, <1>1, <1>5, <1>7 DEF TasksInv, TurnsOwn, Own, Held
  <2> QED BY <1>1, <2>1 DEF TasksInv, TurnsOwn, Own, Held
<1>11. NewIsBlank'
  BY <1>1, <1>5 DEF TasksInv, NewIsBlank
<1>12. Watched'
  <2> SUFFICES ASSUME NEW x \in Tasks, worktree'[x] # "gone", NEW u \in Untold(x)'
               PROVE  activeTurn'[x] = u /\ status'[x] # "cancelled"
    BY DEF Watched
  <2>1. /\ u \in DOMAIN turns /\ turns[u].task = x /\ ~turns[u].told /\ ~turns[u].shared
        /\ Own(x, turns[u].thread)
    BY <1>1 DEF Untold, TasksInv, TurnsOwn
  <2>2. \A k \in DOMAIN threads' : threads'[k] = x => k = threadId'[x]
    BY DEF Untold, Single
  <2>3. x # t
    BY <2>1, <2>2, <1>4, <1>5 DEF Own
  <2>4. Single(x)
    BY <2>2, <2>3, <1>4, <1>5 DEF Single
  <2>5. u \in Untold(x)
    BY <2>1, <2>4 DEF Untold
  <2> QED BY <2>3, <2>5, <1>1, <1>5 DEF TasksInv, Watched
<1>13. Accepted' /\ ActiveTurnIsLive'
  BY <1>1 DEF TasksInv, Accepted, ActiveTurnIsLive
<1>14. CancelFinal'
  BY <1>3, <1>5 DEF CancelFinal, TasksInv
<1> QED BY <1>6, <1>8, <1>9, <1>10, <1>11, <1>12, <1>13, <1>14 DEF TasksInv

LEMMA TurnAcceptedStep ==
  ASSUME TasksInv, NEW t \in Tasks, NEW r \in Waiting(t), TurnAccepted(t, r)
  PROVE  TasksInv'
<1>0. PICK n : n = nextTurn
  OBVIOUS
<1>1. PICK others : others = {x \in DOMAIN turns : turns[x].task = t}
  OBVIOUS
<1>2. PICK told \in BOOLEAN : told <=> Cancelling(t) /\ r.thread = threadId[t]
  OBVIOUS
<1>3. PICK turn : turn = [task |-> t, thread |-> r.thread, begun |-> FALSE, asking |-> {},
                          told |-> Cancelling(t) /\ r.thread = threadId[t], shared |-> others # {}]
  OBVIOUS
<1>4. /\ r.kind = "turn"
      /\ turns' = [x \in DOMAIN turns \cup {n} |->
                     IF x = n THEN turn
                     ELSE [turns[x] EXCEPT !.shared = @ \/ x \in others]]
      /\ nextTurn' = n + 1
      /\ activeTurn' = [activeTurn EXCEPT ![t] = n]
      /\ Reply(r, {})
      /\ UNCHANGED <<status, threadId, worktree, memory, backend, threads, born, nextAsk>>
  BY <1>0, <1>1, <1>3 DEF TurnAccepted
<1>5. /\ status[t] # "new" /\ backend = "ready" /\ Own(t, r.thread) /\ Held(t)
  BY <1>4, WaitingIs DEF Proper
<1>6. /\ turn.task = t /\ turn.thread = r.thread /\ turn \in Turn
      /\ turn.told <=> Cancelling(t) /\ r.thread = threadId[t]
      /\ turn.shared <=> others # {}
  <2>1. r.thread \in Nat
    BY <1>5 DEF Own, TasksInv, Typed
  <2>2. (Cancelling(t) /\ r.thread = threadId[t]) \in BOOLEAN /\ (others # {}) \in BOOLEAN
    BY Zenon
  <2> QED BY <1>3, <2>1, <2>2 DEF Turn
<1>7. /\ n \in Nat /\ n \notin DOMAIN turns /\ DOMAIN turns' = DOMAIN turns \cup {n}
      /\ turns'[n] = turn /\ born <= n
  BY <1>0, <1>4 DEF TasksInv, TurnsOwn, Typed
<1>8. ASSUME NEW u \in DOMAIN turns
      PROVE  /\ turns'[u] \in Turn
             /\ turns'[u].task = turns[u].task /\ turns'[u].thread = turns[u].thread
             /\ turns'[u].told = turns[u].told
             /\ turns'[u].shared <=> turns[u].shared \/ turns[u].task = t
  <2>1. turns'[u] = [turns[u] EXCEPT !.shared = @ \/ u \in others] /\ turns[u] \in Turn
    BY <1>4, <1>7 DEF TasksInv, Typed
  <2>2. (turns[u].shared \/ u \in others) \in BOOLEAN
    BY Zenon
  <2>3. u \in others <=> turns[u].task = t
    BY <1>1
  <2> QED BY <2>1, <2>2, <2>3 DEF Turn
<1>9. Typed'
  <2>1. turns' \in [DOMAIN turns' -> Turn] /\ DOMAIN turns' \subseteq Nat
    BY <1>4, <1>6, <1>7, <1>8 DEF TasksInv, Typed
  <2>2. activeTurn' \in [Tasks -> Nat] /\ nextTurn' \in Nat /\ born <= nextTurn'
    BY <1>0, <1>4, <1>7 DEF TasksInv, Typed
  <2> QED BY <1>4, <2>1, <2>2 DEF TasksInv, Typed, memory
<1>10. \A x, h : Own(x, h)' = Own(x, h) /\ Held(x)' = Held(x)
  BY <1>4 DEF Own, Held, memory
<1>11. ThreadsOwn' /\ NewIsBlank' /\ CancelFinal'
  BY <1>4, <1>5 DEF TasksInv, Typed, ThreadsOwn, Own, NewIsBlank, CancelFinal, memory
<1>12. SentProper'
  <2>1. BagToSet(sent') \subseteq BagToSet(sent)
    BY <1>4, RepliedBy
  <2> QED BY <2>1, <1>4, <1>5, <1>10 DEF TasksInv, SentProper, Proper
<1>13. TurnsOwn'
  <2>1. ASSUME NEW u \in DOMAIN turns'
        PROVE  /\ Own(turns'[u].task, turns'[u].thread) /\ Held(turns'[u].task)
               /\ status'[turns'[u].task] # "new" /\ born' <= u /\ u < nextTurn'
    <3>1. CASE u = n
      BY <3>1, <1>4, <1>5, <1>6, <1>7
    <3>2. CASE u # n
      <4>1. u \in DOMAIN turns /\ u \in Nat /\ u < n
        BY <3>2, <1>0, <1>7 DEF TasksInv, TurnsOwn, Typed
      <4> QED BY <4>1, <1>4, <1>7, <1>8 DEF TasksInv, TurnsOwn
    <3> QED BY <3>1, <3>2
  <2>2. ASSUME NEW u \in DOMAIN turns', NEW v \in DOMAIN turns', u # v,
               turns'[u].task = turns'[v].task
        PROVE  turns'[u].shared
    <3>1. CASE u = n
      BY <3>1, <2>2, <1>1, <1>6, <1>7, <1>8
    <3>2. CASE v = n
      BY <3>2, <2>2, <1>6, <1>7, <1>8
    <3>3. CASE u # n /\ v # n
      BY <3>3, <2>2, <1>7, <1>8 DEF TasksInv, TurnsOwn
    <3> QED BY <3>1, <3>2, <3>3
  <2> QED BY <1>4, <1>5, <1>10, <2>1, <2>2 DEF TurnsOwn
<1>14. Watched'
  <2> SUFFICES ASSUME NEW x \in Tasks, worktree'[x] # "gone", NEW u \in Untold(x)'
               PROVE  activeTurn'[x] = u /\ status'[x] # "cancelled"
    BY DEF Watched
  <2>1. /\ u \in DOMAIN turns' /\ turns'[u].task = x /\ ~turns'[u].told /\ ~turns'[u].shared
        /\ Single(x)
    BY <1>4 DEF Untold, Single
  <2>2. CASE u = n
    <3>1. x = t /\ r.thread = threadId[t]
      BY <2>1, <2>2, <1>5, <1>6, <1>7 DEF Own, Single
    <3>2. status[t] # "cancelled"
      BY <2>1, <2>2, <3>1, <1>6, <1>7 DEF Cancelling
    <3> QED BY <2>2, <3>1, <3>2, <1>4 DEF TasksInv, Typed
  <2>3. CASE u # n
    <3>1. u \in Untold(x) /\ x # t
      BY <2>1, <2>3, <1>7, <1>8 DEF Untold
    <3> QED BY <3>1, <1>4 DEF TasksInv, Typed, Watched
  <2> QED BY <2>2, <2>3
<1>15. Accepted' /\ ActiveTurnIsLive'
  BY <1>0, <1>4, <1>6, <1>7, <1>8 DEF TasksInv, Typed, Accepted, ActiveTurnIsLive
<1> QED BY <1>9, <1>11, <1>12, <1>13, <1>14, <1>15 DEF TasksInv

-----------------------------------------------------------------------------
(* Notifications.                                                          *)

\* Turn u is one of a created task, and handled while the task has a worktree.
LEMMA TurnIs ==
  ASSUME TasksInv, NEW u \in DOMAIN turns
  PROVE  /\ turns[u] \in Turn /\ turns[u].task \in Tasks
         /\ Own(turns[u].task, turns[u].thread) /\ status[turns[u].task] # "new"
         /\ worktree[turns[u].task] # "gone" => Handled(u)
         /\ backend = "ready" /\ u \in Nat /\ u < nextTurn /\ born <= u
BY DEF TasksInv, TurnsOwn, Typed, Turn, Held, Handled

LEMMA TurnStartedStep ==
  ASSUME TasksInv, NEW u \in DOMAIN turns, TurnStarted(u)
  PROVE  TasksInv'
<1>0. PICK t : t = turns[u].task
  OBVIOUS
<1>1. /\ t \in Tasks /\ turns[u] \in Turn /\ Own(t, turns[u].thread) /\ status[t] # "new"
      /\ worktree[t] # "gone" => Handled(u)
      /\ backend = "ready" /\ u \in Nat /\ u < nextTurn
  BY <1>0, TurnIs
<1>2. UNCHANGED <<threadId, worktree, memory, backend, sent, threads, nextTurn, born, nextAsk>>
  BY DEF TurnStarted
<1>3. /\ DOMAIN turns' = DOMAIN turns /\ turns' \in [DOMAIN turns -> Turn]
      /\ SameTurns
      /\ \A x \in DOMAIN turns \ {u} : turns'[x] = turns[x]
  <2>1. PICK told \in BOOLEAN :
          turns' = [turns EXCEPT ![u] = [[turns[u] EXCEPT !.begun = TRUE] EXCEPT !.told = told]]
                   /\ (turns[u].told => told)
    <3>1. CASE ~Handled(u) \/ ~Cancelling(t)
      <4>1. turns' = [turns EXCEPT ![u].begun = TRUE]
        BY <1>0, <3>1 DEF TurnStarted
      <4>2. turns' = [turns EXCEPT ![u] = [[turns[u] EXCEPT !.begun = TRUE] EXCEPT !.told = turns[u].told]]
        BY <1>1, <4>1 DEF Turn
      <4> QED BY <1>1, <4>2 DEF Turn
    <3>2. CASE Handled(u) /\ Cancelling(t)
      <4>1. turns' = [[turns EXCEPT ![u].begun = TRUE] EXCEPT ![u].told = @ \/ turns[u].thread = threadId[t]]
        BY <1>0, <3>2 DEF TurnStarted
      <4>2. PICK told \in BOOLEAN : told = (turns[u].told \/ turns[u].thread = threadId[t])
        BY Zenon
      <4>3. turns' = [turns EXCEPT ![u] = [[turns[u] EXCEPT !.begun = TRUE] EXCEPT !.told = told]]
        BY <1>1, <4>1, <4>2 DEF Turn, TasksInv, Typed
      <4> QED BY <4>2, <4>3
    <3> QED BY <3>1, <3>2
  <2> QED BY <1>1, <2>1 DEF TasksInv, Typed, Turn, SameTurns
<1>4. /\ activeTurn' \in [Tasks -> Nat] /\ status' \in [Tasks -> Status]
      /\ \A x \in Tasks \ {t} : activeTurn'[x] = activeTurn[x] /\ status'[x] = status[x]
      /\ status'[t] \in {status[t], "running"}
      /\ activeTurn'[t] \in {activeTurn[t], u}
  BY <1>0, <1>1 DEF TurnStarted, SetStatus, TasksInv, Typed, Status
<1>5. Typed'
  BY <1>2, <1>3, <1>4 DEF TasksInv, Typed, memory
<1>6. /\ \A x, h : Own(x, h) => Own(x, h)'
      /\ \A x : Held(x) => Held(x)'
  BY <1>2 DEF Own, Held, memory
<1>7. ThreadsOwn'
  BY <1>2 DEF TasksInv, ThreadsOwn, Own
<1>8. SentProper'
  <2>1. \A r \in BagToSet(sent) : Proper(r) => Proper(r)'
    BY <1>1, <1>4, <1>6 DEF Proper
  <2> QED BY <1>2, <2>1 DEF TasksInv, SentProper
<1>9. TurnsOwn'
  <2>1. ASSUME NEW x \in DOMAIN turns
        PROVE  /\ Own(turns[x].task, turns[x].thread)' /\ Held(turns[x].task)'
               /\ status'[turns'[x].task] # "new" /\ born' <= x /\ x < nextTurn'
    <3>1. /\ Own(turns[x].task, turns[x].thread) /\ Held(turns[x].task)
          /\ status[turns[x].task] # "new" /\ born <= x /\ x < nextTurn /\ turns[x].task \in Tasks
      BY TurnIs DEF TasksInv, TurnsOwn
    <3>2. turns'[x].task = turns[x].task /\ turns'[x].thread = turns[x].thread
      BY <1>3 DEF SameTurns
    <3> QED BY <3>1, <3>2, <1>2, <1>4, <1>6 DEF Own, Held, memory
  <2>2. \A x, y \in DOMAIN turns' : x # y /\ turns'[x].task = turns'[y].task => turns'[x].shared
    BY <1>3 DEF TasksInv, TurnsOwn, SameTurns
  <2> QED BY <1>1, <1>2, <1>3, <2>1, <2>2 DEF TurnsOwn
<1>10. NewIsBlank'
  BY <1>1, <1>2, <1>4 DEF TasksInv, NewIsBlank, memory
<1>11. Watched'
  <2> SUFFICES ASSUME NEW x \in Tasks, worktree'[x] # "gone", NEW v \in Untold(x)'
               PROVE  activeTurn'[x] = v /\ status'[x] # "cancelled"
    BY DEF Watched
  <2>1. /\ v \in Untold(x) /\ v \in DOMAIN turns /\ turns[v].task = x /\ ~turns'[v].told
        /\ ~turns[v].shared /\ Single(x)
    BY <1>2, <1>3 DEF Untold, Single, SameTurns
  <2>2. activeTurn[x] = v /\ status[x] # "cancelled"
    BY <2>1, <1>2 DEF TasksInv, Watched
  <2>3. CASE x = t
    <3>1. u = v
      BY <2>1, <2>3, <1>0 DEF TasksInv, TurnsOwn
    <3> QED BY <2>2, <2>3, <3>1, <1>4
  <2>4. CASE x # t
    BY <2>2, <2>4, <1>4
  <2> QED BY <2>3, <2>4
<1>12. Accepted' /\ ActiveTurnIsLive'
  <2>1. ASSUME NEW x \in Tasks
        PROVE  /\ activeTurn'[x] < nextTurn'
               /\ activeTurn'[x] \in DOMAIN turns' => turns'[activeTurn'[x]].task = x
    <3>1. CASE activeTurn'[x] = activeTurn[x]
      <4>1. /\ activeTurn[x] < nextTurn
            /\ activeTurn[x] \in DOMAIN turns => turns[activeTurn[x]].task = x
        BY DEF TasksInv, Accepted
      <4> QED BY <3>1, <4>1, <1>2, <1>3 DEF SameTurns
    <3>2. CASE activeTurn'[x] # activeTurn[x]
      <4>1. x = t /\ activeTurn'[x] = u
        BY <3>2, <1>4
      <4> QED BY <4>1, <1>0, <1>1, <1>2, <1>3 DEF SameTurns
    <3> QED BY <3>1, <3>2
  <2>2. ActiveTurnIsLive'
    BY <1>1, <1>2, <1>3, <1>4 DEF TasksInv, ActiveTurnIsLive
  <2> QED BY <2>1, <2>2 DEF Accepted
<1>13. CancelFinal'
  BY <1>2, <1>4 DEF TasksInv, Typed, CancelFinal, memory
<1> QED BY <1>5, <1>7, <1>8, <1>9, <1>10, <1>11, <1>12, <1>13 DEF TasksInv

LEMMA TurnCompletedStep ==
  ASSUME TasksInv, NEW u \in DOMAIN turns, NEW how, TurnCompleted(u, how)
  PROVE  TasksInv'
<1>0. PICK t : t = turns[u].task
  OBVIOUS
<1>1. /\ t \in Tasks /\ status[t] # "new" /\ backend = "ready"
      /\ worktree[t] # "gone" => Handled(u)
  BY <1>0, TurnIs
<1>2. /\ turns' = [x \in DOMAIN turns \ {u} |-> turns[x]]
      /\ UNCHANGED <<threadId, worktree, memory, backend, sent, threads, nextTurn, born, nextAsk>>
  BY DEF TurnCompleted
<1>3. /\ DOMAIN turns' = DOMAIN turns \ {u}
      /\ \A x \in DOMAIN turns' : turns'[x] = turns[x]
  BY <1>2
<1>4. \/ /\ Handled(u) /\ activeTurn' = [activeTurn EXCEPT ![t] = 0]
         /\ status' = [status EXCEPT ![t] = Outcome(t, how)]
      \/ ~Handled(u) /\ UNCHANGED <<activeTurn, status>>
  BY <1>0 DEF TurnCompleted, NoneActive, SetStatus
<1>5. /\ Outcome(t, how) \in {"cancelled", "completed", "failed"}
      /\ t \in DOMAIN runtime /\ runtime[t].cancel => Outcome(t, how) # "completed"
  <2>1. Outcome(t, how) \in {"cancelled", "completed", "failed"}
    BY DEF Outcome
  <2>2. t \in DOMAIN runtime => Runtime(t) = runtime[t]
    BY DEF Runtime
  <2>3. ASSUME t \in DOMAIN runtime, runtime[t].cancel PROVE Outcome(t, how) # "completed"
    <3>1. Cancelling(t)
      BY <2>2, <2>3 DEF Cancelling
    <3> QED BY <3>1 DEF Outcome
  <2> QED BY <2>1, <2>3
<1>6. /\ activeTurn' \in [Tasks -> Nat] /\ status' \in [Tasks -> Status]
      /\ \A x \in Tasks \ {t} : activeTurn'[x] = activeTurn[x] /\ status'[x] = status[x]
      /\ status'[t] # "new"
      /\ Handled(u) => activeTurn'[t] = 0 /\ status'[t] = Outcome(t, how)
      /\ ~Handled(u) => activeTurn'[t] = activeTurn[t] /\ status'[t] = status[t]
  <2>1. status \in [Tasks -> Status] /\ activeTurn \in [Tasks -> Nat]
    BY DEF TasksInv, Typed
  <2>2. Outcome(t, how) \in Status \ {"new"}
    BY <1>5 DEF Status
  <2>3. CASE Handled(u)
    <3>1. /\ activeTurn' = [activeTurn EXCEPT ![t] = 0]
          /\ status' = [status EXCEPT ![t] = Outcome(t, how)]
      BY <1>4, <2>3
    <3> QED BY <1>1, <2>1, <2>2, <2>3, <3>1
  <2>4. CASE ~Handled(u)
    BY <1>1, <1>4, <2>1, <2>4
  <2> QED BY <2>3, <2>4
<1>7. Typed'
  <2>1. turns' \in [DOMAIN turns' -> Turn] /\ DOMAIN turns' \subseteq Nat
    BY <1>2, <1>3 DEF TasksInv, Typed
  <2> QED BY <1>2, <1>6, <2>1 DEF TasksInv, Typed, memory
<1>8. ThreadsOwn'
  BY <1>2 DEF TasksInv, ThreadsOwn, Own
<1>9. SentProper'
  <2>1. \A r \in BagToSet(sent) : Proper(r) => Proper(r)'
    BY <1>2, <1>6 DEF Proper, Own, Held, memory
  <2> QED BY <1>2, <2>1 DEF TasksInv, SentProper
<1>10. TurnsOwn'
  <2>1. ASSUME NEW x \in DOMAIN turns'
        PROVE  /\ Own(turns[x].task, turns[x].thread)' /\ Held(turns[x].task)'
               /\ status'[turns'[x].task] # "new" /\ born' <= x /\ x < nextTurn'
    <3>1. x \in DOMAIN turns /\ turns'[x] = turns[x]
      BY <1>3
    <3>2. /\ Own(turns[x].task, turns[x].thread) /\ Held(turns[x].task)
          /\ status[turns[x].task] # "new" /\ born <= x /\ x < nextTurn /\ turns[x].task \in Tasks
      BY <3>1, TurnIs DEF TasksInv, TurnsOwn
    <3>3. status'[turns[x].task] # "new"
      BY <3>2, <1>6
    <3> QED BY <3>1, <3>2, <3>3, <1>2 DEF Own, Held, memory
  <2>2. \A x, y \in DOMAIN turns' : x # y /\ turns'[x].task = turns'[y].task => turns'[x].shared
    BY <1>3 DEF TasksInv, TurnsOwn
  <2> QED BY <1>1, <1>2, <2>1, <2>2 DEF TurnsOwn
<1>11. NewIsBlank'
  BY <1>1, <1>2, <1>6 DEF TasksInv, NewIsBlank, memory
<1>12. Watched'
  <2> SUFFICES ASSUME NEW x \in Tasks, worktree'[x] # "gone", NEW v \in Untold(x)'
               PROVE  activeTurn'[x] = v /\ status'[x] # "cancelled"
    BY DEF Watched
  <2>1. /\ v \in Untold(x) /\ v \in DOMAIN turns /\ v # u /\ turns[v].task = x /\ ~turns[v].shared
    BY <1>2, <1>3 DEF Untold, Single
  <2>2. x # t
    BY <2>1, <1>0 DEF TasksInv, TurnsOwn
  <2> QED BY <2>1, <2>2, <1>2, <1>6 DEF TasksInv, Watched
<1>13. Accepted'
  <2> SUFFICES ASSUME NEW x \in Tasks
               PROVE  /\ activeTurn'[x] < nextTurn'
                      /\ activeTurn'[x] \in DOMAIN turns' => turns'[activeTurn'[x]].task = x
    BY DEF Accepted
  <2>1. CASE activeTurn'[x] = activeTurn[x]
    BY <2>1, <1>2, <1>3 DEF TasksInv, Accepted
  <2>2. CASE activeTurn'[x] # activeTurn[x]
    <3>1. activeTurn'[x] = 0
      BY <2>2, <1>6
    <3>2. 0 < nextTurn /\ 0 \notin DOMAIN turns
      BY DEF TasksInv, Typed, TurnsOwn
    <3> QED BY <3>1, <3>2, <1>2, <1>3
  <2> QED BY <2>1, <2>2
<1>14. ActiveTurnIsLive'
  <2> SUFFICES ASSUME NEW x \in Tasks, activeTurn'[x] >= born', worktree'[x] # "gone"
               PROVE  activeTurn'[x] \in DOMAIN turns'
    BY DEF ActiveTurnIsLive
  <2>1. x # t
    BY <1>1, <1>2, <1>6 DEF TasksInv, Typed
  <2>2. activeTurn[x] \in DOMAIN turns /\ activeTurn[x] # u
    BY <2>1, <1>0, <1>2, <1>6 DEF TasksInv, ActiveTurnIsLive, Accepted
  <2> QED BY <2>1, <2>2, <1>3, <1>6
<1>15. CancelFinal'
  BY <1>1, <1>2, <1>5, <1>6 DEF TasksInv, Typed, CancelFinal, memory
<1> QED BY <1>7, <1>8, <1>9, <1>10, <1>11, <1>12, <1>13, <1>14, <1>15 DEF TasksInv

LEMMA ErrorReportedStep ==
  ASSUME TasksInv, NEW u \in DOMAIN turns, ErrorReported(u)
  PROVE  TasksInv'
<1>1. /\ turns[u].task \in Tasks /\ status' = [status EXCEPT ![turns[u].task] = "failed"]
      /\ UNCHANGED <<threadId, activeTurn, worktree, memory, server>>
  BY TurnIs DEF ErrorReported, SetStatus
<1>2. Typed' /\ NoneCancelled /\ CancelFinal'
  BY <1>1 DEF TasksInv, Typed, Status, NoneCancelled, CancelFinal, memory, server
<1> QED BY <1>1, <1>2, AtReady, CalmStep DEF memory, server

-----------------------------------------------------------------------------
(* Approvals.                                                              *)

\* Answers take requests from the turns and leave all else of them.
LEMMA AnsweredByIs ==
  ASSUME NEW S, NEW ts, ts \in [DOMAIN ts -> Turn]
  PROVE  /\ DOMAIN AnsweredBy(S, ts) = DOMAIN ts
         /\ AnsweredBy(S, ts) \in [DOMAIN ts -> Turn]
         /\ \A u \in DOMAIN ts :
              /\ AnsweredBy(S, ts)[u].task = ts[u].task
              /\ AnsweredBy(S, ts)[u].thread = ts[u].thread
              /\ AnsweredBy(S, ts)[u].told = ts[u].told
              /\ AnsweredBy(S, ts)[u].shared = ts[u].shared
<1>1. ASSUME NEW u \in DOMAIN ts
      PROVE  /\ [ts[u] EXCEPT !.asking = @ \ S] \in Turn
             /\ [ts[u] EXCEPT !.asking = @ \ S].task = ts[u].task
             /\ [ts[u] EXCEPT !.asking = @ \ S].thread = ts[u].thread
             /\ [ts[u] EXCEPT !.asking = @ \ S].told = ts[u].told
             /\ [ts[u] EXCEPT !.asking = @ \ S].shared = ts[u].shared
  BY DEF Turn
<1> QED BY <1>1 DEF AnsweredBy

\* The same for a turn that asks.
LEMMA AskingIs ==
  ASSUME TasksInv, NEW u \in DOMAIN turns,
         turns' = [turns EXCEPT ![u].asking = @ \cup {nextAsk}]
  PROVE  SameTurns /\ turns' \in [DOMAIN turns' -> Turn] /\ DOMAIN turns' = DOMAIN turns
<1>1. turns[u] \in Turn /\ nextAsk \in Nat /\ turns \in [DOMAIN turns -> Turn]
  BY DEF TasksInv, Typed
<1>2. [turns[u] EXCEPT !.asking = @ \cup {nextAsk}] \in Turn
  BY <1>1 DEF Turn
<1> QED BY <1>1, <1>2 DEF SameTurns, Turn

LEMMA ApprovalAskedStep ==
  ASSUME TasksInv, NEW u \in DOMAIN turns, ApprovalAsked(u)
  PROVE  TasksInv'
<1>0. PICK t : t = turns[u].task
  OBVIOUS
<1> DEFINE e == [Runtime(t) EXCEPT !.asks = @ \cup {[id |-> nextAsk, turn |-> u]}]
<1>1. /\ runtime' = With(t, e)
      /\ status' = [status EXCEPT ![t] = "waiting"]
      /\ turns' = [turns EXCEPT ![u].asking = @ \cup {nextAsk}]
      /\ nextAsk' = nextAsk + 1
      /\ t \in DOMAIN runtime
      /\ UNCHANGED <<threadId, activeTurn, worktree, starts, recovery, backend, sent,
                     threads, nextTurn, born>>
  BY <1>0 DEF ApprovalAsked, Acceptable, SetStatus
<1>2. t \in Tasks /\ u \in Nat
  BY <1>0, TurnIs
<1>3. e \in Entry
  <2>1. Runtime(t) \in Entry
    BY <1>2, RuntimeType DEF TasksInv
  <2>2. nextAsk \in Nat
    BY DEF TasksInv, Typed
  <2>3. [id |-> nextAsk, turn |-> u] \in [id : Nat, turn : Nat]
    BY <1>2, <2>2
  <2> QED BY <2>1, <2>3 DEF Entry
<1> HIDE DEF e
<1>4. /\ DOMAIN runtime' = DOMAIN runtime \cup {t} /\ DOMAIN runtime' \subseteq Tasks
      /\ runtime' \in [DOMAIN runtime' -> Entry]
      /\ \A x \in DOMAIN runtime \ {t} : runtime'[x] = runtime[x]
  BY <1>1, <1>2, <1>3, WithType DEF TasksInv
<1>5. SameTurns /\ turns' \in [DOMAIN turns' -> Turn] /\ DOMAIN turns' = DOMAIN turns
  BY <1>1, AskingIs
<1>6. Typed'
  BY <1>1, <1>4, <1>5 DEF TasksInv, Typed, Status
<1>7. NoneCancelled /\ KeptHeld
  BY <1>1, <1>4 DEF NoneCancelled, KeptHeld, TasksInv, Typed
<1>8. CancelFinal'
  BY <1>1, <1>4 DEF CancelFinal, TasksInv, Typed
<1> QED BY <1>1, <1>5, <1>6, <1>7, <1>8, AtReady, QuietStep

LEMMA ApprovalMissedStep ==
  ASSUME TasksInv, NEW u \in DOMAIN turns, ApprovalMissed(u)
  PROVE  TasksInv'
<1>1. /\ \/ turns' = [turns EXCEPT ![u].asking = @ \cup {nextAsk}]
         \/ UNCHANGED turns
      /\ nextAsk' = nextAsk + 1
      /\ UNCHANGED <<rows, worktree, memory, backend, sent, threads, nextTurn, born>>
  BY DEF ApprovalMissed
<1>2. SameTurns /\ turns' \in [DOMAIN turns' -> Turn] /\ DOMAIN turns' = DOMAIN turns
  BY <1>1, AskingIs DEF SameTurns, TasksInv, Typed
<1>3. Typed' /\ NoneCancelled /\ KeptHeld /\ CancelFinal'
  BY <1>1, <1>2 DEF TasksInv, Typed, NoneCancelled, KeptHeld, CancelFinal, rows, memory
<1> QED BY <1>1, <1>2, <1>3, AtReady, QuietStep DEF rows, memory

LEMMA AnswerStep ==
  ASSUME TasksInv, NEW t \in Tasks, NEW a \in Runtime(t).asks, Answer(t, a)
  PROVE  TasksInv'
<1> DEFINE e == [runtime[t] EXCEPT !.asks = @ \ {a}]
<1>1. /\ runtime' = With(t, e)
      /\ status' = [status EXCEPT ![t] = "running"]
      /\ turns' = AnsweredBy({a.id}, turns)
      /\ t \in DOMAIN runtime
      /\ UNCHANGED <<threadId, activeTurn, worktree, starts, recovery, backend, sent,
                     threads, nextTurn, born, nextAsk>>
  BY DEF Answer, SetStatus
<1>2. e \in Entry
  <2>1. runtime[t] \in Entry
    BY <1>1 DEF TasksInv, Typed
  <2> QED BY <2>1 DEF Entry
<1> HIDE DEF e
<1>3. /\ DOMAIN runtime' = DOMAIN runtime \cup {t} /\ DOMAIN runtime' \subseteq Tasks
      /\ runtime' \in [DOMAIN runtime' -> Entry]
      /\ \A x \in DOMAIN runtime \ {t} : runtime'[x] = runtime[x]
  BY <1>1, <1>2, WithType DEF TasksInv
<1>4. SameTurns /\ turns' \in [DOMAIN turns' -> Turn] /\ DOMAIN turns' = DOMAIN turns
  <2>1. turns \in [DOMAIN turns -> Turn]
    BY DEF TasksInv, Typed
  <2>2. /\ DOMAIN turns' = DOMAIN turns /\ turns' \in [DOMAIN turns -> Turn]
        /\ \A u \in DOMAIN turns :
             /\ turns'[u].task = turns[u].task /\ turns'[u].thread = turns[u].thread
             /\ turns'[u].told = turns[u].told /\ turns'[u].shared = turns[u].shared
    BY <2>1, <1>1, AnsweredByIs
  <2> QED BY <2>2 DEF SameTurns
<1>5. Typed'
  BY <1>1, <1>3, <1>4 DEF TasksInv, Typed, Status
<1>6. NoneCancelled /\ KeptHeld
  BY <1>1, <1>3 DEF NoneCancelled, KeptHeld, TasksInv, Typed
<1>7. CancelFinal'
  BY <1>1, <1>3 DEF CancelFinal, TasksInv, Typed
<1> QED BY <1>1, <1>4, <1>5, <1>6, <1>7, AtReady, QuietStep

-----------------------------------------------------------------------------
(* Cancel and cleanup.                                                     *)

\* The turns once turn k was interrupted, for a server that is ready.
LEMMA ToldIs ==
  ASSUME TasksInv, NEW t \in Tasks, NEW k, backend = "ready"
  PROVE  /\ DOMAIN Told(t, k) = DOMAIN turns /\ Told(t, k) \in [DOMAIN turns -> Turn]
         /\ \A u \in DOMAIN turns :
              /\ Told(t, k)[u].task = turns[u].task /\ Told(t, k)[u].thread = turns[u].thread
              /\ Told(t, k)[u].shared = turns[u].shared
              /\ turns[u].told => Told(t, k)[u].told
              /\ u = k /\ turns[u].thread = threadId[t] => Told(t, k)[u].told
<1>1. ASSUME NEW u \in DOMAIN turns
      PROVE  turns[u] \in Turn /\ [turns[u] EXCEPT !.told = TRUE] \in Turn
    BY DEF TasksInv, Typed, Turn
<1> QED BY <1>1 DEF Told, Turn

LEMMA CancelStep ==
  ASSUME TasksInv, NEW t \in Tasks, Cancel(t)
  PROVE  TasksInv'
<1>1. /\ status' = [status EXCEPT ![t] = "cancelled"]
      /\ activeTurn' = [activeTurn EXCEPT ![t] = 0]
      /\ starts' = starts \ {t} /\ recovery' = recovery \ {t}
      /\ status[t] # "new"
      /\ UNCHANGED <<threadId, worktree, backend, sent, threads, nextTurn, born, nextAsk>>
  BY DEF Cancel, SetStatus, NoneActive
<1>2. /\ DOMAIN runtime' = DOMAIN runtime /\ runtime' \in [DOMAIN runtime' -> Entry]
      /\ \A x \in DOMAIN runtime \ {t} : runtime'[x] = runtime[x]
  <2>1. CASE t \in DOMAIN runtime
    <3>1. [runtime[t] EXCEPT !.cancel = TRUE, !.asks = {}] \in Entry
      BY <2>1 DEF TasksInv, Typed, Entry
    <3>2. runtime' = With(t, [runtime[t] EXCEPT !.cancel = TRUE, !.asks = {}])
      BY <2>1 DEF Cancel
    <3>3. PICK e \in Entry : e = [runtime[t] EXCEPT !.cancel = TRUE, !.asks = {}]
      BY <3>1
    <3> QED BY <2>1, <3>2, <3>3, WithType DEF TasksInv
  <2>2. CASE t \notin DOMAIN runtime
    BY <2>2 DEF Cancel, TasksInv, Typed
  <2> QED BY <2>1, <2>2
<1>3. /\ SameTurns /\ turns' \in [DOMAIN turns' -> Turn]
      /\ \A u \in DOMAIN turns :
           /\ t \in DOMAIN runtime /\ u = activeTurn[t] /\ turns[u].thread = threadId[t]
           => turns'[u].told
  <2>1. turns \in [DOMAIN turns -> Turn]
    BY DEF TasksInv, Typed
  <2>2. CASE t \in DOMAIN runtime /\ backend = "ready"
    <3>1. PICK ts : ts = Told(t, activeTurn[t])
      OBVIOUS
    <3>2. turns' = AnsweredBy(Keys(t), ts)
      BY <2>2, <3>1 DEF Cancel
    <3>3. /\ DOMAIN ts = DOMAIN turns /\ ts \in [DOMAIN ts -> Turn]
          /\ \A u \in DOMAIN turns :
               /\ ts[u].task = turns[u].task /\ ts[u].thread = turns[u].thread
               /\ ts[u].shared = turns[u].shared
               /\ turns[u].told => ts[u].told
               /\ u = activeTurn[t] /\ turns[u].thread = threadId[t] => ts[u].told
      BY <2>2, <3>1, ToldIs
    <3>4. /\ DOMAIN turns' = DOMAIN turns /\ turns' \in [DOMAIN turns -> Turn]
          /\ \A u \in DOMAIN turns :
               /\ turns'[u].task = ts[u].task /\ turns'[u].thread = ts[u].thread
               /\ turns'[u].told = ts[u].told /\ turns'[u].shared = ts[u].shared
      BY <3>2, <3>3, AnsweredByIs
    <3> QED BY <3>3, <3>4 DEF SameTurns
  <2>3. CASE ~(t \in DOMAIN runtime /\ backend = "ready")
    <3>1. UNCHANGED turns
      BY <2>3 DEF Cancel
    <3>2. t \in DOMAIN runtime => DOMAIN turns = {}
      BY <2>3, AtReady
    <3> QED BY <2>1, <3>1, <3>2 DEF SameTurns
  <2> QED BY <2>2, <2>3
<1>4. /\ \A x \in Tasks \ {t} : status'[x] = status[x] /\ activeTurn'[x] = activeTurn[x]
      /\ status'[t] = "cancelled" /\ activeTurn'[t] = 0
      /\ status' \in [Tasks -> Status] /\ activeTurn' \in [Tasks -> Nat]
  BY <1>1 DEF TasksInv, Typed, Status
<1>5. Typed'
  BY <1>1, <1>2, <1>3, <1>4 DEF TasksInv, Typed, SameTurns
<1>6. /\ \A x, h : Own(x, h) => Own(x, h)'
      /\ \A x : Held(x) => Held(x)'
  BY <1>1, <1>2 DEF Own, Held
<1>7. ThreadsOwn'
  BY <1>1 DEF TasksInv, ThreadsOwn, Own
<1>8. SentProper'
  <2>1. \A r \in BagToSet(sent) : Proper(r) => Proper(r)'
    BY <1>4, <1>6 DEF Proper
  <2> QED BY <1>1, <2>1 DEF TasksInv, SentProper
<1>9. TurnsOwn'
  <2>1. ASSUME NEW x \in DOMAIN turns
        PROVE  /\ Own(turns[x].task, turns[x].thread)' /\ Held(turns[x].task)'
               /\ status'[turns'[x].task] # "new" /\ born' <= x /\ x < nextTurn'
    <3>1. /\ Own(turns[x].task, turns[x].thread) /\ Held(turns[x].task)
          /\ status[turns[x].task] # "new" /\ born <= x /\ x < nextTurn /\ turns[x].task \in Tasks
      BY TurnIs DEF TasksInv, TurnsOwn
    <3>2. turns'[x].task = turns[x].task /\ turns'[x].thread = turns[x].thread
      BY <1>3 DEF SameTurns
    <3> QED BY <3>1, <3>2, <1>1, <1>2, <1>4 DEF Own, Held
  <2>2. \A x, y \in DOMAIN turns' : x # y /\ turns'[x].task = turns'[y].task => turns'[x].shared
    BY <1>3 DEF TasksInv, TurnsOwn, SameTurns
  <2>3. DOMAIN turns' # {} => backend' = "ready"
    BY <1>1, <1>3 DEF TasksInv, TurnsOwn, SameTurns
  <2>4. DOMAIN turns' = DOMAIN turns
    BY <1>3 DEF SameTurns
  <2> QED BY <2>1, <2>2, <2>3, <2>4 DEF TurnsOwn
<1>10. NewIsBlank'
  BY <1>1, <1>4 DEF TasksInv, NewIsBlank
<1>11. Watched'
  <2> SUFFICES ASSUME NEW x \in Tasks, worktree'[x] # "gone", NEW u \in Untold(x)'
               PROVE  activeTurn'[x] = u /\ status'[x] # "cancelled"
    BY DEF Watched
  <2>1. /\ u \in Untold(x) /\ u \in DOMAIN turns /\ turns[u].task = x /\ ~turns'[u].told
        /\ Single(x)
    BY <1>1, <1>3 DEF Untold, Single, SameTurns
  <2>2. activeTurn[x] = u /\ status[x] # "cancelled"
    BY <2>1, <1>1 DEF TasksInv, Watched
  <2>3. x # t
    <3>1. ASSUME x = t PROVE FALSE
      <4>1. Own(t, turns[u].thread) /\ t \in DOMAIN runtime
        BY <2>1, <3>1, <1>1 DEF TasksInv, TurnsOwn, Held
      <4>2. turns[u].thread = threadId[t]
        BY <2>1, <3>1, <4>1 DEF Single, Own
      <4> QED BY <2>1, <2>2, <3>1, <4>1, <4>2, <1>3
    <3> QED BY <3>1
  <2> QED BY <2>2, <2>3, <1>4
<1>12. Accepted' /\ ActiveTurnIsLive'
  <2>1. ASSUME NEW x \in Tasks
        PROVE  /\ activeTurn'[x] < nextTurn'
               /\ activeTurn'[x] \in DOMAIN turns' => turns'[activeTurn'[x]].task = x
               /\ activeTurn'[x] >= born' /\ worktree'[x] # "gone" => activeTurn'[x] \in DOMAIN turns'
    <3>1. CASE x = t
      <4>1. 0 < nextTurn /\ 0 < born /\ 0 \notin DOMAIN turns
        BY DEF TasksInv, Typed, TurnsOwn
      <4>2. born \in Nat /\ DOMAIN turns' = DOMAIN turns
        BY <1>3 DEF SameTurns, TasksInv, Typed
      <4> QED BY <3>1, <4>1, <4>2, <1>1, <1>4
    <3>2. CASE x # t
      BY <3>2, <1>1, <1>3, <1>4 DEF TasksInv, Accepted, ActiveTurnIsLive, SameTurns
    <3> QED BY <3>1, <3>2
  <2> QED BY <2>1 DEF Accepted, ActiveTurnIsLive
<1>13. CancelFinal'
  BY <1>2, <1>4 DEF TasksInv, Typed, CancelFinal
<1> QED BY <1>5, <1>7, <1>8, <1>9, <1>10, <1>11, <1>12, <1>13 DEF TasksInv

\* A worktree and perhaps the runtime of task t go, and nothing runs or waits
\* otherwise than before.
LEMMA GoneStep ==
  ASSUME TasksInv, NEW t \in Tasks, NEW s \in Status \ {"new", "cancelled", "completed"},
         status' = [status EXCEPT ![t] = s],
         worktree' \in [Tasks -> {"gone", "broken", "usable"}],
         \A x \in Tasks \ {t} : worktree'[x] = worktree[x],
         worktree'[t] \in {"gone", worktree[t]},
         DOMAIN runtime' \subseteq DOMAIN runtime,
         \A x \in DOMAIN runtime' : runtime'[x] = runtime[x],
         DOMAIN runtime \subseteq DOMAIN runtime' \cup {t},
         t \notin DOMAIN runtime' => worktree'[t] = "gone" \/ t \notin DOMAIN runtime,
         runtime' \in [DOMAIN runtime' -> Entry],
         UNCHANGED <<threadId, activeTurn, starts, recovery, backend, sent, threads, turns,
                     nextTurn, born, nextAsk>>
  PROVE  TasksInv'
<1>1. SameTurns
  BY DEF SameTurns
<1>2. Typed'
  BY DEF TasksInv, Typed
<1>3. NoneCancelled
  BY DEF NoneCancelled, TasksInv, Typed
<1>4. KeptHeld
  BY DEF KeptHeld
<1>5. CancelFinal'
  BY DEF CancelFinal, TasksInv, Typed
<1> QED BY <1>1, <1>2, <1>3, <1>4, <1>5, AtReady, QuietStep

LEMMA CleanedUpStep ==
  ASSUME TasksInv, NEW t \in Tasks, CleanedUp(t)
  PROVE  TasksInv'
<1>1. /\ status' = [status EXCEPT ![t] = "archived"]
      /\ worktree' = [worktree EXCEPT ![t] = "gone"]
      /\ runtime' = [x \in DOMAIN runtime \ {t} |-> runtime[x]]
      /\ UNCHANGED <<threadId, activeTurn, starts, recovery, server>>
  BY DEF CleanedUp, SetStatus
<1>2. "archived" \in Status \ {"new", "cancelled", "completed"}
  BY DEF Status
<1>3. /\ worktree' \in [Tasks -> {"gone", "broken", "usable"}] /\ worktree'[t] = "gone"
      /\ \A x \in Tasks \ {t} : worktree'[x] = worktree[x]
  BY <1>1 DEF TasksInv, Typed
<1>4. /\ DOMAIN runtime' = DOMAIN runtime \ {t} /\ runtime' \in [DOMAIN runtime' -> Entry]
      /\ \A x \in DOMAIN runtime' : runtime'[x] = runtime[x]
  BY <1>1 DEF TasksInv, Typed
<1> QED BY <1>1, <1>2, <1>3, <1>4, GoneStep DEF server

LEMMA CleanupRefusedStep ==
  ASSUME TasksInv, NEW t \in Tasks, CleanupRefused(t)
  PROVE  TasksInv'
<1>1. /\ status' = [status EXCEPT ![t] = "failed"]
      /\ UNCHANGED worktree \/ worktree' = [worktree EXCEPT ![t] = "gone"]
      /\ UNCHANGED <<threadId, activeTurn, memory, server>>
  BY DEF CleanupRefused, SetStatus
<1>2. "failed" \in Status \ {"new", "cancelled", "completed"}
  BY DEF Status
<1>3. /\ worktree' \in [Tasks -> {"gone", "broken", "usable"}]
      /\ worktree'[t] \in {"gone", worktree[t]}
      /\ \A x \in Tasks \ {t} : worktree'[x] = worktree[x]
  BY <1>1 DEF TasksInv, Typed
<1>4. runtime \in [DOMAIN runtime -> Entry]
  BY DEF TasksInv, Typed
<1> QED BY <1>1, <1>2, <1>3, <1>4, GoneStep DEF server, memory

LEMMA DamageStep ==
  ASSUME TasksInv, NEW t \in Tasks, Damage(t)
  PROVE  TasksInv'
<1>1. /\ UNCHANGED <<rows, memory, server>> /\ worktree[t] = "usable"
      /\ worktree' \in [Tasks -> {"gone", "broken", "usable"}]
      /\ \A x \in Tasks \ {t} : worktree'[x] = worktree[x]
  BY DEF Damage, TasksInv, Typed
<1>2. Typed' /\ NoneCancelled /\ KeptHeld /\ CancelFinal' /\ SameTurns
  BY <1>1 DEF TasksInv, Typed, NoneCancelled, KeptHeld, CancelFinal, SameTurns, rows, memory, server
<1> QED BY <1>1, <1>2, AtReady, QuietStep DEF rows, memory, server

-----------------------------------------------------------------------------
(* The App Server and the desktop.                                         *)

LEMMA ServerRunsStep ==
  ASSUME TasksInv, ServerRuns
  PROVE  TasksInv'
<1>1. BagToSet(sent) = {} /\ DOMAIN turns = {}
  BY AtReady DEF ServerRuns
<1>2. Typed' /\ NoneCancelled /\ CancelFinal'
  BY DEF ServerRuns, TasksInv, Typed, NoneCancelled, CancelFinal, rows, memory
<1> QED BY <1>1, <1>2, CalmStep DEF ServerRuns, rows, memory

LEMMA ServerReadyStep ==
  ASSUME TasksInv, ServerReady
  PROVE  TasksInv'
<1> DEFINE S == (UNION {Begun(t, status[t]) : t \in starts}) \cup {Request("view", t) : t \in recovery}
<1>1. /\ backend' = "ready" /\ starts' = {} /\ Send(S)
      /\ status' = [t \in Tasks |->
           IF t \in starts /\ TurnAtOnce(t, status[t]) THEN "running" ELSE status[t]]
      /\ runtime' = [t \in DOMAIN runtime \cup starts |->
           IF t \in starts THEN BegunRuntime(t, status[t]) ELSE runtime[t]]
      /\ UNCHANGED <<threadId, activeTurn, worktree, recovery, threads, turns, nextTurn, born, nextAsk>>
  BY DEF ServerReady
<1>2. /\ starts \subseteq Tasks /\ recovery \subseteq Tasks
      /\ \A t \in starts \cup recovery : status[t] # "new"
  BY DEF TasksInv, Typed, NewIsBlank
<1>3. /\ DOMAIN runtime' = DOMAIN runtime \cup starts /\ DOMAIN runtime' \subseteq Tasks
      /\ runtime' \in [DOMAIN runtime' -> Entry]
      /\ \A t \in DOMAIN runtime' :
           runtime'[t].cancel => t \in DOMAIN runtime /\ runtime[t].cancel
  <2>1. ASSUME NEW t \in DOMAIN runtime \cup starts
        PROVE  /\ t \in Tasks /\ runtime'[t] \in Entry
               /\ runtime'[t].cancel => t \in DOMAIN runtime /\ runtime[t].cancel
    <3>1. t \in Tasks
      BY <1>2 DEF TasksInv, Typed
    <3>2. CASE t \in starts
      <4>1. runtime'[t] = BegunRuntime(t, status[t])
        BY <1>1, <3>2
      <4>2. BegunRuntime(t, status[t]) \in Entry /\ (BegunRuntime(t, status[t]).cancel => Runtime(t).cancel)
        BY <3>1, BegunRuntimeType DEF TasksInv
      <4> QED BY <3>1, <4>1, <4>2, RuntimeType DEF TasksInv
    <3>3. CASE t \notin starts
      BY <1>1, <3>1, <3>3 DEF TasksInv, Typed
    <3> QED BY <3>2, <3>3
  <2> QED BY <1>1, <2>1
<1>4. /\ status' \in [Tasks -> Status]
      /\ \A t \in Tasks : status'[t] \in {status[t], "running"}
      /\ \A t \in Tasks : status'[t] = "new" => status[t] = "new"
  BY <1>1 DEF TasksInv, Typed, Status
<1>5. Typed'
  BY <1>1, <1>3, <1>4 DEF TasksInv, Typed
<1>6. NoneCancelled
  BY <1>1, <1>4 DEF NoneCancelled
<1>7. CancelFinal'
  BY <1>3, <1>4 DEF TasksInv, Typed, CancelFinal
<1>8. ASSUME NEW r \in BagToSet(sent') \ BagToSet(sent) PROVE Proper(r)'
  <2>1. r \in S
    BY <1>1, SentBy
  <2>2. CASE \E t \in starts : r \in Begun(t, status[t])
    <3>1. PICK t \in starts : r \in Begun(t, status[t])
      BY <2>2
    <3>2. /\ t \in Tasks /\ r.task = t /\ (r.kind = "resume" => r.thread # 0)
          /\ r.kind = "turn" => t \in DOMAIN runtime /\ Own(t, r.thread)
      BY <1>2, <3>1, BegunIs
    <3>3. /\ status'[t] # "new"
          /\ r.kind = "turn" => Held(t)' /\ Own(t, r.thread)'
      BY <1>1, <1>2, <1>3, <1>4, <3>1, <3>2 DEF Held, Own
    <3> QED BY <3>2, <3>3 DEF Proper, Own
  <2>3. CASE \E t \in recovery : r = Request("view", t)
    <3>1. PICK t \in recovery : r = Request("view", t)
      BY <2>3
    <3>2. r.task = t /\ r.kind = "view" /\ t \in Tasks
      BY <3>1, <1>2, RequestIs
    <3>3. status'[t] # "new"
      BY <3>1, <3>2, <1>2, <1>4
    <3> QED BY <3>2, <3>3 DEF Proper
  <2>4. (\E t \in starts : r \in Begun(t, status[t])) \/ \E t \in recovery : r = Request("view", t)
    BY <2>1
  <2> HIDE DEF S
  <2> QED BY <2>2, <2>3, <2>4, Zenon
<1> QED BY <1>1, <1>3, <1>5, <1>6, <1>7, <1>8, CalmStep

\* No App Server runs: nothing runs there and nothing waits for an answer.
LEMMA DeadStep ==
  ASSUME TasksInv, Typed', UNCHANGED <<threadId, threads, nextTurn>>,
         turns' = <<>>, sent' = EmptyBag, born' = nextTurn,
         NewIsBlank', CancelFinal',
         \A t \in Tasks : activeTurn'[t] \in {activeTurn[t], 0}
  PROVE  TasksInv'
<1>1. DOMAIN turns' = {} /\ BagToSet(sent') = {}
  BY EmptyHasNone
<1>2. ThreadsOwn'
  BY DEF TasksInv, ThreadsOwn, Own
<1>3. SentProper' /\ TurnsOwn' /\ Watched'
  BY <1>1 DEF SentProper, TurnsOwn, Watched, Untold
<1>4. \A t \in Tasks : activeTurn'[t] < nextTurn'
  <2>1. nextTurn \in Nat /\ 0 < nextTurn /\ \A t \in Tasks : activeTurn[t] < nextTurn
    BY DEF TasksInv, Typed, Accepted
  <2> QED BY <2>1
<1>5. Accepted'
  BY <1>1, <1>4 DEF Accepted
<1>6. ActiveTurnIsLive'
  BY <1>4 DEF ActiveTurnIsLive, Typed
<1> QED BY <1>2, <1>3, <1>5, <1>6 DEF TasksInv

LEMMA ServerDiesStep ==
  ASSUME TasksInv, ServerDies
  PROVE  TasksInv'
<1>1. /\ status' = [t \in Tasks |-> IF Waiting(t) # {} THEN "failed" ELSE status[t]]
      /\ sent' = EmptyBag /\ turns' = <<>> /\ born' = nextTurn /\ nextAsk' = 1
      /\ UNCHANGED <<threadId, activeTurn, worktree, memory, threads, nextTurn>>
  BY DEF ServerDies
<1>2. DOMAIN turns' = {}
  BY <1>1, EmptyHasNone
<1>3. /\ status' \in [Tasks -> Status]
      /\ \A t \in Tasks : status'[t] \in {status[t], "failed"}
  BY <1>1 DEF TasksInv, Typed, Status
<1>4. Typed'
  <2>1. turns' \in [DOMAIN turns' -> Turn] /\ DOMAIN turns' \subseteq Nat
    BY <1>1, <1>2
  <2>2. born' \in Nat /\ 1 <= born' /\ born' <= nextTurn' /\ nextTurn' \in Nat
    BY <1>1 DEF TasksInv, Typed
  <2> QED BY <1>1, <1>3, <2>1, <2>2 DEF TasksInv, Typed, memory
<1>5. NewIsBlank' /\ CancelFinal'
  BY <1>1, <1>3 DEF TasksInv, Typed, NewIsBlank, CancelFinal, memory
<1> QED BY <1>1, <1>4, <1>5, DeadStep

\* The desktop starts again, on the rows st and the worktrees wt.
LEMMA ReloadStep ==
  ASSUME TasksInv, NEW st \in [Tasks -> Status],
         NEW wt \in [Tasks -> {"gone", "broken", "usable"}],
         \A t \in Tasks : st[t] = "new" => status[t] = "new",
         Reload(st, wt)
  PROVE  TasksInv'
<1>1. /\ status' = [t \in Tasks |->
           IF st[t] = "new" THEN "new"
           ELSE IF st[t] \in {"archived", "unloaded"} THEN "unloaded"
           ELSE IF wt[t] = "gone" THEN "orphaned"
           ELSE IF t \in Interrupted(st) THEN "ready" ELSE st[t]]
      /\ runtime' = <<>> /\ starts' = {} /\ worktree' = wt
      /\ recovery' = {t \in Interrupted(st) : threadId[t] # 0}
      /\ sent' = EmptyBag /\ turns' = <<>> /\ born' = nextTurn /\ nextAsk' = 1
      /\ UNCHANGED <<threadId, threads, nextTurn>>
  BY DEF Reload
<1>2. PICK unsaved \in SUBSET Tasks :
        activeTurn' = [t \in Tasks |->
          IF t \in Interrupted(st) \cup unsaved THEN 0 ELSE activeTurn[t]]
  BY DEF Reload
<1>3. DOMAIN turns' = {} /\ DOMAIN runtime' = {}
  BY <1>1, EmptyHasNone
<1>4. /\ status' \in [Tasks -> Status]
      /\ \A t \in Tasks : status'[t] = "new" => st[t] = "new"
  BY <1>1 DEF Status
<1>5. /\ activeTurn' \in [Tasks -> Nat]
      /\ \A t \in Tasks : activeTurn'[t] \in {activeTurn[t], 0}
  BY <1>2 DEF TasksInv, Typed
<1>6. recovery' \subseteq Tasks /\ \A t \in recovery' : st[t] # "new"
  BY <1>1 DEF Interrupted, Active
<1>7. Typed'
  <2>1. /\ turns' \in [DOMAIN turns' -> Turn] /\ DOMAIN turns' \subseteq Nat
        /\ runtime' \in [DOMAIN runtime' -> Entry] /\ DOMAIN runtime' \subseteq Tasks
    BY <1>1, <1>3
  <2>2. born' \in Nat /\ 1 <= born' /\ born' <= nextTurn' /\ nextTurn' \in Nat
    BY <1>1 DEF TasksInv, Typed
  <2> QED BY <1>1, <1>4, <1>5, <1>6, <2>1, <2>2 DEF TasksInv, Typed
<1>8. NewIsBlank'
  BY <1>1, <1>4, <1>5, <1>6 DEF TasksInv, NewIsBlank
<1>9. CancelFinal'
  BY <1>3 DEF CancelFinal
<1> QED BY <1>1, <1>5, <1>7, <1>8, <1>9, DeadStep

LEMMA RestartStep ==
  ASSUME TasksInv,
         Restart \/ \E t \in Tasks : CrashInCreate(t) \/ CrashInCleanup(t)
  PROVE  TasksInv'
<1>1. status \in [Tasks -> Status] /\ worktree \in [Tasks -> {"gone", "broken", "usable"}]
  BY DEF TasksInv, Typed
<1>2. CASE Restart
  BY <1>1, <1>2, ReloadStep DEF Restart
<1>3. ASSUME NEW t \in Tasks, CrashInCreate(t) PROVE TasksInv'
  <2>1. PICK w \in {"gone", "usable"} :
          Reload([status EXCEPT ![t] = "creating"], [worktree EXCEPT ![t] = w])
    BY <1>3 DEF CrashInCreate
  <2>2. PICK st : st = [status EXCEPT ![t] = "creating"]
    OBVIOUS
  <2>3. PICK wt : wt = [worktree EXCEPT ![t] = w]
    OBVIOUS
  <2>4. /\ st \in [Tasks -> Status] /\ wt \in [Tasks -> {"gone", "broken", "usable"}]
        /\ \A x \in Tasks : st[x] = "new" => status[x] = "new"
    BY <1>1, <2>2, <2>3 DEF Status
  <2> QED BY <2>1, <2>2, <2>3, <2>4, ReloadStep
<1>4. ASSUME NEW t \in Tasks, CrashInCleanup(t) PROVE TasksInv'
  <2>1. PICK w \in {"gone", worktree[t]} :
          Reload([status EXCEPT ![t] = "cleanup"], [worktree EXCEPT ![t] = w])
    BY <1>4 DEF CrashInCleanup
  <2>2. PICK st : st = [status EXCEPT ![t] = "cleanup"]
    OBVIOUS
  <2>3. PICK wt : wt = [worktree EXCEPT ![t] = w]
    OBVIOUS
  <2>4. /\ st \in [Tasks -> Status] /\ wt \in [Tasks -> {"gone", "broken", "usable"}]
        /\ \A x \in Tasks : st[x] = "new" => status[x] = "new"
    BY <1>1, <2>2, <2>3 DEF Status
  <2> QED BY <2>1, <2>2, <2>3, <2>4, ReloadStep
<1> QED BY <1>2, <1>3, <1>4

-----------------------------------------------------------------------------
(* The invariant and what it shows.                                        *)

LEMMA CommandStep ==
  ASSUME TasksInv, NEW t \in Tasks, Command(t)
  PROVE  TasksInv'
BY CreateStep, ActivateStep, CancelStep, StartLimitedStep, StartQueuedStep, StartStep,
   SendTextStep, CleanedUpStep, CleanupRefusedStep, AnswerStep DEF Command

LEMMA NotificationStep ==
  ASSUME TasksInv, NEW u \in DOMAIN turns, Notification(u)
  PROVE  TasksInv'
<1>1. ASSUME NEW how \in {"completed", "failed", "interrupted"}, TurnCompleted(u, how)
      PROVE  TasksInv'
  BY <1>1, TurnCompletedStep
<1> QED BY <1>1, TurnStartedStep, ErrorReportedStep, ApprovalAskedStep, ApprovalMissedStep
        DEF Notification

LEMMA StutterStep ==
  ASSUME TasksInv, UNCHANGED vars
  PROVE  TasksInv'
<1>1. Typed' /\ NoneCancelled /\ CancelFinal'
  BY DEF vars, rows, memory, server, TasksInv, Typed, NoneCancelled, CancelFinal
<1> QED BY <1>1, AtReady, CalmStep DEF vars, rows, memory, server

LEMMA NextTasksInv == TasksInv /\ [Next]_vars => TasksInv'
<1> SUFFICES ASSUME TasksInv, [Next]_vars PROVE TasksInv'
  OBVIOUS
<1>1. ASSUME NEW t \in Tasks, Command(t) PROVE TasksInv'
  BY <1>1, CommandStep
<1>2. ASSUME NEW t \in Tasks, NEW r \in Waiting(t), Answers(t, r) PROVE TasksInv'
  BY <1>2, ThreadStartedStep, ResumedStep, TurnAcceptedStep, RefusedStep DEF Answers
<1>3. ASSUME NEW t \in Tasks, Damage(t) PROVE TasksInv'
  BY <1>3, DamageStep
<1>4. ASSUME NEW u \in DOMAIN turns, Notification(u) PROVE TasksInv'
  BY <1>4, NotificationStep
<1>5. CASE ServerRuns \/ ServerReady \/ ServerDies
  BY <1>5, ServerRunsStep, ServerReadyStep, ServerDiesStep
<1>6. CASE Restart \/ \E t \in Tasks : CrashInCreate(t) \/ CrashInCleanup(t)
  BY <1>6, RestartStep
<1>7. CASE UNCHANGED vars
  BY <1>7, StutterStep
<1> QED BY <1>1, <1>2, <1>3, <1>4, <1>5, <1>6, <1>7 DEF Next

LEMMA Invariance == Spec => []TasksInv
BY InitTasksInv, NextTasksInv, PTL DEF Spec

\* Once cancel_agent_task has asked a task to stop, no handler counts it as
\* completed, unless the task is started again.
THEOREM CancelIsFinal == Spec => []CancelledNeverCompletes
<1>1. TasksInv => CancelledNeverCompletes
  BY RuntimeType DEF TasksInv, CancelFinal, CancelledNeverCompletes
<1> QED BY <1>1, Invariance, PTL

\* No turn of a cancelled task with a worktree runs that was not told to stop,
\* if the task has no other thread and no other turn beside it.
THEOREM CancelReachesTurn == Spec => []CancelStopsTurn
<1>1. TasksInv => CancelStopsTurn
  BY DEF TasksInv, Watched, CancelStopsTurn
<1> QED BY <1>1, Invariance, PTL

\* active_turn_id is the id of a turn that runs, or of an earlier App Server's.
THEOREM ActiveTurnRuns == Spec => []ActiveTurnIsLive
<1>1. TasksInv => ActiveTurnIsLive
  BY DEF TasksInv
<1> QED BY <1>1, Invariance, PTL

\* A cleanup, also one that fails, takes the worktree from no turn that was not
\* told to stop.
THEOREM CleanupIsSafe == Spec => CleanupSparesTurns
<1>1. TasksInv => \A t \in Tasks : MayClean(t) /\ worktree[t] # "gone" => Untold(t) = {}
  <2> SUFFICES ASSUME TasksInv, NEW t \in Tasks, MayClean(t), worktree[t] # "gone",
                      NEW u \in Untold(t)
               PROVE  FALSE
    OBVIOUS
  <2>1. activeTurn[t] = u /\ u \in DOMAIN turns
    BY DEF TasksInv, Watched, Untold
  <2> QED BY <2>1 DEF MayClean, TasksInv, Typed, TurnsOwn
<1>2. TasksInv => (\A t \in Tasks : MayClean(t) /\ status'[t] \in {"archived", "failed"}
                      /\ worktree[t] # "gone" /\ worktree'[t] = "gone" => Untold(t) = {})
  BY <1>1
<1> QED BY <1>2, Invariance, PTL DEF CleanupSparesTurns

-----------------------------------------------------------------------------
(* The types: what is bounded, beside the invariant.                       *)

\* The counters and the server.
Counters ==
  /\ backend \in {"off", "starting", "running", "ready"}
  /\ Len(threads) <= MaxThreads
  /\ nextTurn <= MaxTurns + 1
  /\ nextAsk \in 1 .. MaxAsks + 1
  /\ faults \in 0 .. MaxFaults

\* Turns wait for answers to requests, and runtimes hold requests, of an App
\* Server of these bounds.
Asked ==
  /\ \A u \in DOMAIN turns : turns[u].asking \subseteq 1 .. MaxAsks
  /\ \A t \in DOMAIN runtime : runtime[t].asks \subseteq Asks

\* A request is of the form the code gives it, and all but thread/start are
\* about a thread that was made.
Sound(r) ==
  /\ r \in [kind : Kinds, task : Tasks, thread : {0} \cup DOMAIN threads]
  /\ r.kind # "thread" => r.thread # 0
SentSound == IsABag(sent) /\ \A r \in BagToSet(sent) : Sound(r)

\* What is recovered or loaded is a thread that was made.
KnownThreads ==
  /\ \A t \in recovery : threadId[t] # 0
  /\ loaded \subseteq DOMAIN threads

BoundsInv == Counters /\ Asked /\ SentSound /\ KnownThreads

-----------------------------------------------------------------------------
(* Counters.                                                               *)

LEMMA CountersStep ==
  ASSUME Counters, TasksInv, [Next]_vars
  PROVE  Counters'
<1> USE TasksAssumption
<1> USE DEF Counters, rows, memory, server
<1>1. ASSUME NEW t \in Tasks, Command(t) PROVE Counters'
  <2>1. CASE Create(t) \/ StartUnusable(t) \/ StartOverLimit(t) \/ Cancel(t)
             \/ CleanedUp(t) \/ CleanupRefused(t)
    BY <2>1 DEF Create, StartUnusable, StartOverLimit, Cancel, CleanedUp, CleanupRefused
  <2>2. CASE Activate(t)
    BY <2>2 DEF Activate, Woken
  <2>3. ASSUME NEW activate \in BOOLEAN,
               StartQueued(t, activate) \/ Start(t, activate) \/ SendText(t, activate)
        PROVE  Counters'
    BY <2>3 DEF StartQueued, Start, SendText, Woken
  <2>4. ASSUME NEW a, Answer(t, a) PROVE Counters'
    BY <2>4 DEF Answer
  <2> QED BY <1>1, <2>1, <2>2, <2>3, <2>4 DEF Command
<1>2. ASSUME NEW t \in Tasks, NEW r \in Waiting(t), Answers(t, r) PROVE Counters'
  <2>1. CASE ThreadStarted(t, r)
    <3>1. /\ threads' = Append(threads, t) /\ Len(threads) + 1 <= MaxThreads
          /\ UNCHANGED <<backend, nextTurn, nextAsk, faults>>
      BY <2>1 DEF ThreadStarted
    <3>2. Len(threads') = Len(threads) + 1
      BY <3>1 DEF TasksInv, Typed
    <3> QED BY <3>1, <3>2
  <2>2. CASE Resumed(t, r) \/ Refused(t, r)
    BY <2>2 DEF Resumed, Refused
  <2>3. CASE TurnAccepted(t, r)
    <3>1. /\ nextTurn <= MaxTurns /\ nextTurn' = nextTurn + 1
          /\ UNCHANGED <<backend, threads, nextAsk, faults>>
      BY <2>3 DEF TurnAccepted
    <3> QED BY <3>1 DEF TasksInv, Typed
  <2> QED BY <1>2, <2>1, <2>2, <2>3 DEF Answers
<1>3. ASSUME NEW t \in Tasks, Damage(t) PROVE Counters'
  BY <1>3 DEF Damage
<1>4. ASSUME NEW u \in DOMAIN turns, Notification(u) PROVE Counters'
  <2>1. CASE TurnStarted(u) \/ ErrorReported(u)
    BY <2>1 DEF TurnStarted, ErrorReported
  <2>2. ASSUME NEW how, TurnCompleted(u, how) PROVE Counters'
    BY <2>2 DEF TurnCompleted
  <2>3. CASE ApprovalAsked(u) \/ ApprovalMissed(u)
    <3>1. /\ nextAsk <= MaxAsks /\ nextAsk' = nextAsk + 1
          /\ UNCHANGED <<backend, threads, nextTurn, faults>>
      BY <2>3 DEF ApprovalAsked, ApprovalMissed
    <3> QED BY <3>1
  <2> QED BY <1>4, <2>1, <2>2, <2>3 DEF Notification
<1>5. CASE ServerRuns \/ ServerReady
  BY <1>5 DEF ServerRuns, ServerReady
<1>6. ASSUME faults < MaxFaults, faults' = faults + 1, backend' \in {"off", "starting"},
             nextAsk' = 1, UNCHANGED <<threads, nextTurn>>
      PROVE  Counters'
  BY <1>6
<1>7. CASE ServerDies
  BY <1>6, <1>7 DEF ServerDies
<1>8. ASSUME NEW st, NEW wt, Reload(st, wt) PROVE Counters'
  BY <1>6, <1>8 DEF Reload
<1>9. CASE Restart \/ \E t \in Tasks : CrashInCreate(t) \/ CrashInCleanup(t)
  BY <1>8, <1>9 DEF Restart, CrashInCreate, CrashInCleanup
<1>10. CASE UNCHANGED vars
  BY <1>10 DEF vars
<1> QED BY <1>1, <1>2, <1>3, <1>4, <1>5, <1>7, <1>9, <1>10 DEF Next

-----------------------------------------------------------------------------
(* Approvals.                                                              *)

\* No runtime holds a request that it did not hold before.
AsksKept ==
  /\ DOMAIN runtime' \subseteq Tasks
  /\ \A x \in DOMAIN runtime' : runtime'[x].asks \subseteq Runtime(x).asks

\* No turn waits for an answer that it did not wait for before.
AskingKept ==
  \A u \in DOMAIN turns' :
    \/ turns'[u].asking = {}
    \/ u \in DOMAIN turns /\ turns'[u].asking \subseteq turns[u].asking

LEMMA AskedKept ==
  ASSUME Asked, AsksKept, AskingKept
  PROVE  Asked'
<1>1. \A x \in Tasks : Runtime(x).asks \subseteq Asks
  BY DEF Asked, Runtime, Fresh
<1>2. \A x \in DOMAIN runtime' : runtime'[x].asks \subseteq Asks
  BY <1>1 DEF AsksKept
<1>3. \A u \in DOMAIN turns' : turns'[u].asking \subseteq 1 .. MaxAsks
  BY DEF Asked, AskingKept
<1> QED BY <1>2, <1>3 DEF Asked, Asks

\* A runtime that is put in the table with fewer requests, or the same.
LEMMA AsksOfEntry ==
  ASSUME TasksInv, NEW t \in Tasks, NEW e, e.asks \subseteq Runtime(t).asks,
         runtime' = With(t, e)
  PROVE  AsksKept
<1>1. DOMAIN runtime \subseteq Tasks
  BY DEF TasksInv, Typed
<1> QED BY <1>1 DEF AsksKept, With, Runtime

LEMMA AsksUnchanged ==
  ASSUME TasksInv, UNCHANGED runtime
  PROVE  AsksKept
BY DEF TasksInv, Typed, AsksKept, Runtime

LEMMA AskingUnchanged ==
  ASSUME UNCHANGED turns
  PROVE  AskingKept
BY DEF AskingKept

\* What the answers and an interrupt leave the turns to wait for.
LEMMA AnsweredAsking ==
  ASSUME NEW S, NEW ts, ts \in [DOMAIN ts -> Turn]
  PROVE  /\ DOMAIN AnsweredBy(S, ts) = DOMAIN ts
         /\ \A u \in DOMAIN ts : AnsweredBy(S, ts)[u].asking = ts[u].asking \ S
<1>1. ASSUME NEW u \in DOMAIN ts
      PROVE  [ts[u] EXCEPT !.asking = @ \ S].asking = ts[u].asking \ S
  BY DEF Turn
<1> QED BY <1>1 DEF AnsweredBy

LEMMA ToldAsking ==
  ASSUME TasksInv, NEW t, NEW k
  PROVE  /\ DOMAIN Told(t, k) = DOMAIN turns /\ Told(t, k) \in [DOMAIN Told(t, k) -> Turn]
         /\ \A u \in DOMAIN turns : Told(t, k)[u].asking = turns[u].asking
<1>1. ASSUME NEW u \in DOMAIN turns
      PROVE  /\ turns[u] \in Turn /\ [turns[u] EXCEPT !.told = TRUE] \in Turn
             /\ [turns[u] EXCEPT !.told = TRUE].asking = turns[u].asking
  BY DEF TasksInv, Typed, Turn
<1> QED BY <1>1 DEF Told

LEMMA AskedByCommand ==
  ASSUME TasksInv, Asked, NEW t \in Tasks, Command(t)
  PROVE  Asked'
<1> USE DEF rows, memory, server
<1>1. Runtime(t) \in Entry /\ BegunRuntime(t, "ready").asks = Runtime(t).asks
  BY RuntimeType DEF TasksInv, BegunRuntime, Entry
<1>2. CASE Create(t) \/ StartUnusable(t) \/ StartOverLimit(t) \/ CleanupRefused(t)
  <2>1. UNCHANGED <<runtime, turns>>
    BY <1>2 DEF Create, StartUnusable, StartOverLimit, CleanupRefused
  <2> QED BY <2>1, AsksUnchanged, AskingUnchanged, AskedKept
<1>3. CASE Activate(t)
  <2>1. /\ UNCHANGED turns
        /\ runtime' = With(t, Runtime(t)) \/ UNCHANGED runtime
    BY <1>3 DEF Activate
  <2> QED BY <2>1, AsksOfEntry, AsksUnchanged, AskingUnchanged, AskedKept
<1>4. ASSUME NEW activate \in BOOLEAN,
             StartQueued(t, activate) \/ Start(t, activate) \/ SendText(t, activate)
      PROVE  Asked'
  <2>1. UNCHANGED turns
    BY <1>4 DEF StartQueued, Start, SendText
  <2>2. \/ UNCHANGED runtime \/ runtime' = With(t, Runtime(t))
        \/ runtime' = With(t, BegunRuntime(t, "ready"))
        \/ runtime' = With(t, [Runtime(t) EXCEPT !.cancel = FALSE])
    BY <1>4 DEF StartQueued, Start, SendText
  <2>3. [Runtime(t) EXCEPT !.cancel = FALSE].asks = Runtime(t).asks
    BY <1>1 DEF Entry
  <2> QED BY <1>1, <2>1, <2>2, <2>3, AsksOfEntry, AsksUnchanged, AskingUnchanged, AskedKept
<1>5. ASSUME NEW a \in Runtime(t).asks, Answer(t, a) PROVE Asked'
  <2>1. /\ t \in DOMAIN runtime
        /\ runtime' = With(t, [Runtime(t) EXCEPT !.asks = @ \ {a}])
        /\ turns' = AnsweredBy({a.id}, turns)
    BY <1>5 DEF Answer, Runtime
  <2>2. [Runtime(t) EXCEPT !.asks = @ \ {a}].asks \subseteq Runtime(t).asks
    BY <1>1 DEF Entry
  <2>3. AskingKept
    <3>1. turns \in [DOMAIN turns -> Turn]
      BY DEF TasksInv, Typed
    <3> QED BY <2>1, <3>1, AnsweredAsking DEF AskingKept
  <2> QED BY <2>1, <2>2, <2>3, AsksOfEntry, AskedKept
<1>6. CASE Cancel(t)
  <2>1. CASE t \in DOMAIN runtime
    <3>1. /\ runtime' = With(t, [Runtime(t) EXCEPT !.cancel = TRUE, !.asks = {}])
          /\ \/ turns' = AnsweredBy(Keys(t), Told(t, activeTurn[t])) /\ backend = "ready"
             \/ turns' = turns
      BY <1>6, <2>1 DEF Cancel, Runtime
    <3>2. [Runtime(t) EXCEPT !.cancel = TRUE, !.asks = {}].asks \subseteq Runtime(t).asks
      BY <1>1 DEF Entry
    <3>3. AskingKept
      BY <3>1, ToldAsking, AnsweredAsking, AskingUnchanged DEF AskingKept
    <3> QED BY <3>1, <3>2, <3>3, AsksOfEntry, AskedKept
  <2>2. CASE t \notin DOMAIN runtime
    <3>1. UNCHANGED <<runtime, turns>>
      BY <1>6, <2>2 DEF Cancel
    <3> QED BY <3>1, AsksUnchanged, AskingUnchanged, AskedKept
  <2> QED BY <2>1, <2>2
<1>7. CASE CleanedUp(t)
  <2>1. runtime' = [x \in DOMAIN runtime \ {t} |-> runtime[x]] /\ UNCHANGED turns
    BY <1>7 DEF CleanedUp
  <2>2. AsksKept
    BY <2>1 DEF AsksKept, TasksInv, Typed, Runtime
  <2> QED BY <2>1, <2>2, AskingUnchanged, AskedKept
<1> QED BY <1>2, <1>3, <1>4, <1>5, <1>6, <1>7 DEF Command

LEMMA AskedByAnswer ==
  ASSUME TasksInv, Asked, NEW t \in Tasks, NEW r \in Waiting(t), Answers(t, r)
  PROVE  Asked'
<1> USE DEF rows, memory, server
<1>1. Runtime(t) \in Entry
  BY RuntimeType DEF TasksInv
<1>2. ASSUME NEW c \in BOOLEAN, UNCHANGED turns,
             runtime' = With(t, [Runtime(t) EXCEPT !.thread = TRUE, !.cancel = @ /\ c])
      PROVE  Asked'
  <2>1. [Runtime(t) EXCEPT !.thread = TRUE, !.cancel = @ /\ c].asks = Runtime(t).asks
    BY <1>1 DEF Entry
  <2> QED BY <1>2, <2>1, AsksOfEntry, AskingUnchanged, AskedKept
<1>3. CASE ThreadStarted(t, r)
  <2>1. PICK begins \in BOOLEAN :
          /\ UNCHANGED turns
          /\ runtime' = With(t, [Runtime(t) EXCEPT !.thread = TRUE, !.cancel = @ /\ ~begins])
    BY <1>3 DEF ThreadStarted
  <2> QED BY <1>2, <2>1
<1>4. CASE Resumed(t, r)
  <2>1. PICK begins \in BOOLEAN :
          /\ UNCHANGED turns
          /\ runtime' = With(t, [Runtime(t) EXCEPT !.thread = TRUE, !.cancel = @ /\ ~begins])
    BY <1>4 DEF Resumed
  <2> QED BY <1>2, <2>1
<1>5. CASE TurnAccepted(t, r)
  <2> DEFINE others == {x \in DOMAIN turns : turns[x].task = t}
             turn == [task |-> t, thread |-> r.thread, begun |-> FALSE, asking |-> {},
                      told |-> Cancelling(t) /\ r.thread = threadId[t], shared |-> others # {}]
  <2>1. /\ turns' = [x \in DOMAIN turns \cup {nextTurn} |->
                       IF x = nextTurn THEN turn
                       ELSE [turns[x] EXCEPT !.shared = @ \/ x \in others]]
        /\ UNCHANGED runtime
    BY <1>5 DEF TurnAccepted
  <2>2. turn.asking = {}
    OBVIOUS
  <2>3. ASSUME NEW x \in DOMAIN turns
        PROVE  [turns[x] EXCEPT !.shared = @ \/ x \in others].asking = turns[x].asking
    BY DEF TasksInv, Typed, Turn
  <2> HIDE DEF others, turn
  <2>4. AskingKept
    BY <2>1, <2>2, <2>3 DEF AskingKept
  <2> QED BY <2>1, <2>4, AsksUnchanged, AskedKept
<1>6. CASE Refused(t, r)
  <2>1. UNCHANGED <<runtime, turns>>
    BY <1>6 DEF Refused
  <2> QED BY <2>1, AsksUnchanged, AskingUnchanged, AskedKept
<1> QED BY <1>3, <1>4, <1>5, <1>6 DEF Answers

LEMMA AskedByNotification ==
  ASSUME TasksInv, Counters, Asked, NEW u \in DOMAIN turns, Notification(u)
  PROVE  Asked'
<1> USE TasksAssumption
<1> USE DEF rows, memory, server
<1>1. turns[u] \in Turn /\ turns[u].task \in Tasks /\ u \in 1 .. MaxTurns
  BY DEF TasksInv, Typed, Turn, TurnsOwn, Counters
<1>2. CASE TurnStarted(u)
  <2>1. /\ UNCHANGED runtime
        /\ \/ turns' = [turns EXCEPT ![u].begun = TRUE]
           \/ turns' = [[turns EXCEPT ![u].begun = TRUE] EXCEPT
                          ![u].told = @ \/ turns[u].thread = threadId[turns[u].task]]
    BY <1>2 DEF TurnStarted
  <2>2. AskingKept
    BY <1>1, <2>1 DEF AskingKept, Turn
  <2> QED BY <2>1, <2>2, AsksUnchanged, AskedKept
<1>3. CASE ErrorReported(u)
  <2>1. UNCHANGED <<runtime, turns>>
    BY <1>3 DEF ErrorReported
  <2> QED BY <2>1, AsksUnchanged, AskingUnchanged, AskedKept
<1>4. ASSUME NEW how, TurnCompleted(u, how) PROVE Asked'
  <2>1. UNCHANGED runtime /\ turns' = [x \in DOMAIN turns \ {u} |-> turns[x]]
    BY <1>4 DEF TurnCompleted
  <2>2. AskingKept
    BY <2>1 DEF AskingKept
  <2> QED BY <2>1, <2>2, AsksUnchanged, AskedKept
<1>5. ASSUME turns' = [turns EXCEPT ![u].asking = @ \cup {nextAsk}], nextAsk <= MaxAsks
      PROVE  \A x \in DOMAIN turns' : turns'[x].asking \subseteq 1 .. MaxAsks
  <2>1. nextAsk \in 1 .. MaxAsks
    BY <1>5 DEF Counters
  <2>2. [turns[u] EXCEPT !.asking = @ \cup {nextAsk}].asking = turns[u].asking \cup {nextAsk}
    BY <1>1 DEF Turn
  <2> QED BY <1>5, <2>1, <2>2 DEF Asked
<1>6. CASE ApprovalAsked(u)
  <2> DEFINE t == turns[u].task
             ask == [id |-> nextAsk, turn |-> u]
             e == [Runtime(t) EXCEPT !.asks = @ \cup {ask}]
  <2>1. /\ nextAsk <= MaxAsks /\ turns' = [turns EXCEPT ![u].asking = @ \cup {nextAsk}]
        /\ runtime' = With(t, e)
    BY <1>6 DEF ApprovalAsked
  <2>2. ask \in Asks
    BY <1>1, <2>1 DEF Asks, Counters
  <2>3. Runtime(t) \in Entry /\ Runtime(t).asks \subseteq Asks
    BY <1>1, RuntimeType DEF TasksInv, Asked, Runtime, Fresh
  <2> HIDE DEF ask
  <2>4. e.asks \subseteq Asks
    BY <2>2, <2>3 DEF Entry
  <2> HIDE DEF e, t
  <2>5. \A x \in DOMAIN runtime' : runtime'[x].asks \subseteq Asks
    BY <2>1, <2>4 DEF With, Asked
  <2> QED BY <1>5, <2>1, <2>5 DEF Asked, Asks
<1>7. CASE ApprovalMissed(u)
  <2>1. /\ nextAsk <= MaxAsks /\ UNCHANGED runtime
        /\ \/ turns' = [turns EXCEPT ![u].asking = @ \cup {nextAsk}]
           \/ turns' = turns
    BY <1>7 DEF ApprovalMissed
  <2> QED BY <1>5, <2>1 DEF Asked, Asks
<1> QED BY <1>2, <1>3, <1>4, <1>6, <1>7 DEF Notification

LEMMA AskedStep ==
  ASSUME TasksInv, Counters, Asked, [Next]_vars
  PROVE  Asked'
<1> USE DEF rows, memory, server
<1>1. ASSUME UNCHANGED <<runtime, turns>> PROVE Asked'
  BY <1>1, AsksUnchanged, AskingUnchanged, AskedKept
<1>2. CASE ServerRuns \/ \E t \in Tasks : Damage(t)
  BY <1>1, <1>2 DEF ServerRuns, Damage
<1>3. CASE ServerReady
  <2>1. /\ runtime' = [t \in DOMAIN runtime \cup starts |->
                         IF t \in starts THEN BegunRuntime(t, status[t]) ELSE runtime[t]]
        /\ UNCHANGED turns
    BY <1>3 DEF ServerReady
  <2>2. DOMAIN runtime \cup starts \subseteq Tasks
    BY DEF TasksInv, Typed
  <2>3. \A t \in Tasks : BegunRuntime(t, status[t]).asks = Runtime(t).asks
    BY RuntimeType DEF TasksInv, BegunRuntime, Entry
  <2>4. AsksKept
    BY <2>1, <2>2, <2>3 DEF AsksKept, Runtime
  <2> QED BY <2>1, <2>4, AskingUnchanged, AskedKept
<1>4. CASE ServerDies
  <2>1. UNCHANGED runtime /\ DOMAIN turns' = {}
    BY <1>4, EmptyHasNone DEF ServerDies
  <2>2. AskingKept
    BY <2>1 DEF AskingKept
  <2> QED BY <2>1, <2>2, AsksUnchanged, AskedKept
<1>5. ASSUME NEW st, NEW wt, Reload(st, wt) PROVE Asked'
  <2>1. DOMAIN runtime' = {} /\ DOMAIN turns' = {}
    BY <1>5, EmptyHasNone DEF Reload
  <2> QED BY <2>1 DEF Asked
<1>6. CASE Restart \/ \E t \in Tasks : CrashInCreate(t) \/ CrashInCleanup(t)
  BY <1>5, <1>6 DEF Restart, CrashInCreate, CrashInCleanup
<1>7. CASE UNCHANGED vars
  BY <1>1, <1>7 DEF vars
<1>8. CASE \E t \in Tasks : Command(t)
  BY <1>8, AskedByCommand
<1>9. CASE \E t \in Tasks : \E r \in Waiting(t) : Answers(t, r)
  BY <1>9, AskedByAnswer
<1>10. CASE \E u \in DOMAIN turns : Notification(u)
  BY <1>10, AskedByNotification
<1> QED BY <1>2, <1>3, <1>4, <1>6, <1>7, <1>8, <1>9, <1>10 DEF Next

-----------------------------------------------------------------------------
(* Requests and threads.                                                   *)

\* Bags stay bags.
LEMMA BagTypes ==
  ASSUME NEW A, IsABag(A), NEW S
  PROVE  IsABag(A (+) SetToBag(S)) /\ IsABag(A (-) SetToBag(S))
<1>1. IsABag(A (+) SetToBag(S))
  BY DEF IsABag, SetToBag, (+)
<1>2. IsABag(A (-) SetToBag(S))
  BY DEF IsABag, SetToBag, (-)
<1> QED BY <1>1, <1>2

\* The threads that were made stay.
ThreadsGrow == DOMAIN threads \subseteq DOMAIN threads'

\* What goes on of the requests, the threads and what is to be recovered.
SentKept ==
  /\ ThreadsGrow
  /\ IsABag(sent')
  /\ \A r \in BagToSet(sent') : r \in BagToSet(sent) \/ Sound(r)'

LEMMA SentSoundKept ==
  ASSUME SentSound, SentKept
  PROVE  SentSound'
BY DEF SentSound, SentKept, ThreadsGrow, Sound

LEMMA SentUnchanged ==
  ASSUME SentSound, UNCHANGED <<sent, threads>>
  PROVE  SentKept
BY DEF SentSound, SentKept, ThreadsGrow

LEMMA SentSent ==
  ASSUME SentSound, NEW S, Send(S), UNCHANGED threads, \A r \in S : Sound(r)
  PROVE  SentKept
<1>1. IsABag(sent')
  BY BagTypes DEF SentSound, Send
<1> QED BY <1>1, SentBy DEF SentKept, ThreadsGrow, Sound

LEMMA SentReplied ==
  ASSUME SentSound, NEW r, NEW S, Reply(r, S), ThreadsGrow, \A x \in S : Sound(x)'
  PROVE  SentKept
<1> DEFINE rest == sent (-) SetToBag({r})
<1>1. IsABag(rest) /\ sent' = rest (+) SetToBag(S)
  BY BagTypes DEF SentSound, Reply
<1> HIDE DEF rest
<1>2. IsABag(sent')
  BY <1>1, BagTypes
<1> QED BY <1>2, RepliedBy DEF SentKept

LEMMA SentEmptied ==
  ASSUME sent' = EmptyBag, UNCHANGED threads
  PROVE  SentKept
<1>1. IsABag(EmptyBag)
  BY DEF EmptyBag, SetToBag, IsABag
<1> QED BY <1>1, EmptyHasNone DEF SentKept, ThreadsGrow

\* The requests that commands make.
LEMMA RequestSound ==
  ASSUME TasksInv, NEW t \in Tasks, NEW kind \in Kinds,
         kind = "thread" \/ threadId[t] # 0
  PROVE  Sound(Request(kind, t))
<1>1. threadId[t] \in {0} \cup DOMAIN threads
  BY DEF TasksInv, ThreadsOwn, Own
<1> QED BY <1>1 DEF Sound, Request

LEMMA BegunSound ==
  ASSUME TasksInv, NEW t \in Tasks, NEW s, NEW r \in Begun(t, s)
  PROVE  Sound(r)
<1>1. \/ r = Request("thread", t)
      \/ threadId[t] # 0 /\ r = Request("resume", t)
      \/ threadId[t] # 0 /\ r = Request("turn", t)
  BY DEF Begun
<1>2. {"thread", "resume", "turn"} \subseteq Kinds
  BY DEF Kinds
<1> QED BY <1>1, <1>2, RequestSound

LEMMA ViewedSound ==
  ASSUME TasksInv, NEW t \in Tasks, NEW r \in Viewed(t)
  PROVE  Sound(r)
<1>1. threadId[t] # 0 /\ r = Request("view", t)
  BY DEF Viewed, Lacking
<1>2. "view" \in Kinds
  BY DEF Kinds
<1> QED BY <1>1, <1>2, RequestSound

\* Tasks come to be recovered for a thread they have, and keep it.
RecoveryKept ==
  /\ \A t \in recovery' : t \in recovery \/ threadId[t] # 0
  /\ \A t \in Tasks : threadId[t] # 0 => threadId'[t] # 0
LoadedKept == \A h \in loaded' : h \in loaded \/ h \in DOMAIN threads'

LEMMA KnownKept ==
  ASSUME TasksInv, TasksInv', KnownThreads, RecoveryKept, LoadedKept, ThreadsGrow
  PROVE  KnownThreads'
<1>1. recovery' \subseteq Tasks
  BY DEF TasksInv, Typed
<1> QED BY <1>1 DEF KnownThreads, RecoveryKept, LoadedKept, ThreadsGrow

\* Nothing of the threads changes.
LEMMA KnownUnchanged ==
  ASSUME UNCHANGED <<threadId, threads, loaded>>, \A t \in recovery' : t \in recovery \/ threadId[t] # 0
  PROVE  RecoveryKept /\ LoadedKept /\ ThreadsGrow
BY DEF RecoveryKept, LoadedKept, ThreadsGrow

\* A step that sends what it may, and recovers tasks that have a thread.
Flow == SentKept /\ RecoveryKept /\ LoadedKept

LEMMA FlowQuiet ==
  ASSUME SentSound, UNCHANGED <<sent, threads, threadId, loaded>>,
         \A t \in recovery' : t \in recovery \/ threadId[t] # 0
  PROVE  Flow
BY SentUnchanged, KnownUnchanged DEF Flow

LEMMA FlowSends ==
  ASSUME SentSound, NEW S, Send(S), \A r \in S : Sound(r),
         UNCHANGED <<threads, threadId, loaded>>,
         \A t \in recovery' : t \in recovery \/ threadId[t] # 0
  PROVE  Flow
BY SentSent, KnownUnchanged DEF Flow

LEMMA FlowOfCommand ==
  ASSUME TasksInv, SentSound, NEW t \in Tasks, Command(t)
  PROVE  Flow
<1> USE DEF rows, memory, server
<1>0. \A x \in Queued(t) : threadId[x] # 0
  BY DEF Queued, Lacking
<1>1. ASSUME Create(t) \/ StartUnusable(t) \/ StartOverLimit(t) \/ Cancel(t)
             \/ CleanedUp(t) \/ CleanupRefused(t)
      PROVE  Flow
  <2>1. UNCHANGED <<sent, threads, threadId, loaded>> /\ recovery' \subseteq recovery
    BY <1>1 DEF Create, StartUnusable, StartOverLimit, Cancel, CleanedUp, CleanupRefused
  <2> QED BY <2>1, FlowQuiet
<1>2. CASE Activate(t)
  <2>1. /\ UNCHANGED <<threads, threadId, loaded>>
        /\ UNCHANGED recovery \/ recovery' = recovery \cup Queued(t)
        /\ UNCHANGED sent \/ Send(Viewed(t))
    BY <1>2 DEF Activate
  <2>2. \A x \in recovery' : x \in recovery \/ threadId[x] # 0
    BY <1>0, <2>1
  <2> QED BY <2>1, <2>2, ViewedSound, FlowQuiet, FlowSends
<1>3. ASSUME NEW activate \in BOOLEAN, StartQueued(t, activate)
      PROVE  Flow
  <2>1. /\ UNCHANGED <<sent, threads, threadId, loaded>>
        /\ UNCHANGED recovery \/ recovery' = recovery \cup Queued(t)
    BY <1>3 DEF StartQueued
  <2> QED BY <1>0, <2>1, FlowQuiet
<1>4. ASSUME NEW activate \in BOOLEAN, Start(t, activate)
      PROVE  Flow
  <2>1. PICK S : /\ Send(S) /\ S \subseteq Begun(t, "ready") \cup Viewed(t)
    BY <1>4 DEF Start
  <2>2. UNCHANGED <<threads, threadId, loaded, recovery>>
    BY <1>4 DEF Start
  <2>3. \A r \in S : Sound(r)
    BY <2>1, BegunSound, ViewedSound
  <2> QED BY <2>1, <2>2, <2>3, FlowSends
<1>5. ASSUME NEW activate \in BOOLEAN, SendText(t, activate)
      PROVE  Flow
  <2>1. threadId[t] # 0 /\ UNCHANGED <<threads, threadId, loaded>>
        /\ (UNCHANGED recovery \/ recovery' = recovery \cup {t})
    BY <1>5 DEF SendText
  <2>2. CASE backend = "ready"
    <3>1. PICK S : Send(S) /\ S \subseteq {Request("turn", t)} \cup Viewed(t)
      BY <1>5, <2>2 DEF SendText
    <3>2. "turn" \in Kinds
      BY DEF Kinds
    <3>3. \A r \in S : Sound(r)
      BY <2>1, <3>1, <3>2, RequestSound, ViewedSound
    <3> QED BY <2>1, <3>1, <3>3, FlowSends
  <2>3. CASE backend # "ready"
    <3>1. UNCHANGED sent
      BY <1>5, <2>3 DEF SendText
    <3> QED BY <2>1, <3>1, FlowQuiet
  <2> QED BY <2>2, <2>3
<1>6. ASSUME NEW a, Answer(t, a) PROVE Flow
  <2>1. UNCHANGED <<sent, threads, threadId, loaded, recovery>>
    BY <1>6 DEF Answer
  <2> QED BY <2>1, FlowQuiet
<1> QED BY <1>1, <1>2, <1>3, <1>4, <1>5, <1>6 DEF Command

LEMMA FlowOfAnswer ==
  ASSUME TasksInv, SentSound, NEW t \in Tasks, NEW r \in Waiting(t), Answers(t, r)
  PROVE  Flow
<1> USE DEF rows, memory, server
<1>0. r \in BagToSet(sent) /\ Sound(r)
  BY DEF Waiting, SentSound
<1>1. CASE ThreadStarted(t, r)
  <2> DEFINE h == Len(threads) + 1
             turn == [kind |-> "turn", task |-> t, thread |-> h]
  <2>1. /\ threads' = Append(threads, t) /\ threadId' = [threadId EXCEPT ![t] = h]
        /\ loaded' = loaded \cup {h} /\ recovery' = recovery
        /\ \E S : S \subseteq {turn} /\ Reply(r, S)
    BY <1>1 DEF ThreadStarted
  <2>2. DOMAIN threads' = DOMAIN threads \cup {h} /\ h \in Nat /\ h # 0
    BY <2>1 DEF TasksInv, Typed
  <2>3. /\ turn.kind = "turn" /\ turn.thread = h /\ turn.task = t
        /\ turn = [kind |-> turn.kind, task |-> turn.task, thread |-> turn.thread]
    OBVIOUS
  <2>4. threadId \in [Tasks -> Nat]
    BY DEF TasksInv, Typed
  <2> HIDE DEF h, turn
  <2>5. ThreadsGrow /\ LoadedKept /\ RecoveryKept
    BY <2>1, <2>2, <2>4 DEF ThreadsGrow, LoadedKept, RecoveryKept
  <2>6. PICK S : S \subseteq {turn} /\ Reply(r, S)
    BY <2>1
  <2>7. ASSUME NEW x \in S PROVE Sound(x)'
    <3>1. x = turn /\ "turn" \in Kinds
      BY <2>6 DEF Kinds
    <3> QED BY <2>2, <2>3, <3>1 DEF Sound
  <2>8. SentKept
    BY <2>5, <2>6, <2>7, SentReplied
  <2> QED BY <2>5, <2>8 DEF Flow
<1>2. CASE Resumed(t, r)
  <2>1. /\ r.kind \in {"resume", "view"} /\ r.thread = threadId[t]
        /\ loaded' = loaded \cup {r.thread} /\ recovery' = recovery \ {t}
        /\ UNCHANGED <<threadId, threads>>
        /\ \E S : S \subseteq {Request("turn", t)} /\ Reply(r, S)
    BY <1>2 DEF Resumed
  <2>2. r.thread # 0 /\ r.thread \in DOMAIN threads
    BY <1>0, <2>1 DEF Sound
  <2>3. Sound(Request("turn", t))
    <3>1. "turn" \in Kinds
      BY DEF Kinds
    <3> QED BY <2>1, <2>2, <3>1, RequestSound
  <2>4. Sound(Request("turn", t))'
    BY <2>1, <2>3 DEF Sound, Request
  <2>5. \A S : S \subseteq {Request("turn", t)} => \A x \in S : Sound(x)'
    BY <2>3, <2>1 DEF Sound
  <2>6. ThreadsGrow /\ LoadedKept /\ RecoveryKept
    BY <2>1, <2>2 DEF ThreadsGrow, LoadedKept, RecoveryKept
  <2> QED BY <2>1, <2>5, <2>6, SentReplied DEF Flow
<1>3. CASE TurnAccepted(t, r) \/ Refused(t, r)
  <2>1. Reply(r, {}) /\ UNCHANGED <<threads, threadId, loaded, recovery>>
    BY <1>3 DEF TurnAccepted, Refused
  <2>2. ThreadsGrow /\ LoadedKept /\ RecoveryKept
    BY <2>1 DEF ThreadsGrow, LoadedKept, RecoveryKept
  <2> QED BY <2>1, <2>2, SentReplied DEF Flow
<1> QED BY <1>1, <1>2, <1>3 DEF Answers

LEMMA FlowOfServer ==
  ASSUME TasksInv, SentSound, KnownThreads, ServerRuns \/ ServerReady \/ ServerDies
  PROVE  Flow
<1> USE DEF rows, memory, server
<1>1. CASE ServerRuns
  <2>1. UNCHANGED <<sent, threads, threadId, loaded, recovery>>
    BY <1>1 DEF ServerRuns
  <2> QED BY <2>1, FlowQuiet
<1>2. CASE ServerReady
  <2> DEFINE S == (UNION {Begun(t, status[t]) : t \in starts})
                    \cup {Request("view", t) : t \in recovery}
  <2>1. Send(S) /\ UNCHANGED <<threads, threadId, loaded, recovery>>
    BY <1>2 DEF ServerReady
  <2>2. ASSUME NEW t \in recovery PROVE Sound(Request("view", t))
    <3>1. t \in Tasks /\ threadId[t] # 0 /\ "view" \in Kinds
      BY DEF TasksInv, Typed, KnownThreads, Kinds
    <3> QED BY <3>1, RequestSound
  <2>3. ASSUME NEW t \in starts, NEW r \in Begun(t, status[t]) PROVE Sound(r)
    BY BegunSound DEF TasksInv, Typed
  <2>4. \A r \in S : Sound(r)
    BY <2>2, <2>3
  <2> HIDE DEF S
  <2> QED BY <2>1, <2>4, FlowSends
<1>3. CASE ServerDies
  <2>1. sent' = EmptyBag /\ loaded' = {} /\ UNCHANGED <<threads, threadId, recovery>>
    BY <1>3 DEF ServerDies
  <2> QED BY <2>1, SentEmptied DEF Flow, RecoveryKept, LoadedKept
<1> QED BY <1>1, <1>2, <1>3

LEMMA FlowOfRestart ==
  ASSUME NEW st, NEW wt, Reload(st, wt)
  PROVE  Flow
<1>1. /\ sent' = EmptyBag /\ loaded' = {} /\ UNCHANGED <<threads, threadId>>
      /\ recovery' = {t \in Interrupted(st) : threadId[t] # 0}
  BY DEF Reload
<1> QED BY <1>1, SentEmptied DEF Flow, RecoveryKept, LoadedKept

LEMMA FlowStep ==
  ASSUME TasksInv, SentSound, KnownThreads, [Next]_vars
  PROVE  SentSound' /\ KnownThreads'
<1> USE DEF rows, memory, server
<1>1. ASSUME UNCHANGED <<sent, threads, threadId, loaded, recovery>> PROVE Flow
  BY <1>1, FlowQuiet
<1>2. ASSUME UNCHANGED vars \/ \E t \in Tasks : Damage(t) PROVE Flow
  BY <1>1, <1>2 DEF vars, Damage
<1>3. ASSUME NEW u \in DOMAIN turns, Notification(u) PROVE Flow
  <2>1. UNCHANGED <<sent, threads, threadId, loaded, recovery>>
    BY <1>3 DEF Notification, TurnStarted, ErrorReported, TurnCompleted, ApprovalAsked,
       ApprovalMissed
  <2> QED BY <2>1, <1>1
<1>4. ASSUME Restart \/ \E t \in Tasks : CrashInCreate(t) \/ CrashInCleanup(t)
      PROVE  Flow
  <2>1. \E st, wt : Reload(st, wt)
    BY <1>4 DEF Restart, CrashInCreate, CrashInCleanup
  <2> QED BY <2>1, FlowOfRestart
<1>5. Flow
  BY <1>2, <1>3, <1>4, FlowOfCommand, FlowOfAnswer, FlowOfServer DEF Next
<1>6. TasksInv'
  BY NextTasksInv
<1> QED BY <1>5, <1>6, SentSoundKept, KnownKept DEF Flow, SentKept

-----------------------------------------------------------------------------
(* The types.                                                              *)

LEMMA InitBoundsInv == Init => BoundsInv
<1> SUFFICES ASSUME Init PROVE BoundsInv
  OBVIOUS
<1> USE TasksAssumption
<1>1. /\ DOMAIN runtime = {} /\ DOMAIN turns = {} /\ BagToSet(sent) = {}
      /\ Len(threads) = 0 /\ IsABag(EmptyBag)
  BY EmptyHasNone DEF Init, EmptyBag, SetToBag, IsABag
<1>2. Counters
  BY <1>1 DEF Init, Counters
<1>3. Asked /\ SentSound /\ KnownThreads
  BY <1>1 DEF Init, Asked, SentSound, KnownThreads
<1> QED BY <1>2, <1>3 DEF BoundsInv

LEMMA Bounded == Spec => [](TasksInv /\ BoundsInv)
<1>1. TasksInv /\ BoundsInv /\ [Next]_vars => (TasksInv /\ BoundsInv)'
  BY NextTasksInv, CountersStep, AskedStep, FlowStep DEF BoundsInv
<1>2. Init => TasksInv /\ BoundsInv
  BY InitTasksInv, InitBoundsInv
<1> QED BY <1>1, <1>2, PTL DEF Spec

\* The variables keep their types: what a task, a request, a turn or an approval
\* refers to was made, and nothing gets out of its bounds.
THEOREM TasksTyped == Spec => []TypeOK
<1> USE TasksAssumption
<1>1. ASSUME TasksInv, BoundsInv PROVE TypeOK
  <2>1. Typed /\ ThreadsOwn /\ TurnsOwn /\ Accepted /\ Counters /\ Asked /\ SentSound
        /\ KnownThreads
    BY <1>1 DEF TasksInv, BoundsInv
  <2>2. Len(threads) \in Nat /\ DOMAIN threads \subseteq 1 .. MaxThreads
    <3>1. threads \in Seq(Tasks) /\ Len(threads) <= MaxThreads
      BY <2>1 DEF Typed, Counters
    <3>2. Len(threads) \in Nat /\ DOMAIN threads = 1 .. Len(threads) /\ MaxThreads \in Nat
      BY <3>1
    <3> QED BY <3>1, <3>2
  <2>3. threadId \in [Tasks -> 0 .. MaxThreads]
    BY <2>1, <2>2 DEF Typed, ThreadsOwn, Own
  <2>4. activeTurn \in [Tasks -> 0 .. MaxTurns]
    BY <2>1 DEF Typed, Accepted, Counters
  <2>5. \A t \in DOMAIN runtime : runtime[t] \in Runtimes
    <3> SUFFICES ASSUME NEW t \in DOMAIN runtime PROVE runtime[t] \in Runtimes
      OBVIOUS
    <3>1. runtime[t] \in Entry /\ runtime[t].asks \subseteq Asks
      BY <2>1 DEF Typed, Asked
    <3> QED BY <3>1 DEF Entry, Runtimes
  <2>6. DOMAIN turns \subseteq 1 .. MaxTurns
    BY <2>1 DEF Typed, TurnsOwn, Counters
  <2>7. \A u \in DOMAIN turns : turns[u] \in Turns
    <3> SUFFICES ASSUME NEW u \in DOMAIN turns PROVE turns[u] \in Turns
      OBVIOUS
    <3>1. /\ turns[u] \in Turn /\ turns[u].asking \subseteq 1 .. MaxAsks
          /\ turns[u].thread \in 1 .. MaxThreads
      BY <2>1, <2>2 DEF Typed, Asked, TurnsOwn, Own
    <3> QED BY <3>1 DEF Turn, Turns
  <2>8. BagToSet(sent) \subseteq Requests
    BY <2>1, <2>2 DEF SentSound, Sound, Requests
  <2>9. loaded \subseteq 1 .. MaxThreads
    BY <2>1, <2>2 DEF KnownThreads
  <2>10. /\ status \in [Tasks -> Status]
         /\ worktree \in [Tasks -> {"gone", "broken", "usable"}]
         /\ DOMAIN runtime \subseteq Tasks
         /\ starts \subseteq Tasks /\ recovery \subseteq Tasks
         /\ threads \in Seq(Tasks)
    BY <2>1, Zenon DEF Typed
  <2>11. /\ backend \in {"off", "starting", "running", "ready"} /\ IsABag(sent)
         /\ Len(threads) <= MaxThreads
         /\ nextAsk \in 1 .. MaxAsks + 1 /\ faults \in 0 .. MaxFaults
    BY <2>1, Zenon DEF Counters, SentSound
  <2>12. nextTurn \in 1 .. MaxTurns + 1 /\ born \in 1 .. nextTurn
    <3>1. nextTurn \in Nat /\ born \in Nat /\ 1 <= born /\ born <= nextTurn
          /\ nextTurn <= MaxTurns + 1
      BY <2>1, Zenon DEF Typed, Counters
    <3> QED BY <3>1
  <2> QED
    BY <2>3, <2>4, <2>5, <2>6, <2>7, <2>8, <2>9, <2>10, <2>11, <2>12, Zenon DEF TypeOK
<1>2. TasksInv /\ BoundsInv => TypeOK
  BY <1>1
<1> QED BY <1>2, Bounded, PTL

=============================================================================
