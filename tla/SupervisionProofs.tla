-------------------------- MODULE SupervisionProofs --------------------------
(***************************************************************************)
(* For every plan, limit, set of mishaps and number of restarts: the       *)
(* safety of Orchestration beyond the launches of LaunchProofs, and that   *)
(* its registry implements PlanLedger.  SupervisionInv is shown inductive, *)
(* one lemma per part, from three descriptions of a single step: what it   *)
(* does to the call stack (the lemmas on Base), to the nodes and tasks     *)
(* (NodeStep, TaskStep), and to the run and the registry (RunStep).        *)
(***************************************************************************)
EXTENDS LaunchProofs, Supervision, FiniteSetTheorems

\* The steps other than a restart, which puts everything together anew.
Going == HandlerStep \/ RunCommand \/ \E n \in Bound : ServerEvent(n) \/ TaskCommand(n)

LEMMA Steps == Next <=> Going \/ Restart
BY DEF Next, Going

-----------------------------------------------------------------------------
(* The nodes in the calls of one name, and the bottom of the stack.        *)

OfName(c, name) == IF c.name = name THEN c.of ELSE {}
NoSync(s) == \A i \in 1 .. Len(s) : s[i].name # "sync"
Bottom(s) == IF s = <<>> THEN "none" ELSE s[1].name

LEMMA NodesEmpty ==
  /\ \A name : NodesIn(<<>>, name) = {}
  /\ NoSync(<<>>) /\ Bottom(<<>>) = "none"
BY DEF NodesIn, NoSync, Bottom

LEMMA NodesPush ==
  ASSUME NEW s \in Seq(Frame), NEW c \in Frame
  PROVE  /\ \A name : NodesIn(Append(s, c), name) = NodesIn(s, name) \cup OfName(c, name)
         /\ NoSync(s) /\ c.name # "sync" => NoSync(Append(s, c))
         /\ Bottom(Append(s, c)) = IF s = <<>> THEN c.name ELSE Bottom(s)
         /\ Append(s, c) \in Seq(Frame) /\ Append(s, c) # <<>>
         /\ Len(Append(s, c)) = Len(s) + 1
         /\ Append(s, c)[Len(s) + 1] = c
         /\ \A i \in 1 .. Len(s) : Append(s, c)[i] = s[i]
<1> DEFINE t == Append(s, c)
<1>1. /\ Len(s) \in Nat /\ Len(t) = Len(s) + 1
      /\ \A i \in 1 .. Len(s) : t[i] = s[i]
      /\ t[Len(s) + 1] = c
      /\ t \in Seq(Frame) /\ t # <<>>
  BY AppendProperties, LenProperties
<1>2. 1 .. Len(t) = (1 .. Len(s)) \cup {Len(s) + 1}
  BY <1>1
<1>3. s = <<>> => Len(s) = 0
  OBVIOUS
<1>4. s # <<>> => 1 \in 1 .. Len(s)
  BY EmptySeq
<1> HIDE DEF t
<1>5. ASSUME NEW name
      PROVE  NodesIn(t, name) = NodesIn(s, name) \cup OfName(c, name)
  <2>1. ASSUME NEW n \in NodesIn(t, name)
        PROVE  n \in NodesIn(s, name) \cup OfName(c, name)
    <3>1. PICK i \in 1 .. Len(t) : t[i].name = name /\ n \in t[i].of
      BY <2>1 DEF NodesIn
    <3> QED  BY <1>1, <1>2, <3>1 DEF NodesIn, OfName
  <2>2. ASSUME NEW n \in NodesIn(s, name)
        PROVE  n \in NodesIn(t, name)
    <3>1. PICK i \in 1 .. Len(s) : s[i].name = name /\ n \in s[i].of
      BY <2>2 DEF NodesIn
    <3> QED  BY <1>1, <1>2, <3>1 DEF NodesIn
  <2>3. ASSUME NEW n \in OfName(c, name)
        PROVE  n \in NodesIn(t, name)
    <3>1. Len(s) + 1 \in 1 .. Len(t)
      BY <1>1
    <3> QED  BY <1>1, <2>3, <3>1 DEF NodesIn, OfName
  <2> QED  BY <2>1, <2>2, <2>3
<1>6. NoSync(s) /\ c.name # "sync" => NoSync(t)
  BY <1>1, <1>2 DEF NoSync
<1>7. Bottom(t) = IF s = <<>> THEN c.name ELSE Bottom(s)
  BY <1>1, <1>3, <1>4 DEF Bottom
<1> QED
  BY <1>1, <1>5, <1>6, <1>7 DEF t

LEMMA NodesPop ==
  ASSUME NEW s \in Seq(Frame), s # <<>>
  PROVE  LET b == SubSeq(s, 1, Len(s) - 1)
         IN  /\ \A name : NodesIn(s, name) = NodesIn(b, name) \cup OfName(s[Len(s)], name)
             /\ b # <<>> => Bottom(b) = Bottom(s)
             /\ b = <<>> => Bottom(s) = s[Len(s)].name
             /\ b \in Seq(Frame)
<1>1. PICK b : b = SubSeq(s, 1, Len(s) - 1)
  OBVIOUS
<1>2. PICK c : c = s[Len(s)]
  OBVIOUS
<1>3. Len(s) \in Nat \ {0}
  BY EmptySeq
<1>4. /\ b \in Seq(Frame) /\ Len(b) = Len(s) - 1
      /\ \A i \in 1 .. Len(b) : b[i] = s[i]
  BY <1>1, PopParts
<1>5. 1 .. Len(s) = (1 .. Len(b)) \cup {Len(s)}
  BY <1>3, <1>4
<1>6. ASSUME NEW name
      PROVE  NodesIn(s, name) = NodesIn(b, name) \cup OfName(c, name)
  <2>1. ASSUME NEW n \in NodesIn(s, name)
        PROVE  n \in NodesIn(b, name) \cup OfName(c, name)
    <3>1. PICK i \in 1 .. Len(s) : s[i].name = name /\ n \in s[i].of
      BY <2>1 DEF NodesIn
    <3> QED  BY <1>2, <1>4, <1>5, <3>1 DEF NodesIn, OfName
  <2>2. ASSUME NEW n \in NodesIn(b, name)
        PROVE  n \in NodesIn(s, name)
    <3>1. PICK i \in 1 .. Len(b) : b[i].name = name /\ n \in b[i].of
      BY <2>2 DEF NodesIn
    <3> QED  BY <1>4, <1>5, <3>1 DEF NodesIn
  <2>3. ASSUME NEW n \in OfName(c, name)
        PROVE  n \in NodesIn(s, name)
    BY <1>2, <1>5, <2>3 DEF NodesIn, OfName
  <2> QED  BY <2>1, <2>2, <2>3
<1>7. b # <<>> => Len(b) \in Nat \ {0}
  BY <1>4, EmptySeq
<1>8. b = <<>> => Len(b) = 0
  OBVIOUS
<1>9. (b # <<>> => Bottom(b) = Bottom(s)) /\ (b = <<>> => Bottom(s) = c.name)
  BY <1>2, <1>3, <1>4, <1>7, <1>8 DEF Bottom
<1> QED
  BY <1>1, <1>2, <1>4, <1>6, <1>9

Top == stack[Len(stack)]

LEMMA BelowParts ==
  ASSUME TypeOK, SyncIsTop, stack # <<>>
  PROVE  /\ Below \in Seq(Frame) /\ NoSync(Below)
         /\ \A name : NodesIn(stack, name) = NodesIn(Below, name) \cup OfName(Top, name)
         /\ Bottom(Below) \in {"none", Bottom(stack)}
         /\ Below = <<>> => Bottom(stack) = Top.name
         /\ Below # <<>> => Bottom(Below) = Bottom(stack)
         /\ Top \in Frame
<1>1. stack \in Seq(Frame)
  BY DEF TypeOK, Frame
<1>2. NoSync(Below)
  BY <1>1, PopParts DEF NoSync, Below, SyncIsTop
<1>3. Below = <<>> => Bottom(Below) = "none"
  BY NodesEmpty
<1>4. Top \in Frame
  BY TopFrame DEF Top
<1> QED
  BY <1>1, <1>2, <1>3, <1>4, NodesPop DEF Below, Top

LEMMA NextParts ==
  ASSUME TypeOK, SyncIsTop, stack # <<>>, NEW n
  PROVE  /\ NextOf(n) \in Seq(Frame) /\ NextOf(n) # <<>>
         /\ Top.name # "sync" => NoSync(NextOf(n))
         /\ \A name : NodesIn(NextOf(n), name) \subseteq NodesIn(stack, name)
         /\ \A name : NodesIn(stack, name) \ {n} \subseteq NodesIn(NextOf(n), name)
         /\ \A name : Top.name # name => NodesIn(NextOf(n), name) = NodesIn(stack, name)
         /\ Bottom(NextOf(n)) = Bottom(stack)
<1>1. PICK c : c = Call(Top.name, Args \ {n})
  OBVIOUS
<1>2. c \in Frame /\ c.name = Top.name /\ c.of = Top.of \ {n} /\ NextOf(n) = Append(Below, c)
  BY <1>1, TopFrame DEF Call, Frame, Args, NextOf, Top
<1>3. \A name : OfName(c, name) = OfName(Top, name) \ {n}
  BY <1>2 DEF OfName
<1>4. \A name : Top.name # name => OfName(c, name) = {} /\ OfName(Top, name) = {}
  BY <1>2 DEF OfName
<1>5. /\ \A name : NodesIn(NextOf(n), name) = NodesIn(Below, name) \cup OfName(c, name)
      /\ NoSync(Below) /\ c.name # "sync" => NoSync(NextOf(n))
      /\ Bottom(NextOf(n)) = IF Below = <<>> THEN c.name ELSE Bottom(Below)
      /\ NextOf(n) \in Seq(Frame) /\ NextOf(n) # <<>>
  BY <1>2, BelowParts, NodesPush
<1>6. \A name : NodesIn(stack, name) = NodesIn(Below, name) \cup OfName(Top, name)
  BY BelowParts
<1>7. /\ \A name : NodesIn(NextOf(n), name) \subseteq NodesIn(stack, name)
      /\ \A name : NodesIn(stack, name) \ {n} \subseteq NodesIn(NextOf(n), name)
      /\ \A name : Top.name # name => NodesIn(NextOf(n), name) = NodesIn(stack, name)
  BY <1>3, <1>4, <1>5, <1>6
<1>8. Top.name # "sync" => NoSync(NextOf(n))
  BY <1>2, <1>5, BelowParts
<1>9. Bottom(NextOf(n)) = Bottom(stack)
  BY <1>2, <1>5, BelowParts
<1> QED
  BY <1>5, <1>7, <1>8, <1>9

\* The call stack s is b with one or two new calls at most, a sync only on top.
Put(t, b) ==
  t = b \/ \E name \in CallNames \ {"sync", "recovering"}, S \in SUBSET Nodes :
             t = Append(b, Call(name, S))
Grown(s, b) == \E t : Put(t, b) /\ (s = t \/ \E n \in Nodes : s = Append(t, Call("sync", {n})))

SyncTops(s) ==
  /\ \A i \in 1 .. Len(s) - 1 : s[i].name # "sync"
  /\ s # <<>> /\ s[Len(s)].name = "sync" => \E n \in Nodes : s[Len(s)].of = {n}

LEMMA NoSyncTops ==
  ASSUME NEW s \in Seq(Frame), NoSync(s)
  PROVE  SyncTops(s)
BY EmptySeq DEF NoSync, SyncTops

LEMMA GrownParts ==
  ASSUME NEW b \in Seq(Frame), NoSync(b), NEW s, Grown(s, b)
  PROVE  /\ s \in Seq(Frame) /\ SyncTops(s)
         /\ \A name : NodesIn(b, name) \subseteq NodesIn(s, name)
         /\ NodesIn(s, "recovering") = NodesIn(b, "recovering")
         /\ Bottom(s) = "recovering" => Bottom(b) = "recovering"
         /\ b # <<>> => s # <<>>
<1>1. PICK t : Put(t, b) /\ (s = t \/ \E n \in Nodes : s = Append(t, Call("sync", {n})))
  BY DEF Grown
<1>2. /\ t \in Seq(Frame) /\ NoSync(t)
      /\ \A name : NodesIn(b, name) \subseteq NodesIn(t, name)
      /\ NodesIn(t, "recovering") = NodesIn(b, "recovering")
      /\ Bottom(t) = "recovering" => Bottom(b) = "recovering"
      /\ b # <<>> => t # <<>>
  <2>1. CASE t = b
    BY <2>1
  <2>2. CASE t # b
    <3>1. PICK name \in CallNames \ {"sync", "recovering"}, S \in SUBSET Nodes :
            t = Append(b, Call(name, S))
      BY <1>1, <2>2 DEF Put
    <3>2. PICK c : c = Call(name, S)
      OBVIOUS
    <3>3. c \in Frame /\ c.name = name /\ t = Append(b, c) /\ OfName(c, "recovering") = {}
      BY <3>1, <3>2, CallIsFrame DEF Call, OfName
    <3>4. /\ \A m : NodesIn(t, m) = NodesIn(b, m) \cup OfName(c, m)
          /\ Bottom(t) = IF b = <<>> THEN c.name ELSE Bottom(b)
          /\ t \in Seq(Frame) /\ NoSync(t) /\ t # <<>>
      BY <3>1, <3>3, NodesPush
    <3> QED
      BY <3>1, <3>3, <3>4
  <2> QED
    BY <2>1, <2>2
<1>3. CASE s = t
  BY <1>2, <1>3, NoSyncTops
<1>4. CASE s # t
  <2>1. PICK n \in Nodes : s = Append(t, Call("sync", {n}))
    BY <1>1, <1>4
  <2>2. PICK c : c = Call("sync", {n})
    OBVIOUS
  <2>3. /\ c \in Frame /\ c.name = "sync" /\ c.of = {n} /\ s = Append(t, c)
        /\ OfName(c, "recovering") = {}
    BY <2>1, <2>2, CallIsFrame DEF Call, OfName, CallNames
  <2>4. SyncTops(s)
    BY <1>2, <2>3, NodesPush, LenProperties DEF SyncTops, NoSync
  <2>5. Bottom(s) = "recovering" => Bottom(t) = "recovering"
    BY <1>2, <2>3, NodesPush
  <2>6. /\ \A m : NodesIn(s, m) = NodesIn(t, m) \cup OfName(c, m)
        /\ s \in Seq(Frame) /\ s # <<>>
    BY <1>2, <2>3, NodesPush
  <2> QED
    BY <1>2, <2>3, <2>4, <2>5, <2>6
<1> QED
  BY <1>3, <1>4

LEMMA GrownForms ==
  ASSUME NEW b
  PROVE  /\ Grown(b, b)
         /\ \A name \in CallNames \ {"sync", "recovering"}, S \in SUBSET Nodes :
              Grown(Append(b, Call(name, S)), b)
         /\ \A n \in Nodes : ThenSync(n, b) => Grown(stack', b)
         /\ \A n \in Nodes : ThenSend(n, b) => Grown(stack', b)
         /\ \A n \in Nodes :
              ThenSync(n, Append(b, Call("requeue", {n}))) => Grown(stack', b)
<1>1. Put(b, b) /\ \A name \in CallNames \ {"sync", "recovering"}, S \in SUBSET Nodes :
                     Put(Append(b, Call(name, S)), b)
  BY DEF Put
<1>2. \A n \in Nodes : /\ Put(Append(b, Call("sending", {n})), b)
                       /\ Put(Append(b, Call("requeue", {n})), b)
  BY <1>1 DEF CallNames
<1> QED
  BY <1>1, <1>2 DEF Grown, ThenSync, ThenSend

-----------------------------------------------------------------------------
(* What a step does to the call stack.                                     *)

LEMMA FollowedMoves ==
  ASSUME NEW st \in NodeStatus, NEW s \in TaskStatus, st \in Unstarted => s \in {"none", "failed"}
  PROVE  SyncedStatus(st, s) = st \/ SyncedStatus(st, s) \in NodeMoves[st]
BY DEF SyncedStatus, NodeStatus, TaskStatus, Unstarted, Verdict, NodeEnd, NodeMoves

\* A sync is of one node, and the node always accepts the status asked for.
LEMMA SyncGoes ==
  ASSUME TypeOK, LaunchInv, SyncIsTop, Sync
  PROVE  \E n \in Nodes :
           /\ Args = {n}
           /\ node' = [node EXCEPT ![n] = Followed(n)]
           /\ result' = [result EXCEPT ![n] = Summary(n)]
           /\ IF run \in {"running", "paused"}
                THEN stack' = Append(Below, Call("schedule", {})) /\ UNCHANGED run
                ELSE stack' = Below /\ run' = Recomputed(run, node')
           /\ Persist
           /\ UNCHANGED <<taskVars, bounds>>
<1>1. PICK n \in Nodes : Args = {n}
  BY DEF Sync, SyncIsTop
<1>2. Followed(n) = node[n] \/ Followed(n) \in NodeMoves[node[n]]
  BY FollowedMoves DEF Followed, TypeOK, NodeMap, LaunchInv, BoundIsLaunched
<1> QED
  BY <1>1, <1>2 DEF Sync

\* The steps that deal with node n of the list in progress.
Starts(n) ==
  \/ StartRefused(n) \/ StartWithoutWorktree(n) \/ StartSettled(n)
  \/ StartUnusable(n) \/ StartOverLimit(n) \/ StartThread(n)
Cancels(n) == CancelWorker(n) \/ CancelUnbound(n)
Walks(n) == Starts(n) \/ Cancels(n) \/ RecoverNode(n)

\* A ValueError leaves the whole chain of calls.
Raises ==
  /\ stack' = <<>>
  /\ \/ Requeue
     \/ \E n \in Args : StartRefused(n)
     \/ FinishCancel

LEMMA StartsList ==
  ASSUME NEW n, Starts(n)
  PROVE  Running("starting") /\ n \in Args
BY DEF Starts, StartRefused, StartWithoutWorktree, StartSettled, StartUnusable,
       StartOverLimit, StartThread, Launching, Starting, Least

LEMMA WalksList ==
  ASSUME NEW n, Walks(n)
  PROVE  stack # <<>> /\ n \in Args /\ Top.name \in {"starting", "cancelling", "recovering"}
BY StartsList DEF Walks, Cancels, CancelWorker, CancelUnbound, RecoverNode, Cancelling,
   Least, Running, Top

LEMMA StartsGrow ==
  ASSUME NEW n \in Nodes, Starts(n)
  PROVE  (stack' = <<>> /\ StartRefused(n)) \/ Grown(stack', NextOf(n))
<1>1. \/ stack' = <<>> /\ StartRefused(n)
      \/ stack' = NextOf(n) \/ ThenSync(n, NextOf(n)) \/ ThenSend(n, NextOf(n))
      \/ ThenSync(n, Append(NextOf(n), Call("requeue", {n})))
  BY DEF Starts, StartRefused, StartWithoutWorktree, StartSettled, StartUnusable,
         StartOverLimit, StartThread, BeginThread
<1> QED
  BY <1>1, GrownForms

\* A call ends or goes on, and so does the walk over a list.
Returns ==
  /\ Grown(stack', Below)
  /\ Top.name \in {"starting", "cancelling", "recovering"} => Top.of = {}
WalksOn == \E n \in Args : Walks(n) /\ Grown(stack', NextOf(n))

LEMMA HandlerBase ==
  ASSUME TypeOK, LaunchInv, SyncIsTop, HandlerStep
  PROVE  stack # <<>> /\ (Raises \/ Returns \/ WalksOn)
<1>1. stack # <<>>
  BY DEF HandlerStep, Sync, Schedule, FinishSchedule, Requeue, BeginTurn, FinishCancel,
     FinishRecovery, StartRefused, StartWithoutWorktree, StartSettled, StartUnusable,
     StartOverLimit, StartThread, Launching, Starting, CancelWorker, CancelUnbound,
     RecoverNode, Cancelling, Running
<1>2. /\ {"schedule", "starting"} \subseteq CallNames \ {"sync", "recovering"}
      /\ Chosen(node, run = "paused") \in SUBSET Nodes
  BY DEF CallNames, Chosen, Startable, Waiting
<1>3. CASE Sync
  <2>1. Top.name = "sync"
    BY <1>3 DEF Sync, Running, Top
  <2>2. stack' = Below \/ stack' = Append(Below, Call("schedule", {}))
    BY <1>3, SyncGoes
  <2> QED
    BY <1>1, <1>2, <2>1, <2>2, GrownForms DEF Returns
<1>4. CASE Schedule
  <2>1. Top.name = "schedule"
    BY <1>4 DEF Schedule, Running, Top
  <2>2. PICK S \in SUBSET Nodes :
          stack' = Below \/ stack' = Append(Below, Call("starting", S))
    BY <1>2, <1>4 DEF Schedule
  <2>3. Grown(stack', Below)
    BY <1>2, <2>2, GrownForms
  <2> QED
    BY <1>1, <2>1, <2>3 DEF Returns
<1>5. CASE FinishSchedule \/ Requeue \/ BeginTurn \/ FinishCancel \/ FinishRecovery
  <2>1. Raises \/ stack' = Below
    BY <1>5 DEF FinishSchedule, Requeue, BeginTurn, FinishCancel, FinishRecovery, Raises
  <2>2. Top.name \in {"starting", "cancelling", "recovering"} => Top.of = {}
    BY <1>5 DEF FinishSchedule, Requeue, BeginTurn, FinishCancel, FinishRecovery, Running,
       Top, Args
  <2> QED
    BY <1>1, <2>1, <2>2, GrownForms DEF Returns
<1>6. ASSUME NEW n \in Nodes, Starts(n)
      PROVE  Raises \/ WalksOn
  <2>1. n \in Args /\ Walks(n)
    BY <1>6, StartsList DEF Walks
  <2> QED
    BY <1>6, <2>1, StartsGrow DEF Raises, WalksOn
<1>7. ASSUME NEW n \in Nodes, Cancels(n) \/ RecoverNode(n)
      PROVE  WalksOn
  <2>1. n \in Args /\ Walks(n)
    BY <1>7, WalksList DEF Walks
  <2>2. stack' = NextOf(n) \/ ThenSync(n, NextOf(n))
    BY <1>7 DEF Cancels, CancelWorker, CancelTask, CancelUnbound, RecoverNode
  <2> QED
    BY <2>1, <2>2, GrownForms DEF WalksOn
<1>8. \/ Sync \/ Schedule
      \/ FinishSchedule \/ Requeue \/ BeginTurn \/ FinishCancel \/ FinishRecovery
      \/ \E n \in Nodes : Starts(n) \/ Cancels(n) \/ RecoverNode(n)
  BY Zenon DEF HandlerStep, Starts, Cancels
<1> QED
  BY <1>1, <1>3, <1>4, <1>5, <1>6, <1>7, <1>8, Zenon

LEMMA EventBase ==
  ASSUME Going, ~HandlerStep
  PROVE  stack = <<>> /\ Grown(stack', <<>>)
<1>1. {"schedule", "cancelling", "sending"} \subseteq CallNames \ {"sync", "recovering"}
  BY DEF CallNames
<1>2. \A c : <<c>> = Append(<<>>, c)
  OBVIOUS
<1>3. CASE RunCommand
  <2>1. /\ stack = <<>>
        /\ \/ stack' = stack
           \/ stack' = Append(<<>>, Call("schedule", {}))
           \/ stack' = Append(<<>>, Call("cancelling", Nodes))
    BY <1>2, <1>3 DEF RunCommand, StartRun, StartRunWithoutBase, PauseRun, ResumeRun, CancelRun,
       CancelNode, Idle
  <2> QED
    BY <1>1, <2>1, GrownForms
<1>4. ASSUME NEW n \in Nodes, ServerEvent(n) \/ TaskCommand(n)
      PROVE  stack = <<>> /\ Grown(stack', <<>>)
  <2>1. stack = <<>>
    BY <1>4
    DEF ServerEvent, ThreadStarted, ThreadRefused, Resumed, ResumeFails,
        ResumeRefused, ViewRefused, TurnProceeds, ApprovalAsked, TurnCompleted,
        TurnRefused, TurnError, TaskCommand, CancelBound, UserStart, UserStartOverLimit,
        UserStartUnusable, OpenUnusable, UserSends, Cleanup, CleanupDirty, CleanupStarts, Manually, Idle
  <2>2. \/ stack' = stack \/ ThenSync(n, <<>>) \/ ThenSend(n, <<>>)
        \/ stack' = Append(<<>>, Call("sending", {n}))
    BY <1>2, <1>4, <2>1
    DEF ServerEvent, ThreadStarted, ThreadRefused, Resumed, ResumeFails,
        ResumeRefused, ViewRefused, TurnProceeds, ApprovalAsked, TurnCompleted,
        TurnRefused, TurnError, TaskCommand, CancelBound, CancelTask, UserStart,
        UserStartOverLimit, UserStartUnusable, OpenUnusable, UserSends, Cleanup, CleanupDirty, BeginThread
  <2> QED
    BY <1>1, <2>1, <2>2, GrownForms
<1> QED
  BY <1>3, <1>4 DEF Going, Bound

\* The stack that a step of a handler builds on.
LEMMA HandlerRoot ==
  ASSUME TypeOK, LaunchInv, SyncIsTop, HandlerStep
  PROVE  \E b \in Seq(Frame) : NoSync(b) /\ Grown(stack', b) /\ Bottom(b) \in {"none", Bottom(stack)}
<1>1. stack # <<>> /\ (Raises \/ Returns \/ WalksOn)
  BY HandlerBase
<1>2. CASE Raises
  BY <1>2, Empty, NodesEmpty, GrownForms DEF Raises
<1>3. CASE Returns
  BY <1>1, <1>3, BelowParts DEF Returns
<1>4. CASE WalksOn
  <2>1. PICK n : Walks(n) /\ Grown(stack', NextOf(n))
    BY <1>4 DEF WalksOn
  <2>2. Top.name # "sync"
    BY <2>1, WalksList
  <2> QED
    BY <1>1, <2>1, <2>2, NextParts
<1> QED
  BY <1>1, <1>2, <1>3, <1>4

LEMMA GoingRoot ==
  ASSUME TypeOK, LaunchInv, SyncIsTop, Going
  PROVE  \E b \in Seq(Frame) : NoSync(b) /\ Grown(stack', b) /\ Bottom(b) \in {"none", Bottom(stack)}
<1>1. CASE HandlerStep
  BY <1>1, HandlerRoot
<1>2. CASE ~HandlerStep
  BY <1>2, EventBase, Empty, NodesEmpty
<1> QED
  BY <1>1, <1>2

LEMMA BottomKept ==
  ASSUME TypeOK, LaunchInv, SyncIsTop, Going, Recovering'
  PROVE  Recovering /\ HandlerStep
<1>1. PICK b \in Seq(Frame) :
        NoSync(b) /\ Grown(stack', b) /\ Bottom(b) \in {"none", Bottom(stack)}
  BY GoingRoot
<1>2. Bottom(stack') = "recovering"
  BY DEF Recovering, Bottom
<1>3. Bottom(stack) = "recovering"
  BY <1>1, <1>2, GrownParts
<1> QED
  BY <1>3, EventBase, NodesEmpty DEF Recovering, Bottom

\* The call that a restart leaves.
LEMMA RestartStack ==
  ASSUME Restart
  PROVE  /\ stack' # <<>> /\ SyncTops(stack') /\ ~Running("sync")'
         /\ \A name : name # "recovering" => NodesIn(stack', name) = {}
         /\ NodesIn(stack', "recovering") = {n \in Nodes : Syncs(task'[n])}
<1>1. PICK c : c = Call("recovering", {n \in Nodes : Syncs(task'[n])})
  OBVIOUS
<1>2. /\ c \in Frame /\ c.name = "recovering" /\ c.of = {n \in Nodes : Syncs(task'[n])}
      /\ stack' = Append(<<>>, c)
  BY <1>1 DEF Restart, Call, Frame, CallNames
<1>3. /\ \A name : NodesIn(Append(<<>>, c), name) = NodesIn(<<>>, name) \cup OfName(c, name)
      /\ NoSync(Append(<<>>, c)) /\ Append(<<>>, c) # <<>> /\ Append(<<>>, c) \in Seq(Frame)
  BY <1>2, Empty, NodesEmpty, NodesPush
<1>4. SyncTops(stack')
  BY <1>2, <1>3, NoSyncTops
<1>5. ~Running("sync")'
  <2>1. Len(stack') \in 1 .. Len(stack')
    BY <1>2, <1>3, EmptySeq
  <2> QED
    BY <1>2, <1>3, <2>1 DEF NoSync, Running
<1> QED
  BY <1>2, <1>3, <1>4, <1>5, NodesEmpty DEF OfName

LEMMA KeepsSyncIsTop ==
  ASSUME TypeOK, LaunchInv, SyncIsTop, Next
  PROVE  SyncIsTop'
<1>1. SyncTops(stack')
  BY Steps, RestartStack, GoingRoot, GrownParts
<1> QED
  BY <1>1 DEF SyncTops, SyncIsTop, Running, Args

\* A node leaves a list when it is dealt with, or when all calls are left.
LEMMA HeldRemains ==
  ASSUME TypeOK, LaunchInv, SyncIsTop, HandlerStep, ~Raises, NEW m \in HeldIn(stack)
  PROVE  m \in HeldIn(stack') \/ Starts(m)
<1>1. stack # <<>> /\ (Returns \/ WalksOn)
  BY HandlerBase
<1>2. \A s : HeldIn(s) = NodesIn(s, "starting")
  BY DEF HeldIn, NodesIn
<1>3. CASE Returns
  <2>1. m \in NodesIn(Below, "starting")
    BY <1>1, <1>2, <1>3, BelowParts DEF Returns, OfName
  <2> QED
    BY <1>1, <1>2, <1>3, <2>1, BelowParts, GrownParts DEF Returns
<1>4. CASE WalksOn
  <2>1. PICK n : Walks(n) /\ Grown(stack', NextOf(n))
    BY <1>4 DEF WalksOn
  <2>2. Top.name # "sync"
    BY <2>1, WalksList
  <2>3. NodesIn(NextOf(n), "starting") \subseteq NodesIn(stack', "starting")
    BY <1>1, <2>1, <2>2, NextParts, GrownParts
  <2>4. CASE Top.name = "starting"
    <3>1. Starts(n)
      BY <2>1, <2>4 DEF Walks, Cancels, CancelWorker, CancelUnbound, RecoverNode, Cancelling,
         Running, Top
    <3>2. NodesIn(stack, "starting") \ {n} \subseteq NodesIn(NextOf(n), "starting")
      BY <1>1, NextParts
    <3> QED
      BY <1>2, <2>3, <3>1, <3>2
  <2>5. CASE Top.name # "starting"
    <3>1. NodesIn(NextOf(n), "starting") = NodesIn(stack, "starting")
      BY <1>1, <2>5, NextParts
    <3> QED
      BY <1>2, <2>3, <3>1
  <2> QED
    BY <2>4, <2>5
<1> QED
  BY <1>1, <1>3, <1>4

LEMMA RecoveryRemains ==
  ASSUME TypeOK, LaunchInv, SyncIsTop, HandlerStep, ~Raises,
         NEW m \in NodesIn(stack, "recovering")
  PROVE  m \in NodesIn(stack', "recovering") \/ RecoverNode(m)
<1>1. stack # <<>> /\ (Returns \/ WalksOn)
  BY HandlerBase
<1>2. CASE Returns
  <2>1. m \in NodesIn(Below, "recovering")
    BY <1>1, <1>2, BelowParts DEF Returns, OfName
  <2> QED
    BY <1>1, <1>2, <2>1, BelowParts, GrownParts DEF Returns
<1>3. CASE WalksOn
  <2>1. PICK n : Walks(n) /\ Grown(stack', NextOf(n))
    BY <1>3 DEF WalksOn
  <2>2. Top.name # "sync"
    BY <2>1, WalksList
  <2>3. NodesIn(NextOf(n), "recovering") \subseteq NodesIn(stack', "recovering")
    BY <1>1, <2>1, <2>2, NextParts, GrownParts
  <2>4. CASE Top.name = "recovering"
    <3>1. RecoverNode(n)
      BY <2>1, <2>4, StartsList DEF Walks, Cancels, CancelWorker, CancelUnbound, Cancelling,
         Running, Top
    <3>2. NodesIn(stack, "recovering") \ {n} \subseteq NodesIn(NextOf(n), "recovering")
      BY <1>1, NextParts
    <3> QED
      BY <2>3, <3>1, <3>2
  <2>5. CASE Top.name # "recovering"
    <3>1. NodesIn(NextOf(n), "recovering") = NodesIn(stack, "recovering")
      BY <1>1, <2>5, NextParts
    <3> QED
      BY <2>3, <3>1
  <2> QED
    BY <2>4, <2>5
<1> QED
  BY <1>1, <1>2, <1>3

-----------------------------------------------------------------------------
(* What a step does to the nodes.                                          *)

\* Every way in which a node changes its status.
NodeChange(n) ==
  \/ Sync /\ Args = {n} /\ node'[n] = Followed(n) /\ result'[n] = Summary(n)
  \/ Schedule /\ n \in Doomed(node) /\ node'[n] = "blocked"
  \/ StartRefused(n) /\ node[n] \notin NodeEnd /\ node'[n] = "failed"
  \/ Starts(n) /\ node[n] \in Unstarted /\ node'[n] \in {"ready", "starting"}
  \/ node[n] \in Unstarted /\ node'[n] = "cancelled"

LEMMA StartsNode ==
  ASSUME TypeOK, NEW m \in Nodes, Starts(m), NEW n \in Nodes, node'[n] # node[n]
  PROVE  NodeChange(n)
<1> USE DEF TypeOK, NodeMap
<1>1. CASE StartRefused(m)
  <2>1. n = m /\ node'[n] = "failed" /\ (Entered(n) = "failed" \/ "failed" \in NodeMoves[Entered(n)])
    BY <1>1 DEF StartRefused
  <2>2. node[n] \notin NodeEnd
    BY <2>1 DEF Entered, NodeEnd, NodeMoves
  <2> QED
    BY <1>1, <2>1, <2>2 DEF NodeChange
<1>2. CASE StartWithoutWorktree(m)
  <2>1. n = m /\ node[n] \in Unstarted /\ node'[n] = "ready"
    BY <1>2 DEF StartWithoutWorktree, Entered, Unstarted
  <2> QED
    BY <2>1 DEF NodeChange
<1>3. CASE StartSettled(m)
  <2>1. node' = [node EXCEPT ![m] = Entered(m)] \/ node' = Launched(m)
    BY <1>3 DEF StartSettled
  <2>2. n = m /\ node[n] \in Unstarted /\ node'[n] \in {"ready", "starting"}
    BY <2>1 DEF Entered, Launched, Unstarted
  <2> QED
    BY <2>2 DEF NodeChange
<1>4. CASE StartUnusable(m) \/ StartOverLimit(m) \/ StartThread(m)
  <2>1. node' = Launched(m)
    BY <1>4 DEF StartUnusable, StartOverLimit, StartThread, Launching
  <2>2. n = m /\ node[n] \in Unstarted /\ node'[n] = "starting"
    BY <2>1 DEF Launched
  <2> QED
    BY <2>2 DEF NodeChange
<1> QED
  BY <1>1, <1>2, <1>3, <1>4 DEF Starts

LEMMA EventsKeepNodes ==
  ASSUME \E m \in Bound : ServerEvent(m) \/ TaskCommand(m)
  PROVE  UNCHANGED runVars
BY DEF ServerEvent, ThreadStarted, ThreadRefused, Resumed, ResumeFails,
        ResumeRefused, ViewRefused, TurnProceeds, ApprovalAsked, TurnCompleted,
       TurnRefused, TurnError, TaskCommand, CancelBound, UserStart, UserStartOverLimit,
       UserStartUnusable, OpenUnusable, UserSends, Cleanup, CleanupDirty

\* The requeue finds a launched node, and either changes nothing or raises.
LEMMA RequeueKeepsNodes ==
  ASSUME TypeOK, LaunchInv, Requeue
  PROVE  UNCHANGED node
<1>1. stack # <<>> /\ ~Running("sync")
  BY DEF Requeue, Running
<1>2. PICK n \in Args : IF task[n] # "ready" THEN UNCHANGED node
                        ELSE IF node[n] = "ready" \/ "ready" \in NodeMoves[node[n]]
                        THEN node' = [node EXCEPT ![n] = "ready"] ELSE UNCHANGED node
  BY DEF Requeue
<1>3. n \in Nodes
  BY <1>1, TopFrame
<1>4. task[n] = "ready" => node[n] \notin Unstarted
  BY <1>1, <1>3 DEF LaunchInv, BoundIsLaunched
<1> QED
  BY <1>2, <1>3, <1>4, MovesEnd DEF TypeOK, NodeMap, Unstarted

LEMMA NodeStep ==
  ASSUME TypeOK, LaunchInv, SyncIsTop, Going, NEW n \in Nodes, node'[n] # node[n]
  PROVE  NodeChange(n)
<1> USE DEF TypeOK, NodeMap
<1>1. CASE Sync
  <2>1. PICK m \in Nodes : /\ Args = {m} /\ node' = [node EXCEPT ![m] = Followed(m)]
                           /\ result' = [result EXCEPT ![m] = Summary(m)]
    BY <1>1, SyncGoes
  <2>2. m = n
    BY <2>1
  <2>3. node'[n] = Followed(n) /\ result'[n] = Summary(n)
    BY <2>1, <2>2 DEF ResultMap
  <2> QED
    BY <1>1, <2>1, <2>2, <2>3 DEF NodeChange
<1>2. CASE Schedule
  BY <1>2 DEF Schedule, NodeChange
<1>3. CASE Requeue
  BY <1>3, RequeueKeepsNodes
<1>4. CASE FinishSchedule \/ BeginTurn \/ FinishCancel \/ FinishRecovery
  BY <1>4 DEF FinishSchedule, BeginTurn, FinishCancel, FinishRecovery, runVars
<1>5. ASSUME NEW m \in Nodes, Starts(m)
      PROVE  NodeChange(n)
  BY <1>5, StartsNode
<1>6. ASSUME NEW m \in Nodes, CancelUnbound(m) \/ CancelNode(m)
      PROVE  NodeChange(n)
  BY <1>6 DEF CancelUnbound, CancelNode, NodeChange
<1>7. ASSUME NEW m \in Nodes, CancelWorker(m) \/ RecoverNode(m)
      PROVE  FALSE
  BY <1>7 DEF CancelWorker, RecoverNode, runVars
<1>8. CASE StartRun \/ StartRunWithoutBase \/ PauseRun \/ ResumeRun \/ CancelRun
  BY <1>8 DEF StartRun, StartRunWithoutBase, PauseRun, ResumeRun, CancelRun, runVars
<1>9. CASE \E m \in Bound : ServerEvent(m) \/ TaskCommand(m)
  BY <1>9, EventsKeepNodes DEF runVars
<1>10. CASE HandlerStep
  BY <1>1, <1>2, <1>3, <1>4, <1>5, <1>6, <1>7, <1>10 DEF HandlerStep, Starts
<1>11. CASE RunCommand
  BY <1>6, <1>8, <1>11 DEF RunCommand
<1> QED
  BY <1>9, <1>10, <1>11 DEF Going

LEMMA GoingOnward ==
  ASSUME TypeOK, Going
  PROVE  Onward
BY Monotonic DEF Going

\* An ended node stays as it is.
LEMMA EndedStays ==
  ASSUME TypeOK, LaunchInv, SyncIsTop, Going, NEW n \in Nodes, node[n] \in NodeEnd
  PROVE  node'[n] = node[n]
<1> SUFFICES ASSUME node'[n] # node[n] PROVE FALSE
  OBVIOUS
<1>1. NodeChange(n) /\ node[n] \notin Unstarted
  BY NodeStep DEF NodeEnd, Unstarted
<1>2. Followed(n) = node[n]
  BY DEF Followed, SyncedStatus, NodeEnd
<1> QED
  BY <1>1, <1>2 DEF NodeChange, Doomed, Waiting

\* A node succeeds only by the sync of its completed task, which leaves a result.
LEMMA SucceedsBySync ==
  ASSUME TypeOK, LaunchInv, SyncIsTop, Going, NEW n \in Nodes,
         node[n] # "succeeded", node'[n] = "succeeded"
  PROVE  /\ Sync /\ Args = {n} /\ task[n] = "completed"
         /\ result'[n] = "completed" /\ node[n] \in InFlight
<1>1. Sync /\ Args = {n} /\ Followed(n) = "succeeded" /\ result'[n] = Summary(n)
  BY NodeStep DEF NodeChange
<1>2. node[n] \in NodeStatus /\ task[n] \in TaskStatus
  BY DEF TypeOK, NodeMap
<1>3. task[n] = "completed" /\ node[n] \notin NodeEnd
  BY <1>1, <1>2 DEF Followed, SyncedStatus, Verdict, TaskStatus, NodeEnd, NodeStatus
<1>4. node[n] \notin Unstarted
  BY <1>3 DEF LaunchInv, BoundIsLaunched
<1>5. node[n] \in InFlight
  BY <1>2, <1>3, <1>4 DEF NodeStatus, NodeEnd, Unstarted, InFlight
<1> QED
  BY <1>1, <1>3, <1>5 DEF Summary, Reported

\* A node that comes to be in flight is launched, or it was in flight.
LEMMA FlownFrom ==
  ASSUME TypeOK, LaunchInv, SyncIsTop, Going, NEW n \in Nodes, node'[n] \in InFlight
  PROVE  Launches(n) \/ node[n] \in InFlight
<1>1. node[n] \in NodeStatus
  BY DEF TypeOK, NodeMap
<1>2. node[n] \notin NodeEnd
  BY EndedStays DEF NodeEnd, InFlight
<1> QED
  BY <1>1, <1>2 DEF Launches, NodeStatus, NodeEnd, Unstarted, InFlight

-----------------------------------------------------------------------------
(* What a step does to the run and to the registry.                        *)

RunChange ==
  /\ run \in RunEnd => run' = run
  /\ run' = "approved" => run = "approved"
  /\ run' = "running" => run = "running" \/ stack = <<>>
  /\ run' \in {"completed", "partial", "failed"} /\ run' # run =>
       \/ run' = Outcome(node') /\ \A n \in Nodes : node'[n] \in NodeEnd
       \/ StartRunWithoutBase
  /\ Persist \/ UNCHANGED <<run, saved>>

LEMMA RecomputedRun ==
  ASSUME run' = Recomputed(run, node'), Persist
  PROVE  RunChange
BY DEF Recomputed, Outcome, RunEnd, RunChange

LEMMA RunStep ==
  ASSUME TypeOK, LaunchInv, SyncIsTop, Going
  PROVE  RunChange
<1>1. ASSUME UNCHANGED <<run, saved>>
      PROVE  RunChange
  BY <1>1 DEF RunChange
<1>2. CASE Sync
  <2>1. Persist /\ (UNCHANGED run \/ run' = Recomputed(run, node'))
    BY <1>2, SyncGoes
  <2>2. CASE UNCHANGED run
    BY <2>1, <2>2 DEF RunChange
  <2> QED
    BY <2>1, <2>2, RecomputedRun
<1>3. CASE FinishSchedule
  <2>1. Persist /\ run' = Recomputed(run, node')
    BY <1>3 DEF FinishSchedule
  <2> QED
    BY <2>1, RecomputedRun
<1>4. CASE FinishCancel
  BY <1>1, <1>4 DEF FinishCancel, RunMoves, RunChange, RunEnd, TypeOK, RunStatus
<1>5. ASSUME HandlerStep, ~Sync, ~FinishSchedule, ~FinishCancel
      PROVE  UNCHANGED <<run, saved>>
  BY <1>5
  DEF HandlerStep, Schedule, Requeue, BeginTurn, FinishRecovery, StartRefused,
      StartWithoutWorktree, StartSettled, StartUnusable, StartOverLimit, StartThread, Launching,
      CancelWorker, CancelUnbound, RecoverNode, runVars
<1>6. CASE RunCommand
  BY <1>1, <1>6
  DEF RunCommand, StartRun, StartRunWithoutBase, PauseRun, ResumeRun, CancelRun, CancelNode,
      RunChange, RunEnd, Idle, runVars
<1>7. CASE \E m \in Bound : ServerEvent(m) \/ TaskCommand(m)
  BY <1>1, <1>7, EventsKeepNodes DEF runVars
<1> QED
  BY <1>1, <1>2, <1>3, <1>4, <1>5, <1>6, <1>7 DEF Going

LEMMA Written ==
  ASSUME Persist
  PROVE  /\ saved'.run = run' /\ saved'.node = node' /\ saved'.result = result'
         /\ saved'.bound = {n \in Nodes : task'[n] # "none"}
BY DEF Persist, Snapshot, Bound

LEMMA ResultStep ==
  ASSUME TypeOK, LaunchInv, SyncIsTop, Going, NEW n \in Nodes, result[n] # "none"
  PROVE  result'[n] # "none"
<1>1. ASSUME UNCHANGED result
      PROVE  result'[n] # "none"
  BY <1>1
<1>2. CASE Sync
  <2>1. PICK m \in Nodes : result' = [result EXCEPT ![m] = Summary(m)]
    BY <1>2, SyncGoes
  <2>2. Summary(n) # "none"
    BY DEF Summary, Reported
  <2> QED
    BY <2>1, <2>2 DEF TypeOK, ResultMap
<1>3. ASSUME HandlerStep, ~Sync
      PROVE  UNCHANGED result
  BY <1>3
  DEF HandlerStep, Schedule, FinishSchedule, FinishCancel, Requeue, BeginTurn, FinishRecovery,
      StartRefused, StartWithoutWorktree, StartSettled, StartUnusable, StartOverLimit,
      StartThread, Launching, CancelWorker, CancelUnbound, RecoverNode, runVars
<1>4. CASE RunCommand
  BY <1>1, <1>4
  DEF RunCommand, StartRun, StartRunWithoutBase, PauseRun, ResumeRun, CancelRun, CancelNode,
      runVars
<1>5. CASE \E m \in Bound : ServerEvent(m) \/ TaskCommand(m)
  BY <1>1, <1>5, EventsKeepNodes DEF runVars
<1> QED
  BY <1>1, <1>2, <1>3, <1>4, <1>5 DEF Going

-----------------------------------------------------------------------------
(* What a step does to the tasks.                                          *)

LEMMA PushesOther ==
  ASSUME NEW b \in Seq(Frame), NEW name \in CallNames, NEW S \in SUBSET Nodes, NEW other
  PROVE  /\ Append(b, Call(name, S)) \in Seq(Frame)
         /\ other # name => NodesIn(Append(b, Call(name, S)), other) = NodesIn(b, other)
         /\ NodesIn(Append(b, Call(name, S)), name) = NodesIn(b, name) \cup S
<1>1. PICK c : c = Call(name, S)
  OBVIOUS
<1>2. /\ c \in Frame /\ c.name = name /\ c.of = S
      /\ other # name => OfName(c, other) = {}
      /\ OfName(c, name) = S
  BY <1>1, CallIsFrame DEF Call, OfName
<1>3. /\ \A nm : NodesIn(Append(b, c), nm) = NodesIn(b, nm) \cup OfName(c, nm)
      /\ Append(b, c) \in Seq(Frame)
  BY <1>2, NodesPush
<1> QED
  BY <1>1, <1>2, <1>3

LEMMA SyncPushes ==
  ASSUME NEW b \in Seq(Frame), NEW n \in Nodes, ThenSync(n, b)
  PROVE  /\ Running("sync")' /\ Args' = {n}
         /\ \A name : name # "sync" => NodesIn(stack', name) = NodesIn(b, name)
BY SyncOnTop, PushesOther DEF ThenSync, CallNames

LEMMA SendPushes ==
  ASSUME NEW b \in Seq(Frame), NEW n \in Nodes, ThenSend(n, b)
  PROVE  /\ Running("sync")' /\ Args' = {n}
         /\ NodesIn(stack', "sending") = NodesIn(b, "sending") \cup {n}
<1>1. PICK t : t = Append(b, Call("sending", {n}))
  OBVIOUS
<1>2. t \in Seq(Frame) /\ NodesIn(t, "sending") = NodesIn(b, "sending") \cup {n}
  BY <1>1, PushesOther DEF CallNames
<1>3. ThenSync(n, t)
  BY <1>1 DEF ThenSend, ThenSync
<1> QED
  BY <1>2, <1>3, SyncPushes

LEMMA RequeuePushes ==
  ASSUME NEW b \in Seq(Frame), NEW n \in Nodes, ThenSync(n, Append(b, Call("requeue", {n})))
  PROVE  /\ Running("sync")' /\ Args' = {n}
         /\ NodesIn(stack', "sending") = NodesIn(b, "sending")
<1>1. PICK t : t = Append(b, Call("requeue", {n}))
  OBVIOUS
<1>2. t \in Seq(Frame) /\ NodesIn(t, "sending") = NodesIn(b, "sending")
  BY <1>1, PushesOther DEF CallNames
<1> QED
  BY <1>1, <1>2, SyncPushes

\* Every way in which a task changes its status.
TaskChange(n) ==
  \/ /\ Running("sync")' /\ Args' = {n}
     /\ task'[n] \in {"ready", "running", "completed", "failed", "cancelled", "orphaned"}
     /\ task'[n] = "completed" => stack = <<>> /\ turns[n] > 0
     /\ task[n] = "none" => Starts(n)
     /\ task[n] # "missing"
  \/ /\ task'[n] = "ready" /\ task[n] \in {"none", "failed"}
     /\ task[n] = "none" => Starts(n)
  \/ /\ stack = <<>> /\ stack' = <<>>
     /\ task[n] \in DOMAIN Verdict /\ task'[n] \in {"archived", "failed"}

LEMMA BeginThreadStep ==
  ASSUME TypeOK, NEW n \in Nodes, NEW b \in Seq(Frame), BeginThread(n, b),
         task[n] \in {"none", "ready", "failed"},
         task[n] = "none" => Starts(n), NEW m \in Nodes, task'[m] # task[m]
  PROVE  TaskChange(m)
<1>1. \/ task' = [task EXCEPT ![n] = "running"] /\ ThenSend(n, b)
      \/ task' = [task EXCEPT ![n] = "ready"]
  BY DEF BeginThread
<1>2. CASE task' = [task EXCEPT ![n] = "running"] /\ ThenSend(n, b)
  <2>1. m = n /\ task'[n] = "running" /\ task[n] # "missing"
    BY <1>2 DEF TypeOK
  <2> QED
    BY <1>2, <2>1, SendPushes DEF TaskChange
<1>3. CASE task' = [task EXCEPT ![n] = "ready"]
  <2>1. m = n /\ task'[n] = "ready" /\ task[n] \in {"none", "failed"}
    BY <1>3 DEF TypeOK
  <2> QED
    BY <2>1 DEF TaskChange
<1> QED
  BY <1>1, <1>2, <1>3

LEMMA StartsTask ==
  ASSUME TypeOK, SyncIsTop, NEW n \in Nodes, Starts(n), NEW m \in Nodes, task'[m] # task[m]
  PROVE  TaskChange(m)
<1>1. stack # <<>>
  BY StartsList DEF Running
<1>2. NextOf(n) \in Seq(Frame)
  BY <1>1, NextFrame
<1>3. CASE StartWithoutWorktree(n)
  <2>1. m = n /\ task'[n] = "failed" /\ task[n] = "none" /\ ThenSync(n, NextOf(n))
    BY <1>3 DEF StartWithoutWorktree, TypeOK
  <2> QED
    BY <1>2, <2>1, SyncPushes DEF TaskChange
<1>4. CASE StartUnusable(n)
  <2>1. m = n /\ task'[n] = "failed" /\ task[n] \in {"none", "ready"} /\ ThenSync(n, NextOf(n))
    BY <1>4 DEF StartUnusable, Launching, TypeOK
  <2> QED
    BY <1>2, <2>1, SyncPushes DEF TaskChange
<1>5. CASE StartOverLimit(n)
  <2>1. /\ m = n /\ task'[n] = "ready" /\ task[n] \in {"none", "ready"}
        /\ ThenSync(n, Append(NextOf(n), Call("requeue", {n})))
    BY <1>5 DEF StartOverLimit, Launching, TypeOK
  <2> QED
    BY <1>2, <2>1, RequeuePushes DEF TaskChange
<1>6. CASE StartThread(n)
  <2>1. BeginThread(n, NextOf(n)) /\ task[n] \in {"none", "ready"}
    BY <1>6 DEF StartThread, Launching
  <2> QED
    BY <1>2, <2>1, BeginThreadStep
<1>7. CASE StartRefused(n) \/ StartSettled(n)
  BY <1>7 DEF StartRefused, StartSettled, taskVars
<1> QED
  BY <1>3, <1>4, <1>5, <1>6, <1>7 DEF Starts

LEMMA ServerTask ==
  ASSUME TypeOK, MissingIsQuiet, NEW n \in Bound, ServerEvent(n), NEW m \in Nodes,
         task'[m] # task[m]
  PROVE  TaskChange(m)
<1> USE DEF TypeOK
<1>1. n \in Nodes /\ task[n] # "none" /\ stack = <<>> /\ <<>> \in Seq(Frame)
  BY Empty
  DEF Bound, ServerEvent, ThreadStarted, ThreadRefused, Resumed, ResumeFails,
        ResumeRefused, ViewRefused, TurnProceeds, ApprovalAsked,
      TurnCompleted, TurnRefused, TurnError, Idle
<1>2. starts[n] > 0 \/ turns[n] > 0 => task[n] # "missing"
  BY <1>1 DEF MissingIsQuiet
<1>3. CASE ThreadStarted(n)
  <2>1. m = n /\ task[n] = "ready" /\ task'[n] = "running" /\ ThenSend(n, <<>>)
    BY <1>1, <1>3 DEF ThreadStarted
  <2> QED
    BY <1>1, <2>1, SendPushes DEF TaskChange
<1>4. CASE \/ ThreadRefused(n) \/ TurnProceeds(n) \/ ApprovalAsked(n)
           \/ TurnRefused(n) \/ TurnError(n)
  <2>1. /\ m = n /\ task'[n] \in {"running", "failed"} /\ ThenSync(n, <<>>)
        /\ starts[n] > 0 \/ turns[n] > 0
    BY <1>1, <1>4 DEF ThreadRefused, TurnProceeds, ApprovalAsked, TurnRefused, TurnError
  <2> QED
    BY <1>1, <1>2, <2>1, SyncPushes DEF TaskChange
<1>5. ASSUME NEW outcome \in {"completed", "failed"}, TurnCompleted(n, outcome)
      PROVE  TaskChange(m)
  <2>1. /\ m = n /\ task'[n] \in {"completed", "failed", "cancelled"} /\ ThenSync(n, <<>>)
        /\ turns[n] > 0
    BY <1>1, <1>5 DEF TurnCompleted
  <2> QED
    BY <1>1, <1>2, <2>1, SyncPushes DEF TaskChange
<1>6. CASE Resumed(n)
  <2>1. m = n /\ task[n] = "ready" /\ task'[n] = "running" /\ ThenSend(n, <<>>)
    BY <1>1, <1>6 DEF Resumed
  <2> QED
    BY <1>1, <2>1, SendPushes DEF TaskChange
<1>7. CASE ResumeRefused(n) \/ ViewRefused(n)
  <2>1. m = n /\ task[n] # "missing" /\ task'[n] = "failed" /\ ThenSync(n, <<>>)
    BY <1>1, <1>7 DEF ResumeRefused, ViewRefused, ResumeFails
  <2> QED
    BY <1>1, <2>1, SyncPushes DEF TaskChange
<1> QED
  BY <1>3, <1>4, <1>5, <1>6, <1>7 DEF ServerEvent

LEMMA CommandTask ==
  ASSUME TypeOK, NEW n \in Bound, TaskCommand(n), NEW m \in Nodes, task'[m] # task[m]
  PROVE  TaskChange(m)
<1> USE DEF TypeOK
<1>1. n \in Nodes /\ task[n] # "none" /\ <<>> \in Seq(Frame)
  BY Empty DEF Bound
<1>2. CASE \/ CancelBound(n) \/ UserStartOverLimit(n) \/ UserStartUnusable(n)
           \/ OpenUnusable(n)
  <2>1. /\ m = n /\ task'[n] \in {"cancelled", "ready", "failed", "orphaned"}
        /\ ThenSync(n, <<>>) /\ task[n] # "missing"
    BY <1>1, <1>2 DEF CancelBound, CancelTask, Cancellable, UserStartOverLimit,
                     UserStartUnusable, OpenUnusable
  <2> QED
    BY <1>1, <2>1, SyncPushes DEF TaskChange
<1>3. CASE UserStart(n)
  <2>1. BeginThread(n, <<>>) /\ task[n] \in {"ready", "failed"}
    BY <1>3 DEF UserStart
  <2> QED
    BY <1>1, <2>1, BeginThreadStep
<1>4. CASE UserSends(n)
  <2>1. m = n /\ task[n] = "ready" /\ task'[n] = "running" /\ ThenSend(n, <<>>)
    BY <1>1, <1>4 DEF UserSends
  <2> QED
    BY <1>1, <2>1, SendPushes DEF TaskChange
<1>5. CASE Cleanup(n) \/ CleanupDirty(n)
  <2>1. /\ m = n /\ task'[n] \in {"archived", "failed"}
        /\ task[n] \in DOMAIN Verdict /\ stack = <<>> /\ stack' = <<>>
    BY <1>1, <1>5 DEF Cleanup, CleanupDirty, CleanupStarts, Idle, Verdict
  <2> QED
    BY <2>1 DEF TaskChange
<1> QED
  BY <1>2, <1>3, <1>4, <1>5 DEF TaskCommand

LEMMA TaskStep ==
  ASSUME TypeOK, SyncIsTop, MissingIsQuiet, Going, NEW m \in Nodes, task'[m] # task[m]
  PROVE  TaskChange(m)
<1>1. ASSUME NEW n \in Nodes, Starts(n)
      PROVE  TaskChange(m)
  BY <1>1, StartsTask
<1>2. ASSUME NEW n \in Nodes, CancelWorker(n)
      PROVE  TaskChange(m)
  <2>1. stack # <<>>
    BY <1>2 DEF CancelWorker, Cancelling, Running
  <2>2. NextOf(n) \in Seq(Frame)
    BY <2>1, NextFrame
  <2>3. m = n /\ task'[n] = "cancelled" /\ task[n] = "running" /\ ThenSync(n, NextOf(n))
    BY <1>2 DEF CancelWorker, CancelTask, TypeOK
  <2> QED
    BY <2>2, <2>3, SyncPushes DEF TaskChange
<1>3. CASE HandlerStep
  <2>1. (\A n \in Nodes : ~Starts(n) /\ ~CancelWorker(n)) => UNCHANGED task
    BY <1>3 DEF HandlerStep, Starts, Sync, Schedule, FinishSchedule, Requeue, BeginTurn,
       FinishCancel, FinishRecovery, CancelUnbound, RecoverNode, taskVars
  <2> QED
    BY <1>1, <1>2, <2>1
<1>4. CASE RunCommand
  BY <1>4 DEF RunCommand, StartRun, StartRunWithoutBase, PauseRun, ResumeRun, CancelRun,
     CancelNode, taskVars
<1> QED
  BY <1>3, <1>4, ServerTask, CommandTask DEF Going

\* A task neither gets lost nor comes back while the desktop runs.
LEMMA MissingSame ==
  ASSUME TypeOK, LaunchInv, SyncIsTop, MissingIsQuiet, Going, NEW n \in Nodes
  PROVE  task'[n] = "missing" <=> task[n] = "missing"
<1> SUFFICES ASSUME task'[n] # task[n]
             PROVE  task'[n] # "missing" /\ task[n] # "missing"
  OBVIOUS
<1> QED
  BY TaskStep DEF TaskChange, Verdict

LEMMA BoundStays ==
  ASSUME TypeOK, SyncIsTop, MissingIsQuiet, Going, NEW n \in Nodes, task'[n] = "none"
  PROVE  task[n] = "none"
BY TaskStep DEF TaskChange

-----------------------------------------------------------------------------
(* The turns to be sent.                                                   *)

\* Every way in which a turn comes to be sent.
SendChange(n) ==
  /\ task[n] # "missing"
  /\ StartThread(n) \/ (stack = <<>> /\ n \in Bound)
  /\ \/ Running("sync")' /\ Args' = {n}
     \/ task[n] # "ready" /\ task'[n] = task[n]

\* What a step of a handler adds to what is left of the stack.
Pushes(b) ==
  \/ stack' = b
  \/ \E name \in {"schedule", "starting"}, S \in SUBSET Nodes : stack' = Append(b, Call(name, S))
  \/ \E n \in Nodes :
       /\ Starts(n) \/ CancelWorker(n) \/ RecoverNode(n)
       /\ \/ ThenSync(n, b)
          \/ Starts(n) /\ ThenSync(n, Append(b, Call("requeue", {n})))
          \/ StartThread(n) /\ ThenSend(n, b)

LEMMA HandlerForms ==
  ASSUME TypeOK, LaunchInv, SyncIsTop, HandlerStep
  PROVE  /\ stack # <<>>
         /\ \E b \in Seq(Frame) :
              /\ NoSync(b) /\ \A name : NodesIn(b, name) \subseteq NodesIn(stack, name)
              /\ Pushes(b)
<1>1. stack # <<>>
  BY HandlerBase
<1>2. /\ <<>> \in Seq(Frame) /\ NoSync(<<>>)
      /\ \A name : NodesIn(<<>>, name) \subseteq NodesIn(stack, name)
  BY Empty, NodesEmpty
<1>3. /\ Below \in Seq(Frame) /\ NoSync(Below)
      /\ \A name : NodesIn(Below, name) \subseteq NodesIn(stack, name)
  BY <1>1, BelowParts
<1>4. \A n : /\ NextOf(n) \in Seq(Frame)
             /\ Walks(n) => NoSync(NextOf(n))
             /\ \A name : NodesIn(NextOf(n), name) \subseteq NodesIn(stack, name)
  BY <1>1, NextParts, WalksList
<1>5. CASE Sync
  <2>1. stack' = Below \/ stack' = Append(Below, Call("schedule", {}))
    BY <1>5, SyncGoes
  <2>2. Pushes(Below)
    BY <2>1 DEF Pushes
  <2> QED
    BY <1>1, <1>3, <2>2
<1>6. CASE Schedule
  <2>1. Chosen(node, run = "paused") \in SUBSET Nodes
    BY DEF Chosen, Startable, Waiting
  <2>2. PICK S \in SUBSET Nodes : stack' = Below \/ stack' = Append(Below, Call("starting", S))
    BY <1>6, <2>1 DEF Schedule
  <2>3. Pushes(Below)
    BY <2>2 DEF Pushes
  <2> QED
    BY <1>1, <1>3, <2>3
<1>7. CASE FinishSchedule \/ Requeue \/ BeginTurn \/ FinishCancel \/ FinishRecovery
  <2>1. stack' = Below \/ stack' = <<>>
    BY <1>7 DEF FinishSchedule, Requeue, BeginTurn, FinishCancel, FinishRecovery
  <2>2. Pushes(Below) \/ Pushes(<<>>)
    BY <2>1 DEF Pushes
  <2> QED
    BY <1>1, <1>2, <1>3, <2>2
<1>8. ASSUME NEW n \in Nodes, Starts(n) \/ Cancels(n) \/ RecoverNode(n)
      PROVE  Pushes(NextOf(n)) \/ Pushes(<<>>)
  <2>1. \/ stack' = <<>> \/ stack' = NextOf(n)
        \/ /\ Starts(n) \/ CancelWorker(n) \/ RecoverNode(n)
           /\ \/ ThenSync(n, NextOf(n))
              \/ Starts(n) /\ ThenSync(n, Append(NextOf(n), Call("requeue", {n})))
              \/ StartThread(n) /\ ThenSend(n, NextOf(n))
    BY <1>8
    DEF Starts, Cancels, StartRefused, StartWithoutWorktree, StartSettled, StartUnusable,
        StartOverLimit, StartThread, BeginThread, CancelWorker, CancelTask, CancelUnbound,
        RecoverNode
  <2> QED
    BY <2>1 DEF Pushes
<1>9. \/ Sync \/ Schedule
      \/ FinishSchedule \/ Requeue \/ BeginTurn \/ FinishCancel \/ FinishRecovery
      \/ \E n \in Nodes : Starts(n) \/ Cancels(n) \/ RecoverNode(n)
  BY Zenon DEF HandlerStep, Starts, Cancels
<1>10. ASSUME NEW n \in Nodes, Starts(n) \/ Cancels(n) \/ RecoverNode(n)
       PROVE  \E b \in Seq(Frame) :
                /\ NoSync(b) /\ \A name : NodesIn(b, name) \subseteq NodesIn(stack, name)
                /\ Pushes(b)
  BY <1>2, <1>4, <1>8, <1>10 DEF Walks
<1> QED
  BY <1>1, <1>5, <1>6, <1>7, <1>9, <1>10

\* The sync in progress after a step of a handler was called by it.
LEMMA SyncPushed ==
  ASSUME TypeOK, LaunchInv, SyncIsTop, HandlerStep, Running("sync")'
  PROVE  \E n \in Nodes : Args' = {n} /\ (Starts(n) \/ CancelWorker(n) \/ RecoverNode(n))
<1>1. PICK b \in Seq(Frame) : NoSync(b) /\ Pushes(b)
  BY HandlerForms
<1>2. ~\E name \in {"schedule", "starting"}, S \in SUBSET Nodes : stack' = Append(b, Call(name, S))
  <2> SUFFICES ASSUME NEW name \in {"schedule", "starting"}, NEW S \in SUBSET Nodes,
                      stack' = Append(b, Call(name, S))
               PROVE  FALSE
    OBVIOUS
  <2>1. PICK c : c = Call(name, S)
    OBVIOUS
  <2>2. c \in Frame /\ c.name # "sync" /\ stack' = Append(b, c)
    BY <2>1, CallIsFrame DEF Call, CallNames
  <2>3. Len(Append(b, c)) = Len(b) + 1 /\ Append(b, c)[Len(b) + 1] = c
    BY <2>2, NodesPush
  <2> QED
    BY <2>2, <2>3 DEF Running
<1>3. stack' # b
  <2> SUFFICES ASSUME stack' = b PROVE FALSE
    OBVIOUS
  <2>1. b # <<>> /\ b[Len(b)].name = "sync"
    BY DEF Running
  <2>2. Len(b) \in 1 .. Len(b)
    BY <2>1, EmptySeq
  <2> QED
    BY <1>1, <2>1, <2>2 DEF NoSync
<1>4. PICK n \in Nodes :
        /\ Starts(n) \/ CancelWorker(n) \/ RecoverNode(n)
        /\ ThenSync(n, b) \/ ThenSync(n, Append(b, Call("requeue", {n}))) \/ ThenSend(n, b)
  BY <1>1, <1>2, <1>3 DEF Pushes
<1>5. Args' = {n}
  BY <1>4, SyncPushes, RequeuePushes, SendPushes
<1> QED
  BY <1>4, <1>5

LEMMA StartsHeld ==
  ASSUME TypeOK, NEW n, Starts(n)
  PROVE  n \in HeldIn(stack)
<1>1. Running("starting") /\ n \in Args
  BY StartsList
<1> QED
  BY <1>1, HeldPop DEF Running, Args, ListOf, TypeOK, Frame

LEMMA SendStep ==
  ASSUME TypeOK, LaunchInv, SyncIsTop, MissingIsQuiet, Going,
         NEW m \in NodesIn(stack', "sending"), m \notin NodesIn(stack, "sending")
  PROVE  m \in Nodes /\ SendChange(m)
<1>1. CASE HandlerStep
  <2>1. PICK b \in Seq(Frame) : NodesIn(b, "sending") \subseteq NodesIn(stack, "sending") /\ Pushes(b)
    BY <1>1, HandlerForms
  <2>2. stack' # b /\ m \notin NodesIn(b, "sending")
    BY <2>1
  <2>3. ASSUME NEW name \in {"schedule", "starting"}, NEW S \in SUBSET Nodes,
               stack' = Append(b, Call(name, S))
        PROVE  FALSE
    <3>1. NodesIn(stack', "sending") = NodesIn(b, "sending")
      BY <2>3, PushesOther DEF CallNames
    <3> QED
      BY <2>2, <3>1
  <2>4. PICK n \in Nodes :
          \/ ThenSync(n, b) \/ ThenSync(n, Append(b, Call("requeue", {n})))
          \/ StartThread(n) /\ ThenSend(n, b)
    BY <2>1, <2>2, <2>3 DEF Pushes
  <2>5. CASE StartThread(n) /\ ThenSend(n, b)
    <3>1. m = n /\ Running("sync")' /\ Args' = {n}
      BY <2>2, <2>5, SendPushes
    <3> QED
      BY <2>5, <3>1 DEF SendChange, StartThread, Launching
  <2> QED
    BY <2>2, <2>4, <2>5, SyncPushes, RequeuePushes
<1>2. ASSUME Going, ~HandlerStep
      PROVE  m \in Nodes /\ SendChange(m)
  <2>1. stack = <<>> /\ <<>> \in Seq(Frame) /\ NodesIn(<<>>, "sending") = {}
    BY <1>2, EventBase, Empty, NodesEmpty
  <2>2. CASE RunCommand
    <3>1. \/ stack' = <<>> \/ stack' = Append(<<>>, Call("schedule", {}))
          \/ stack' = Append(<<>>, Call("cancelling", Nodes))
      <4>1. \A c : <<c>> = Append(<<>>, c)
        OBVIOUS
      <4> QED
        BY <2>1, <2>2, <4>1 DEF RunCommand, StartRun, StartRunWithoutBase, PauseRun, ResumeRun,
           CancelRun, CancelNode
    <3>2. PICK e \in Seq(Frame) : e = <<>>
      BY <2>1
    <3>3. ASSUME NEW name \in {"schedule", "cancelling"}, NEW S \in SUBSET Nodes
          PROVE  NodesIn(Append(e, Call(name, S)), "sending") = NodesIn(e, "sending")
      BY PushesOther DEF CallNames
    <3> QED
      BY <2>1, <3>1, <3>2, <3>3
  <2>3. ASSUME NEW n \in Bound, ServerEvent(n) \/ TaskCommand(n)
        PROVE  m \in Nodes /\ SendChange(m)
    <3>1. n \in Nodes /\ (starts[n] > 0 => task[n] # "missing")
      BY DEF Bound, MissingIsQuiet, TypeOK
    <3>2. CASE ThenSend(n, <<>>)
      <4>1. m = n /\ Running("sync")' /\ Args' = {n}
        BY <2>1, <3>1, <3>2, SendPushes
      <4>2. task[n] # "missing"
        BY <2>1, <2>3, <3>1, <4>1
        DEF ServerEvent, ThreadStarted, ThreadRefused, Resumed, ResumeFails,
        ResumeRefused, ViewRefused, TurnProceeds, ApprovalAsked,
            TurnCompleted, TurnRefused, TurnError, TaskCommand, CancelBound, Cancellable,
            UserStart, UserStartOverLimit, UserStartUnusable, OpenUnusable, UserSends, Cleanup, CleanupDirty,
            CleanupStarts, MissingIsQuiet
      <4> QED
        BY <2>1, <3>1, <4>1, <4>2 DEF SendChange
    <3>3. CASE ThenSync(n, <<>>)
      BY <2>1, <3>1, <3>3, SyncPushes
    <3>4. CASE stack' = <<>>
      BY <2>1, <3>4
    <3>5. CASE ThreadStarted(n) /\ stack' = <<Call("sending", {n})>> /\ task[n] # "ready"
      <4>1. NodesIn(stack', "sending") = {n}
        <5>1. PICK e \in Seq(Frame) : e = <<>>
          BY <2>1
        <5>2. stack' = Append(e, Call("sending", {n}))
          BY <3>5, <5>1
        <5>3. NodesIn(Append(e, Call("sending", {n})), "sending") = NodesIn(e, "sending") \cup {n}
          BY <3>1, PushesOther DEF CallNames
        <5> QED
          BY <2>1, <5>1, <5>2, <5>3
      <4>2. task'[n] = task[n] /\ task[n] # "missing"
        BY <3>1, <3>5 DEF ThreadStarted, TypeOK
      <4> QED
        BY <2>1, <3>1, <3>5, <4>1, <4>2 DEF SendChange
    <3> QED
      BY <2>1, <2>3, <3>2, <3>3, <3>4, <3>5
      DEF ServerEvent, ThreadStarted, ThreadRefused, Resumed, ResumeFails,
        ResumeRefused, ViewRefused, TurnProceeds, ApprovalAsked, TurnCompleted,
          TurnRefused, TurnError, TaskCommand, CancelBound, CancelTask, UserStart,
          UserStartOverLimit, UserStartUnusable, OpenUnusable, UserSends, Cleanup, CleanupDirty, BeginThread
  <2> QED
    BY <1>2, <2>2, <2>3 DEF Going
<1> QED
  BY <1>1, <1>2

-----------------------------------------------------------------------------
(* SupervisionInv is inductive: one lemma per part.  The calls in progress. *)

Inv == TypeOK /\ LaunchInv /\ SupervisionInv

LEMMA HeldAreNodesIn ==
  ASSUME NEW s
  PROVE  HeldIn(s) = NodesIn(s, "starting")
BY DEF HeldIn, NodesIn

LEMMA HandlerStack ==
  ASSUME TypeOK, LaunchInv, SyncIsTop, HandlerStep
  PROVE  stack # <<>>
BY HandlerBase

LEMMA KeepsRecoveryIsQuiet ==
  ASSUME Inv, Next
  PROVE  RecoveryIsQuiet'
<1> USE DEF Inv, SupervisionInv
<1>1. ASSUME Going, Recovering'
      PROVE  /\ run' # "running" /\ HeldIn(stack') = {}
             /\ NodesIn(stack', "requeue") = {} /\ NodesIn(stack', "sending") = {}
  <2>1. /\ Recovering /\ HandlerStep /\ run # "running" /\ HeldIn(stack) = {}
        /\ NodesIn(stack, "requeue") = {} /\ NodesIn(stack, "sending") = {}
    BY <1>1, BottomKept DEF RecoveryIsQuiet
  <2>2. stack # <<>>
    BY <2>1, HandlerStack
  <2>3. run' # "running"
    BY <1>1, <2>1, <2>2, RunStep DEF RunChange
  <2>4. HeldIn(stack') = {}
    <3>1. ~(run = "paused") \/ Chosen(node, run = "paused") = {}
      BY DEF Chosen
    <3> QED
      BY <2>1, <3>1, HeldByHandler DEF LaunchInv, Tame
  <2>5. \A n : ~Starts(n)
    BY <2>1, StartsHeld
  <2>6. NodesIn(stack', "sending") = {}
    <3> SUFFICES ASSUME NEW m \in NodesIn(stack', "sending") PROVE FALSE
      OBVIOUS
    <3>1. StartThread(m)
      BY <1>1, <2>1, <2>2, SendStep DEF SendChange
    <3> QED
      BY <2>5, <3>1 DEF Starts
  <2>7. NodesIn(stack', "requeue") = {}
    <3>1. PICK b \in Seq(Frame) : NodesIn(b, "requeue") \subseteq NodesIn(stack, "requeue") /\ Pushes(b)
      BY <2>1, HandlerForms
    <3>2. ASSUME NEW name \in {"schedule", "starting"}, NEW S \in SUBSET Nodes,
                 stack' = Append(b, Call(name, S))
          PROVE  NodesIn(stack', "requeue") = {}
      BY <2>1, <3>1, <3>2, PushesOther DEF CallNames
    <3>3. ASSUME NEW n \in Nodes, ThenSync(n, b)
          PROVE  NodesIn(stack', "requeue") = {}
      BY <2>1, <3>1, <3>3, SyncPushes
    <3>4. \/ stack' = b
          \/ \E name \in {"schedule", "starting"}, S \in SUBSET Nodes : stack' = Append(b, Call(name, S))
          \/ \E n \in Nodes : ThenSync(n, b)
      BY <2>5, <3>1 DEF Pushes, Starts
    <3> QED
      BY <2>1, <3>1, <3>2, <3>3, <3>4
  <2> QED
    BY <2>3, <2>4, <2>6, <2>7
<1>2. CASE Restart
  <2>1. run' # "running"
    BY <1>2 DEF Restart, LoadedRun
  <2> QED
    BY <1>2, <2>1, RestartStack, HeldAreNodesIn DEF RecoveryIsQuiet
<1> QED
  BY <1>1, <1>2, Steps DEF RecoveryIsQuiet

\* Only the end of a turn completes a task, between handlers.
LEMMA CompletesIdle ==
  ASSUME Inv, HandlerStep, NEW n \in Nodes, task'[n] = "completed"
  PROVE  task[n] = "completed"
<1>1. stack # <<>> /\ Going
  BY HandlerStack DEF Inv, SupervisionInv, Going
<1> QED
  BY <1>1, TaskStep DEF TaskChange, Inv, SupervisionInv

LEMMA KeepsNoNewsWhileHeld ==
  ASSUME Inv, Next
  PROVE  NoNewsWhileHeld'
<1> USE DEF Inv, SupervisionInv
<1>1. CASE ~HandlerStep
  BY <1>1, HeldByEvent DEF NoNewsWhileHeld
<1>2. CASE HandlerStep
  <2>1. ASSUME NEW n \in HeldIn(stack')
        PROVE  task'[n] # "completed"
    <3>1. CASE n \in HeldIn(stack)
      BY <1>2, <3>1, CompletesIdle, HeldNodes DEF NoNewsWhileHeld
    <3>2. CASE n \notin HeldIn(stack)
      <4>1. Schedule /\ n \in Chosen(node, run = "paused")
        BY <1>2, <2>1, <3>2, HeldByHandler DEF LaunchInv, Tame
      <4>2. n \in Nodes /\ node[n] \in Unstarted /\ UNCHANGED task
        BY <4>1 DEF Schedule, Chosen, Startable, Waiting, taskVars
      <4> QED
        BY <4>2 DEF LaunchInv, BoundIsLaunched
    <3> QED
      BY <3>1, <3>2
  <2>2. ASSUME Running("sync")', HeldIn(stack') # {}, NEW n \in Args'
        PROVE  task'[n] # "completed"
    <3>1. n \in Nodes /\ (Starts(n) \/ CancelWorker(n) \/ RecoverNode(n))
      BY <1>2, <2>2, SyncPushed
    <3>2. CASE Starts(n)
      BY <1>2, <3>1, <3>2, StartsHeld, CompletesIdle DEF NoNewsWhileHeld
    <3>3. CASE CancelWorker(n)
      BY <3>1, <3>3 DEF CancelWorker, CancelTask, TypeOK
    <3>4. CASE RecoverNode(n)
      <4>1. stack # <<>> /\ Top.name = "recovering"
        BY <3>4 DEF RecoverNode, Running, Top
      <4>2. Len(stack) \in 1 .. Len(stack)
        BY <4>1, EmptySeq DEF TypeOK
      <4>3. Recovering
        BY <4>1, <4>2 DEF Recovering, Top, LaunchInv, AtBottom
      <4>4. HeldIn(stack) = {}
        BY <4>3 DEF RecoveryIsQuiet
      <4>5. ~Schedule
        BY <4>1 DEF Schedule, Running, Top
      <4> QED
        BY <1>2, <2>2, <4>4, <4>5, HeldByHandler DEF LaunchInv, Tame
    <3> QED
      BY <3>1, <3>2, <3>3, <3>4
  <2> QED
    BY <2>1, <2>2 DEF NoNewsWhileHeld
<1> QED
  BY <1>1, <1>2

LEMMA KeepsSendsLaunched ==
  ASSUME Inv, Next
  PROVE  SendsLaunched'
<1> USE DEF Inv, SupervisionInv
<1>1. ASSUME Going, NEW m \in NodesIn(stack', "sending")
      PROVE  node'[m] \notin Unstarted
  <2>1. Onward
    BY <1>1, GoingOnward
  <2>2. CASE m \in NodesIn(stack, "sending")
    <3>1. m \in Nodes
      <4>1. \A i \in 1 .. Len(stack) : stack[i] \in Frame
        BY ElementOfSeq DEF TypeOK, Frame
      <4> QED
        BY <2>2, <4>1 DEF NodesIn, Frame
    <3> QED
      BY <2>1, <2>2, <3>1 DEF SendsLaunched, Onward
  <2>3. CASE m \notin NodesIn(stack, "sending")
    <3>1. m \in Nodes /\ (StartThread(m) \/ (stack = <<>> /\ m \in Bound))
      BY <1>1, <2>3, SendStep DEF SendChange
    <3>2. CASE StartThread(m)
      BY <3>1, <3>2 DEF StartThread, Launching, Launched, TypeOK, NodeMap, Unstarted
    <3>3. CASE stack = <<>> /\ m \in Bound
      <4>1. node[m] \notin Unstarted
        BY <3>1, <3>3 DEF LaunchInv, BoundIsLaunched, Running, Bound
      <4> QED
        BY <2>1, <3>1, <4>1 DEF Onward
    <3> QED
      BY <3>1, <3>2, <3>3
  <2> QED
    BY <2>2, <2>3
<1>2. CASE Restart
  BY <1>2, RestartStack DEF SendsLaunched
<1> QED
  BY <1>1, <1>2, Steps DEF SendsLaunched

\* A task that was not loaded asks for nothing.
LEMMA MissingAsksNothing ==
  ASSUME Inv, Going, NEW n \in Nodes, task[n] = "missing"
  PROVE  starts'[n] = 0 /\ turns'[n] = 0
<1> USE DEF Inv, SupervisionInv, TypeOK
<1>1. starts[n] = 0 /\ turns[n] = 0 /\ n \notin NodesIn(stack, "sending")
  BY DEF MissingIsQuiet
<1>2. ASSUME NEW m \in Nodes, Starts(m)
      PROVE  starts'[n] = 0 /\ turns'[n] = 0
  BY <1>1, <1>2
  DEF Starts, StartRefused, StartWithoutWorktree, StartSettled, StartUnusable, StartOverLimit,
      StartThread, Launching, BeginThread, taskVars, turnVars
<1>3. CASE BeginTurn
  <2>1. stack # <<>> /\ Top.name = "sending"
    BY <1>3 DEF BeginTurn, Running, Top
  <2>2. Args \subseteq NodesIn(stack, "sending")
    BY <2>1, BelowParts DEF OfName, Top, Args
  <2> QED
    BY <1>1, <1>3, <2>2 DEF BeginTurn
<1>4. ASSUME NEW m \in Nodes, Cancels(m) \/ RecoverNode(m)
      PROVE  starts'[n] = 0 /\ turns'[n] = 0
  BY <1>1, <1>4
  DEF Cancels, CancelWorker, CancelUnbound, RecoverNode, taskVars, turnVars
<1>5. CASE Sync \/ Schedule \/ FinishSchedule \/ Requeue \/ FinishCancel \/ FinishRecovery
  BY <1>1, <1>5
  DEF Sync, Schedule, FinishSchedule, Requeue, FinishCancel, FinishRecovery, taskVars, turnVars
<1>6. CASE HandlerStep
  BY <1>2, <1>3, <1>4, <1>5, <1>6 DEF HandlerStep, Starts, Cancels
<1>7. CASE RunCommand
  BY <1>1, <1>7
  DEF RunCommand, StartRun, StartRunWithoutBase, PauseRun, ResumeRun, CancelRun, CancelNode,
      taskVars, turnVars
<1>8. ASSUME NEW m \in Nodes, ServerEvent(m)
      PROVE  starts'[n] = 0 /\ turns'[n] = 0
  BY <1>1, <1>8
  DEF ServerEvent, ThreadStarted, ThreadRefused, Resumed, ResumeFails,
        ResumeRefused, ViewRefused, TurnProceeds, ApprovalAsked, TurnCompleted,
      TurnRefused, TurnError, turnVars
<1>9. ASSUME NEW m \in Nodes, TaskCommand(m)
      PROVE  starts'[n] = 0 /\ turns'[n] = 0
  BY <1>1, <1>9
  DEF TaskCommand, CancelBound, UserStart, UserStartOverLimit, UserStartUnusable, OpenUnusable, UserSends,
      Cleanup, CleanupDirty, BeginThread, turnVars
<1> QED
  BY <1>6, <1>7, <1>8, <1>9 DEF Going, Bound

LEMMA KeepsMissingIsQuiet ==
  ASSUME Inv, Next
  PROVE  MissingIsQuiet'
<1> USE DEF Inv, SupervisionInv
<1>1. ASSUME Going, NEW n \in Nodes, task'[n] = "missing"
      PROVE  starts'[n] = 0 /\ turns'[n] = 0 /\ n \notin NodesIn(stack', "sending")
  <2>1. task[n] = "missing"
    BY <1>1, MissingSame
  <2>2. n \notin NodesIn(stack, "sending")
    BY <2>1 DEF MissingIsQuiet
  <2> QED
    BY <1>1, <2>1, <2>2, MissingAsksNothing, SendStep DEF SendChange
<1>2. CASE Restart
  BY <1>2, RestartStack DEF MissingIsQuiet, Restart
<1> QED
  BY <1>1, <1>2, Steps DEF MissingIsQuiet

-----------------------------------------------------------------------------
(* Parallelism.                                                            *)

\* The chosen nodes fit in beside the active ones, and are the first startable.
LEMMA ChosenFit ==
  ASSUME NEW st, NEW paused, Cardinality(Active(st)) <= MaxParallelism
  PROVE  /\ Cardinality(Active(st) \cup Chosen(st, paused)) <= MaxParallelism
         /\ \A n \in Chosen(st, paused), m \in Startable(st) : m < n => m \in Chosen(st, paused)
<1> DEFINE S == Startable(st)
           A == Active(st)
           C == Chosen(st, paused)
           before(n) == {m \in S : m < n}
           c(n) == Cardinality(before(n))
           a == Cardinality(A)
<1>1. /\ S \subseteq Nodes /\ A \subseteq Nodes /\ C \subseteq S
      /\ IsFiniteSet(S) /\ IsFiniteSet(A) /\ IsFiniteSet(C)
      /\ \A n : IsFiniteSet(before(n)) /\ c(n) \in Nat
      /\ a \in Nat
  <2>1. S \subseteq Nodes /\ A \subseteq Nodes /\ C \subseteq S
    BY DEF Startable, Waiting, Active, Chosen
  <2>2. \A X \in SUBSET Nodes : IsFiniteSet(X) /\ Cardinality(X) \in Nat
    BY PlanAssumption, FS_Subset, FS_CardinalityType
  <2>3. \A n : before(n) \in SUBSET Nodes
    BY <2>1
  <2> HIDE DEF S, A, C, before
  <2> QED
    BY <2>1, <2>2, <2>3
<1>2. \A n \in C : c(n) + a < MaxParallelism
  BY DEF Chosen
<1>3. \A n \in S : n \in Nat
  BY <1>1, PlanAssumption
<1>4. ASSUME NEW n \in S, NEW m \in S, m < n
      PROVE  c(m) < c(n)
  <2>1. before(m) \subseteq before(n) /\ m \in before(n) /\ m \notin before(m)
    BY <1>3, <1>4
  <2> HIDE DEF before, S
  <2>2. c(m) <= c(n) /\ c(m) # c(n)
    BY <1>1, <2>1, FS_Subset
  <2> QED
    BY <1>1, <2>2
<1>5. \A n \in C, m \in S : m < n => m \in C
  <2> SUFFICES ASSUME NEW n \in C, NEW m \in S, m < n PROVE m \in C
    OBVIOUS
  <2>1. c(m) < c(n) /\ c(n) + a < MaxParallelism
    BY <1>1, <1>2, <1>4
  <2>2. c(m) + a < MaxParallelism
    BY <1>1, <2>1, ParallelismAssumption
  <2> QED
    BY <2>2 DEF Chosen
<1>6. Cardinality(A \cup C) <= MaxParallelism
  <2>1. CASE C = {}
    <3>1. A \cup C = A
      BY <2>1
    <3> QED
      BY <3>1
  <2>2. CASE C # {}
    <3>1. PICK n \in C : \A m \in C : ~(S \ before(m) \subseteq S \ before(n) /\ before(m) # before(n))
      <4> DEFINE T == {S \ before(m) : m \in C}
      <4> HIDE DEF S, C, before
      <4>1. T \subseteq FiniteSubsetsOf(S) /\ T # {}
        <5>1. \A m : S \ before(m) \in SUBSET S
          OBVIOUS
        <5>2. \A X \in SUBSET S : IsFiniteSet(X)
          BY <1>1, FS_Subset
        <5> QED
          BY <2>2, <5>1, <5>2 DEF FiniteSubsetsOf
      <4> HIDE DEF T
      <4>2. PICK x \in T : \A y \in T : <<y, x>> \notin StrictSubsetOrdering(S)
        BY <1>1, <4>1, FS_StrictSubsetOrderingWellFounded, WFMin
      <4>3. \A y \in T : ~(y \subseteq x /\ y # x)
        BY <4>1, <4>2 DEF StrictSubsetOrdering, FiniteSubsetsOf
      <4>4. PICK n \in C : x = S \ before(n)
        BY <4>2 DEF T
      <4>5. \A m : before(m) \subseteq S
        BY DEF before
      <4>6. \A m \in C : S \ before(m) \in T
        BY DEF T
      <4>7. ASSUME NEW m \in C, S \ before(m) \subseteq S \ before(n)
            PROVE  before(m) = before(n)
        <5>1. S \ before(m) = S \ before(n)
          BY <4>3, <4>4, <4>6, <4>7
        <5> QED
          BY <4>5, <5>1
      <4> QED
        BY <4>7
    <3>2. C \subseteq before(n) \cup {n}
      <4> SUFFICES ASSUME NEW m \in C, n < m PROVE FALSE
        BY <1>1, <1>3
      <4>1. before(n) \subseteq before(m) /\ n \in before(m) /\ n \notin before(n)
        BY <1>1, <1>3
      <4> HIDE DEF before, S, C
      <4> QED
        BY <3>1, <4>1
    <3> HIDE DEF S, A, C, before
    <3>3. /\ IsFiniteSet(before(n) \cup {n})
          /\ Cardinality(before(n) \cup {n}) <= c(n) + 1
      <4>1. PICK B : B = before(n)
        OBVIOUS
      <4>2. IsFiniteSet(B) /\ Cardinality(B) = c(n) /\ c(n) \in Nat
        BY <1>1, <4>1
      <4>3. IsFiniteSet(B \cup {n}) /\ Cardinality(B \cup {n}) <= Cardinality(B) + 1
        <5>1. PICK k \in Nat : k = Cardinality(B)
          BY <4>2
        <5>2. /\ IsFiniteSet(B \cup {n})
              /\ Cardinality(B \cup {n}) = IF n \in B THEN Cardinality(B) ELSE Cardinality(B) + 1
          BY <4>2, FS_AddElement
        <5> QED
          BY <5>1, <5>2
      <4> QED
        BY <4>1, <4>2, <4>3
    <3>4. Cardinality(C) <= c(n) + 1 /\ Cardinality(C) \in Nat
      BY <1>1, <3>2, <3>3, FS_Subset, FS_CardinalityType
    <3>5. Cardinality(A \cup C) <= a + Cardinality(C) /\ Cardinality(A \cup C) \in Nat
      <4>1. PICK k \in Nat : k = Cardinality(A \cap C)
        BY <1>1, FS_Intersection, FS_CardinalityType
      <4>2. IsFiniteSet(A \cup C) /\ Cardinality(A \cup C) = a + Cardinality(C) - k
        BY <1>1, <4>1, FS_Union
      <4>3. Cardinality(A \cup C) \in Nat
        BY <4>2, FS_CardinalityType
      <4> QED
        BY <1>1, <3>4, <4>1, <4>2, <4>3
    <3>6. c(n) + a < MaxParallelism
      BY <1>2, <3>1
    <3> QED
      BY <1>1, <3>4, <3>5, <3>6, ParallelismAssumption
  <2> QED
    BY <2>1, <2>2
<1> QED
  BY <1>5, <1>6

LEMMA Bounded ==
  ASSUME NEW X \in SUBSET Nodes, Cardinality(X) <= MaxParallelism, NEW Y \in SUBSET X
  PROVE  Cardinality(Y) <= MaxParallelism
<1>1. IsFiniteSet(X) /\ Cardinality(X) \in Nat
  BY PlanAssumption, FS_Subset, FS_CardinalityType
<1>2. Cardinality(Y) <= Cardinality(X) /\ Cardinality(Y) \in Nat
  BY <1>1, FS_Subset, FS_CardinalityType
<1> QED
  BY <1>1, <1>2, ParallelismAssumption

\* Whatever is reserved could be chosen anew.
LEMMA ReservedStartable ==
  ASSUME Inv
  PROVE  Reserved \subseteq Startable(node)
<1>1. \A n \in Reserved : n \in Nodes /\ node[n] \in Unstarted /\ \A d \in Deps[n] : node[d] = "succeeded"
  BY HeldNodes DEF Inv, LaunchInv, HeldReady, Reserved
<1> QED
  BY <1>1 DEF Startable, Doomed, Waiting, DeadEnd

LEMMA ActiveBounded ==
  ASSUME Inv
  PROVE  Cardinality(Active(node)) <= MaxParallelism
<1>1. Active(node) \cup Reserved \in SUBSET Nodes
  BY HeldNodes DEF Inv, Active, Reserved
<1> QED
  BY <1>1, Bounded DEF Inv, SupervisionInv, ReservationsInOrder

\* A nested decision takes the reserved nodes again, or the first of them.
LEMMA ChosenAgain ==
  ASSUME Inv, ~Running("sync"), Reserved # {}
  PROVE  LET C == Chosen(node, run = "paused")
         IN  C \subseteq Reserved \/ Reserved \subseteq C
<1> USE DEF Inv, SupervisionInv
<1>1. PICK C : C = Chosen(node, run = "paused")
  OBVIOUS
<1>2. run # "paused"
  BY DEF LaunchInv, HeldWhileRunning, Reserved
<1>3. C \subseteq Startable(node) /\ Startable(node) \subseteq Nodes
  BY <1>1 DEF Chosen, Startable, Waiting
<1>4. \A n \in C, m \in Startable(node) : m < n => m \in C
  BY <1>1, ActiveBounded, ChosenFit
<1>5. \A m \in Startable(node) : task[m] = "none"
  BY DEF Startable, Waiting, LaunchInv, BoundIsLaunched
<1>6. \A n \in Reserved, m \in Startable(node) : m < n => m \in Reserved
  BY <1>5 DEF ReservationsInOrder
<1>7. \A n \in Startable(node) : n \in Nat
  BY <1>3, PlanAssumption
<1>8. ASSUME NEW x \in C, x \notin Reserved, NEW y \in Reserved
      PROVE  y \in C
  <2>1. x \in Nat /\ y \in Nat /\ x # y /\ x \in Startable(node) /\ y \in Startable(node)
    BY <1>3, <1>7, <1>8, ReservedStartable
  <2>2. ~(x < y)
    BY <1>6, <1>8, <2>1
  <2>3. y < x
    BY <2>1, <2>2
  <2> QED
    BY <1>4, <1>8, <2>1, <2>3
<1> QED
  BY <1>1, <1>8

\* Chosen nodes apart, a step neither launches nor reserves another node.
LEMMA ReservedStep ==
  ASSUME Inv, Going
  PROVE  LET D == IF Schedule THEN Chosen(node, run = "paused") ELSE {}
         IN  /\ Active(node') \cup Reserved' \subseteq Active(node) \cup Reserved \cup D
             /\ Reserved' \subseteq Reserved \cup D
<1> USE DEF Inv, SupervisionInv
<1>1. PICK D : D = IF Schedule THEN Chosen(node, run = "paused") ELSE {}
  OBVIOUS
<1>2. HeldIn(stack') \subseteq HeldIn(stack) \cup D
  BY <1>1, Steps, HeldByHandler, HeldByEvent DEF LaunchInv, Tame
<1>3. D \subseteq Nodes /\ HeldIn(stack) \subseteq Nodes
  BY <1>1, HeldNodes DEF Chosen, Startable, Waiting
<1>4. Reserved' \subseteq Reserved \cup D
  BY <1>2, <1>3, GoingOnward DEF Reserved, Onward
<1>5. Active(node') \subseteq Active(node) \cup Reserved
  BY Steps, FlownFrom, LaunchesHeld DEF Active, Reserved, Launches
<1> QED
  BY <1>1, <1>4, <1>5

LEMMA ReservedHeld ==
  ASSUME Inv, Going
  PROVE  HeldIn(stack') \subseteq Nodes
<1>1. HeldIn(stack') \subseteq HeldIn(stack) \cup Chosen(node, run = "paused")
  BY Steps, HeldByHandler, HeldByEvent DEF LaunchInv, Tame, Inv
<1> QED
  BY <1>1, HeldNodes DEF Chosen, Startable, Waiting, Inv

LEMMA KeepsBound ==
  ASSUME Inv, Going
  PROVE  Cardinality(Active(node') \cup Reserved') <= MaxParallelism
<1> USE DEF Inv, SupervisionInv
<1>1. PICK C : C = Chosen(node, run = "paused")
  OBVIOUS
<1>2. PICK U : U = Active(node) \cup Reserved
  OBVIOUS
<1>3. PICK V : V = Active(node') \cup Reserved'
  OBVIOUS
<1>4. U \in SUBSET Nodes /\ C \in SUBSET Nodes
  BY <1>1, <1>2, HeldNodes DEF Active, Reserved, Chosen, Startable, Waiting
<1>5. Cardinality(U) <= MaxParallelism
  BY <1>2 DEF ReservationsInOrder
<1>6. CASE ~Schedule
  <2>1. V \subseteq U
    BY <1>2, <1>3, <1>6, ReservedStep
  <2> QED
    BY <1>3, <1>4, <1>5, <2>1, Bounded
<1>7. CASE Schedule
  <2>1. V \subseteq U \cup C
    BY <1>1, <1>2, <1>3, <1>7, ReservedStep
  <2>2. C \subseteq Reserved \/ Reserved \subseteq C
    BY <1>1, <1>7, ChosenAgain DEF Schedule, Running
  <2>3. CASE C \subseteq Reserved
    <3>1. V \subseteq U
      BY <1>2, <2>1, <2>3
    <3> QED
      BY <1>3, <1>4, <1>5, <3>1, Bounded
  <2>4. CASE Reserved \subseteq C
    <3>1. V \subseteq Active(node) \cup C
      BY <1>2, <2>1, <2>4
    <3>2. Active(node) \cup C \in SUBSET Nodes
      BY <1>4 DEF Active
    <3>3. Cardinality(Active(node) \cup C) <= MaxParallelism
      BY <1>1, ActiveBounded, ChosenFit
    <3> QED
      BY <1>3, <3>1, <3>2, <3>3, Bounded
  <2> QED
    BY <2>2, <2>3, <2>4
<1> QED
  BY <1>6, <1>7

\* No node becomes startable while a list is held, or but by a sync.
LEMMA StartableBefore ==
  ASSUME Inv, Going, HeldIn(stack) # {} \/ ~Running("sync"), NEW m \in Startable(node')
  PROVE  m \in Startable(node)
<1> USE DEF Inv, SupervisionInv
<1>1. m \in Nodes /\ node'[m] \in Unstarted /\ \A d \in Deps[m] : node'[d] = "succeeded"
  BY DEF Startable, Waiting
<1>2. node[m] \in Unstarted
  BY <1>1, GoingOnward DEF Onward
<1>3. ASSUME NEW d \in Deps[m], node[d] # "succeeded"
      PROVE  FALSE
  <2>1. d \in Nodes /\ node'[d] = "succeeded"
    BY <1>1, <1>3, PlanAssumption
  <2>2. Sync /\ Args = {d} /\ task[d] = "completed"
    BY <1>3, <2>1, SucceedsBySync
  <2> QED
    BY <2>2 DEF Sync, NoNewsWhileHeld
<1> QED
  BY <1>1, <1>2, <1>3 DEF Startable, Waiting, Doomed, DeadEnd

\* A node that was dealt with is launched, or ended, or has its task.
LEMMA StartedIsDone ==
  ASSUME Inv, NEW n \in Nodes, Starts(n), task[n] = "none", task'[n] = "none", stack' # <<>>
  PROVE  node'[n] \notin Unstarted
<1>1. ~Launching(n) \/ node'[n] \notin Unstarted
  BY DEF Launching, Launched, Inv, TypeOK, NodeMap, Unstarted
<1>2. ~StartWithoutWorktree(n) /\ ~StartSettled(n)
  BY DEF StartWithoutWorktree, StartSettled, Inv, TypeOK
<1>3. StartRefused(n) => node'[n] = "failed"
  BY DEF StartRefused, Inv, TypeOK, NodeMap
<1> QED
  BY <1>1, <1>2, <1>3 DEF Starts, StartUnusable, StartOverLimit, StartThread, Unstarted

LEMMA KeepsReservationsInOrder ==
  ASSUME Inv, Next
  PROVE  ReservationsInOrder'
<1> USE DEF Inv, SupervisionInv
<1>1. CASE Going
  <2>1. Cardinality(Active(node') \cup Reserved') <= MaxParallelism
    BY <1>1, KeepsBound
  <2>2. HeldIn(stack') \subseteq Nodes
    BY <1>1, ReservedHeld
  <2>3. Cardinality(Active(saved'.node)) <= MaxParallelism
    <3>1. CASE Persist
      <4>1. Active(node') \cup Reserved' \in SUBSET Nodes /\ saved'.node = node'
        BY <2>2, <3>1, Written DEF Active, Reserved
      <4> QED
        BY <2>1, <4>1, Bounded
    <3>2. CASE UNCHANGED saved
      BY <3>2 DEF ReservationsInOrder
    <3> QED
      BY <1>1, <3>1, <3>2, RunStep DEF RunChange
  <2>4. ASSUME NEW n \in Reserved', NEW m \in Startable(node'), m < n, task'[m] = "none"
        PROVE  m \in Reserved'
    <3>1. HandlerStep /\ n \in HeldIn(stack') /\ stack' # <<>>
      BY <2>4, Steps, <1>1, HeldByEvent, HeldEmpty DEF Reserved
    <3>2. m \in Nodes /\ node'[m] \in Unstarted /\ task[m] = "none" /\ node[m] \in Unstarted
      BY <1>1, <2>4, BoundStays, GoingOnward DEF Startable, Waiting, Onward
    <3>3. CASE Schedule
      <4>1. PICK C : C = Chosen(node, run = "paused")
        OBVIOUS
      <4>2. m \in Startable(node)
        BY <1>1, <2>4, <3>3, StartableBefore DEF Schedule, Running
      <4>3. n \in Reserved \/ n \in C
        BY <1>1, <2>4, <3>3, <4>1, ReservedStep
      <4>4. m \in Reserved \/ m \in C
        BY <2>4, <3>2, <4>1, <4>2, <4>3, ActiveBounded, ChosenFit DEF ReservationsInOrder
      <4>5. m \in HeldIn(stack')
        <5>1. ~Raises /\ ~Starts(m)
          BY <3>1, <3>3, StartsList DEF Raises, Schedule, Running
        <5>2. CASE m \in Reserved
          BY <3>1, <5>1, <5>2, HeldRemains DEF Reserved
        <5>3. CASE m \notin Reserved
          <6>1. n \notin Reserved
            BY <2>4, <3>2, <4>2, <5>3 DEF ReservationsInOrder
          <6>2. node[n] \in Unstarted
            BY <1>1, <2>2, <2>4, <3>1, GoingOnward DEF Reserved, Onward
          <6>3. ~Tame(stack')
            BY <3>1, <6>1, <6>2 DEF Tame, Reserved
          <6>4. run \in {"running", "paused"}
            BY <3>1, <6>3, HeldByHandler DEF LaunchInv
          <6>5. stack' = Append(Below, Call("starting", C))
            BY <3>3, <4>1, <6>4 DEF Schedule
          <6>6. Below \in Seq(Frame) /\ C \in SUBSET Nodes
            BY <3>3, <4>1, TopFrame DEF Schedule, Running, Chosen, Startable, Waiting
          <6>7. C \subseteq NodesIn(stack', "starting")
            BY <6>5, <6>6, PushesOther DEF CallNames
          <6> QED
            BY <4>4, <5>3, <6>7, HeldAreNodesIn
        <5> QED
          BY <5>2, <5>3
      <4> QED
        BY <3>2, <4>5 DEF Reserved
    <3>4. CASE ~Schedule
      <4>1. n \in Reserved /\ HeldIn(stack) # {}
        BY <1>1, <2>4, <3>4, ReservedStep DEF Reserved
      <4>2. m \in Reserved
        BY <1>1, <2>4, <3>2, <4>1, StartableBefore DEF ReservationsInOrder
      <4>3. ~Raises
        BY <3>1 DEF Raises
      <4>4. m \in HeldIn(stack')
        BY <2>4, <3>1, <3>2, <4>2, <4>3, HeldRemains, StartedIsDone DEF Reserved
      <4> QED
        BY <3>2, <4>4 DEF Reserved
    <3> QED
      BY <3>3, <3>4
  <2> QED
    BY <2>1, <2>3, <2>4 DEF ReservationsInOrder
<1>2. CASE Restart
  <2>1. HeldIn(stack') = {}
    BY <1>2, RestartStack, HeldAreNodesIn
  <2>2. saved'.node = node' /\ Active(node') \in SUBSET Active(saved.node)
    BY <1>2, Written DEF Restart, LoadedNode, Active, InFlight
  <2>3. Active(saved.node) \in SUBSET Nodes
    BY DEF Active
  <2>4. Cardinality(Active(node')) <= MaxParallelism
    BY <2>2, <2>3, Bounded DEF ReservationsInOrder
  <2>5. Active(node') \cup Reserved' = Active(node')
    BY <2>1 DEF Reserved
  <2> QED
    BY <2>1, <2>2, <2>4, <2>5 DEF ReservationsInOrder, Reserved
<1> QED
  BY <1>1, <1>2, Steps

-----------------------------------------------------------------------------
(* Verdicts, results, dependencies.                                        *)

\* While the runs are loaded a node leaves the list only to be synced.
LEMMA RecoveringOnward ==
  ASSUME Inv, Going, NEW n \in NodesIn(stack, "recovering")
  PROVE  n \in NodesIn(stack', "recovering") \/ (Running("sync")' /\ Args' = {n})
<1> USE DEF Inv, SupervisionInv
<1>1. Recovering
  <2>1. PICK i \in 1 .. Len(stack) : stack[i].name = "recovering"
    BY DEF NodesIn
  <2>2. i = 1
    BY <2>1 DEF LaunchInv, AtBottom
  <2> QED
    BY <2>1, <2>2 DEF Recovering
<1>2. HandlerStep
  BY <1>1, EventBase DEF Recovering
<1>3. ~Raises
  <2>1. ASSUME Requeue PROVE FALSE
    <3>1. Args = {}
      <4>1. Top.name = "requeue" /\ stack # <<>>
        BY <2>1 DEF Requeue, Running, Top
      <4>2. Args \subseteq NodesIn(stack, "requeue")
        BY <4>1, BelowParts DEF OfName, Top, Args
      <4> QED
        BY <1>1, <4>2 DEF RecoveryIsQuiet
    <3> QED
      BY <2>1, <3>1 DEF Requeue
  <2>2. ASSUME NEW m \in Args, StartRefused(m) PROVE FALSE
    BY <1>1, <2>2, StartsHeld DEF Starts, RecoveryIsQuiet
  <2>3. ASSUME FinishCancel PROVE FALSE
    <3>1. stack # <<>> /\ stack[Len(stack)].name = "cancelling"
      BY <2>3 DEF FinishCancel, Running
    <3>2. Len(stack) \in 1 .. Len(stack) /\ stack[1].name = "recovering"
      BY <1>1, <3>1 DEF Recovering, TypeOK
    <3> QED
      BY <3>1, <3>2 DEF LaunchInv, AtBottom
  <2> QED
    BY <2>1, <2>2, <2>3 DEF Raises
<1>4. n \in NodesIn(stack', "recovering") \/ RecoverNode(n)
  BY <1>2, <1>3, RecoveryRemains
<1>5. ASSUME RecoverNode(n) PROVE Running("sync")' /\ Args' = {n}
  <2>1. stack # <<>> /\ n \in Args /\ ThenSync(n, NextOf(n))
    BY <1>5 DEF RecoverNode, Running, Least
  <2>2. n \in Nodes /\ NextOf(n) \in Seq(Frame)
    BY <2>1, TopFrame, NextFrame
  <2> QED
    BY <2>1, <2>2, SyncPushes
<1> QED
  BY <1>4, <1>5

\* The step of a sync is the sync.
LEMMA OnlySyncRuns ==
  ASSUME Running("sync"), Going
  PROVE  Sync
<1>1. stack # <<>> /\ Top.name = "sync"
  BY DEF Running, Top
<1>2. HandlerStep
  BY <1>1, EventBase
<1>3. \A n : ~Walks(n)
  BY <1>1, WalksList
<1> QED
  BY <1>1, <1>2, <1>3 DEF HandlerStep, Walks, Starts, Cancels, Schedule, FinishSchedule, Requeue,
     BeginTurn, FinishCancel, FinishRecovery, Running, Top

LEMMA KeepsVerdictsOnTheWay ==
  ASSUME Inv, Next
  PROVE  VerdictsOnTheWay'
<1> USE DEF Inv, SupervisionInv
<1>1. SUFFICES ASSUME NEW n \in Nodes, task'[n] \in DOMAIN Verdict, node'[n] \notin NodeEnd
               PROVE  (Running("sync")' /\ n \in Args') \/ n \in NodesIn(stack', "recovering")
  BY DEF VerdictsOnTheWay
<1>2. CASE Going
  <2>1. node[n] \notin NodeEnd
    BY <1>1, <1>2, EndedStays
  <2>2. CASE task'[n] = task[n]
    <3>1. (Running("sync") /\ n \in Args) \/ n \in NodesIn(stack, "recovering")
      BY <1>1, <2>1, <2>2 DEF VerdictsOnTheWay
    <3>2. CASE n \in NodesIn(stack, "recovering")
      BY <1>2, <3>2, RecoveringOnward
    <3>3. CASE Running("sync") /\ n \in Args
      <4>1. Args = {n}
        BY <3>3 DEF SyncIsTop
      <4>2. Sync
        BY <1>2, <3>3, OnlySyncRuns
      <4>3. node'[n] = Followed(n)
        BY <4>1, <4>2, SyncGoes DEF TypeOK, NodeMap
      <4>4. task[n] \in DOMAIN Verdict
        BY <1>1, <2>2
      <4>5. Followed(n) \in NodeEnd
        BY <2>1, <4>4 DEF Followed, SyncedStatus, Verdict, NodeEnd
      <4> QED
        BY <1>1, <4>3, <4>5
    <3> QED
      BY <3>1, <3>2, <3>3
  <2>3. CASE task'[n] # task[n]
    <3>1. TaskChange(n)
      BY <1>2, <2>3, TaskStep
    <3>2. task'[n] # "ready"
      BY <1>1 DEF Verdict
    <3>3. stack # <<>> \/ task[n] \notin DOMAIN Verdict
      BY <2>1, NodesEmpty DEF VerdictsOnTheWay, Running
    <3> QED
      BY <3>1, <3>2, <3>3 DEF TaskChange
  <2> QED
    BY <2>2, <2>3
<1>3. CASE Restart
  <2>1. Syncs(task'[n])
    BY <1>1 DEF Syncs, Verdict
  <2> QED
    BY <1>3, <2>1, RestartStack
<1> QED
  BY <1>2, <1>3, Steps

LEMMA KeepsResultsKept ==
  ASSUME Inv, Next
  PROVE  ResultsKept'
<1> USE DEF Inv, SupervisionInv
<1>1. SUFFICES ASSUME NEW n \in Nodes
               PROVE  /\ node'[n] = "succeeded" => result'[n] # "none"
                      /\ saved'.node[n] = "succeeded" => saved'.result[n] # "none"
  BY DEF ResultsKept
<1>2. CASE Going
  <2>1. node'[n] = "succeeded" => result'[n] # "none"
    <3>1. ASSUME node'[n] = "succeeded" PROVE result'[n] # "none"
      <4>1. CASE node[n] = "succeeded"
        BY <1>2, <4>1, ResultStep DEF ResultsKept
      <4>2. CASE node[n] # "succeeded"
        BY <1>2, <3>1, <4>2, SucceedsBySync
      <4> QED
        BY <4>1, <4>2
    <3> QED
      BY <3>1
  <2> QED
    BY <1>2, <2>1, RunStep, Written DEF RunChange, ResultsKept
<1>3. CASE Restart
  <2>1. result' = saved.result /\ node'[n] = "succeeded" => saved.node[n] = "succeeded"
    BY <1>3 DEF Restart, LoadedNode
  <2> QED
    BY <1>3, <2>1, Written DEF Restart, ResultsKept
<1> QED
  BY <1>2, <1>3, Steps

\* A dependency that has succeeded, or is not loaded, stays so.
LEMMA DependencyStays ==
  ASSUME Inv, Going, NEW d \in Nodes, node[d] = "succeeded" \/ task[d] = "missing"
  PROVE  node'[d] = "succeeded" \/ task'[d] = "missing"
BY GoingOnward, MissingSame DEF Onward, Inv, SupervisionInv

LEMMA RestsOnSuccess ==
  ASSUME Inv, Going, NEW n \in Nodes, NEW d \in Nodes, d \in Deps[n],
         node'[n] \in InFlight \cup {"succeeded"}
  PROVE  node'[d] = "succeeded" \/ task'[d] = "missing"
<1> USE DEF Inv, SupervisionInv
<1>1. CASE node[n] \in InFlight \cup {"succeeded"}
  BY <1>1, DependencyStays DEF LaunchedOnSuccess
<1>2. CASE node[n] \notin InFlight \cup {"succeeded"}
  <2>1. node'[n] \in InFlight
    BY <1>2, SucceedsBySync
  <2>2. n \in HeldIn(stack)
    BY <1>2, <2>1, FlownFrom, LaunchesHeld, Steps
  <2>3. node[d] = "succeeded"
    BY <2>2 DEF LaunchInv, HeldReady
  <2> QED
    BY <2>3, DependencyStays
<1> QED
  BY <1>1, <1>2

\* What a restart finds of the registry and of a task.
LEMMA RestartNode ==
  ASSUME Restart, NEW n \in Nodes
  PROVE  /\ task'[n] = "missing" => n \in saved.bound /\ node'[n] = "failed"
         /\ task'[n] # "missing" => node'[n] = saved.node[n]
         /\ task[n] = "missing" /\ n \in saved.bound => task'[n] = "missing"
         /\ n \notin saved.bound => task'[n] = "none"
         /\ saved'.node = node' /\ saved'.result = result' /\ saved'.run = run'
         /\ saved'.bound = {m \in Nodes : task'[m] # "none"}
         /\ starts'[n] = 0 /\ turns'[n] = 0
<1>1. PICK gone \in SUBSET (IF "lost" \in Mishaps THEN worktrees ELSE {}) :
        task' = [m \in Nodes |-> LoadedTask(m, gone)]
  BY DEF Restart
<1>2. node' = [m \in Nodes |-> LoadedNode(m, task'[m])]
  BY DEF Restart
<1>3. starts' = [m \in Nodes |-> 0] /\ turns' = [m \in Nodes |-> 0] /\ Persist
  BY DEF Restart
<1>4. task'[n] = LoadedTask(n, gone) /\ node'[n] = LoadedNode(n, task'[n])
  BY <1>1, <1>2
<1>5. task'[n] = "missing" => n \in saved.bound
  BY <1>4 DEF LoadedTask
<1>6. task[n] = "missing" /\ n \in saved.bound => task'[n] = "missing"
  BY <1>4 DEF LoadedTask
<1>7. n \notin saved.bound => task'[n] = "none"
  BY <1>4 DEF LoadedTask
<1> QED
  BY <1>3, <1>4, <1>5, <1>6, <1>7, Written DEF LoadedNode, LoadedTask

LEMMA KeepsLaunchedOnSuccess ==
  ASSUME Inv, Next
  PROVE  LaunchedOnSuccess'
<1> USE DEF Inv, SupervisionInv
<1>1. SUFFICES ASSUME NEW n \in Nodes, NEW d \in Nodes, d \in Deps[n]
               PROVE  /\ node'[n] \in InFlight \cup {"succeeded"} =>
                           node'[d] = "succeeded" \/ task'[d] = "missing"
                      /\ saved'.node[n] \in InFlight \cup {"succeeded"} =>
                           \/ saved'.node[d] = "succeeded"
                           \/ task'[d] = "missing" /\ d \in saved'.bound
  BY DEF LaunchedOnSuccess
<1>2. CASE Going
  <2>1. node'[n] \in InFlight \cup {"succeeded"} =>
          node'[d] = "succeeded" \/ task'[d] = "missing"
    BY <1>1, <1>2, RestsOnSuccess
  <2>2. CASE Persist
    <3>1. task'[d] = "missing" => d \in saved'.bound
      BY <2>2, Written
    <3> QED
      BY <2>1, <2>2, <3>1, Written
  <2>3. CASE UNCHANGED saved
    <3>1. task[d] = "missing" => task'[d] = "missing"
      BY <1>2, MissingSame
    <3> QED
      BY <1>1, <2>1, <2>3, <3>1 DEF LaunchedOnSuccess
  <2> QED
    BY <1>2, <2>2, <2>3, RunStep DEF RunChange
<1>3. CASE Restart
  <2>1. ASSUME node'[n] \in InFlight \cup {"succeeded"}
        PROVE  node'[d] = "succeeded" \/ task'[d] = "missing"
    <3>1. saved.node[n] \in InFlight \cup {"succeeded"}
      BY <1>3, <2>1, RestartNode DEF InFlight
    <3>2. saved.node[d] = "succeeded" \/ (task[d] = "missing" /\ d \in saved.bound)
      BY <1>1, <3>1 DEF LaunchedOnSuccess
    <3> QED
      BY <1>3, <3>2, RestartNode
  <2>2. task'[d] = "missing" => d \in saved'.bound
    BY <1>3, RestartNode
  <2> QED
    BY <1>3, <2>1, <2>2, RestartNode
<1> QED
  BY <1>2, <1>3, Steps

-----------------------------------------------------------------------------
(* The outcome of the run.                                                 *)

\* While nothing was started and nothing is to be started, nothing is.
LEMMA UntouchedStays ==
  ASSUME Inv, Going, Untouched, HeldIn(stack) = {}, run' \notin {"running", "paused"},
         run' = run \/ StartRunWithoutBase
  PROVE  Untouched' /\ HeldIn(stack') = {}
<1> USE DEF Inv, SupervisionInv
<1>1. ASSUME NEW n PROVE ~Starts(n)
  BY <1>1, StartsHeld
<1>2. HeldIn(stack') = {}
  <2>1. CASE HandlerStep
    <3>1. CASE Tame(stack')
      BY <3>1 DEF Tame
    <3>2. CASE Schedule
      BY <3>2, TameBelow DEF Schedule, LaunchInv, Tame, StartRunWithoutBase, Idle, Running
    <3> QED
      BY <2>1, <3>1, <3>2, HeldByHandler DEF LaunchInv
  <2>2. CASE ~HandlerStep
    BY <2>2, HeldByEvent, Steps
  <2> QED
    BY <2>1, <2>2
<1>3. ASSUME NEW n \in Nodes PROVE task'[n] = "none"
  <2>1. SUFFICES ASSUME task'[n] # task[n] PROVE FALSE
    BY <1>3 DEF Untouched
  <2>2. TaskChange(n)
    BY <2>1, TaskStep
  <2>3. task[n] = "none"
    BY DEF Untouched
  <2> QED
    BY <1>1, <2>2, <2>3 DEF TaskChange, Verdict
<1>4. ASSUME NEW n \in Nodes PROVE node'[n] \in Unstarted \cup {"cancelled"}
  <2>1. SUFFICES ASSUME node'[n] # node[n] PROVE FALSE \/ node'[n] = "cancelled"
    BY <1>4 DEF Untouched
  <2>2. NodeChange(n)
    BY <2>1, NodeStep
  <2>3. task[n] = "none" /\ node[n] \in Unstarted \cup {"cancelled"}
    BY DEF Untouched
  <2>4. ~(Sync /\ node'[n] = Followed(n))
    BY <2>1, <2>3 DEF Followed, SyncedStatus, Verdict
  <2>5. ~Schedule
    <3>1. SUFFICES ASSUME Schedule PROVE FALSE
      OBVIOUS
    <3>2. run' = run /\ run \notin {"running", "paused"}
      BY <3>1 DEF Schedule
    <3> QED
      BY <2>1, <3>1, <3>2 DEF Schedule
  <2>6. ~StartRefused(n)
    BY <1>1 DEF Starts
  <2> QED
    BY <1>1, <2>2, <2>4, <2>5, <2>6 DEF NodeChange
<1> QED
  BY <1>2, <1>3, <1>4 DEF Untouched

\* The verdict on the nodes at the time a run is settled.
LEMMA OutcomeSays ==
  ASSUME NEW st \in NodeMap, \A n \in Nodes : st[n] \in NodeEnd
  PROVE  /\ Outcome(st) = "completed" => \A n \in Nodes : st[n] = "succeeded"
         /\ Outcome(st) = "partial" => \E n \in Nodes : st[n] \in {"failed", "blocked"}
         /\ Outcome(st) = "failed" => \A n \in Nodes : st[n] \in DeadEnd
         /\ Outcome(st) # "approved"
BY DEF Outcome, DeadEnd

LEMMA StepKeepsType ==
  ASSUME TypeOK, Next
  PROVE  TypeOK'
BY HandlerKeepsType, RunCommandKeepsType, TaskEventKeepsType, RestartKeepsType
DEF Next, Bound

LEMMA OutcomeStep ==
  ASSUME Inv, Going
  PROVE  OutcomeKept'
<1> USE DEF Inv, SupervisionInv
<1>1. RunChange /\ node' \in NodeMap
  BY RunStep, Steps, StepKeepsType DEF TypeOK
<1>2. CASE run' = run
  <2>1. run = "approved" => Untouched' /\ HeldIn(stack') = {}
    BY <1>2, UntouchedStays DEF OutcomeKept
  <2>2. run = "completed" => \A n \in Nodes : node'[n] = "succeeded" \/ task'[n] = "missing"
    BY DependencyStays DEF OutcomeKept
  <2>3. run = "partial" => /\ \A n \in Nodes : node'[n] \in NodeEnd
                           /\ \E n \in Nodes : node'[n] \in {"failed", "blocked"}
    BY EndedStays DEF OutcomeKept, NodeEnd
  <2>4. run = "failed" => \/ Untouched' /\ HeldIn(stack') = {}
                          \/ \A n \in Nodes : node'[n] \in DeadEnd
    BY <1>2, UntouchedStays, EndedStays DEF OutcomeKept, DeadEnd
  <2> QED
    BY <1>2, <2>1, <2>2, <2>3, <2>4 DEF OutcomeKept
<1>3. CASE run' # run /\ StartRunWithoutBase
  <2>1. run = "approved" /\ run' = "failed"
    BY <1>3 DEF StartRunWithoutBase
  <2>2. Untouched /\ HeldIn(stack) = {}
    BY <2>1 DEF OutcomeKept
  <2>3. Untouched' /\ HeldIn(stack') = {}
    BY <1>3, <2>1, <2>2, UntouchedStays
  <2> QED
    BY <2>1, <2>3 DEF OutcomeKept
<1>4. CASE run' # run /\ ~StartRunWithoutBase
  <2>1. run' # "approved"
    BY <1>1, <1>4 DEF RunChange
  <2>2. CASE run' \notin {"completed", "partial", "failed"}
    BY <2>1, <2>2 DEF OutcomeKept
  <2>3. CASE run' \in {"completed", "partial", "failed"}
    <3>1. run' = Outcome(node') /\ \A n \in Nodes : node'[n] \in NodeEnd
      BY <1>1, <1>4, <2>3 DEF RunChange
    <3> QED
      BY <1>1, <3>1, OutcomeSays DEF OutcomeKept
  <2> QED
    BY <2>2, <2>3
<1> QED
  BY <1>2, <1>3, <1>4

LEMMA KeepsOutcomeKept ==
  ASSUME Inv, Next
  PROVE  OutcomeKept'
<1> USE DEF Inv, SupervisionInv
<1>1. CASE Going
  BY <1>1, OutcomeStep
<1>2. CASE Restart
  <2>1. HeldIn(stack') = {}
    BY <1>2, RestartStack, HeldAreNodesIn
  <2>2. run' = saved.run \/ run' = "recovery"
    BY <1>2 DEF Restart, LoadedRun
  <2>3. SavedUntouched => Untouched'
    BY <1>2, RestartNode DEF SavedUntouched, Untouched
  <2>4. saved.run = "completed" => \A n \in Nodes : node'[n] = "succeeded" \/ task'[n] = "missing"
    BY <1>2, RestartNode DEF SavedOutcomeKept
  <2>5. saved.run = "partial" => /\ \A n \in Nodes : node'[n] \in NodeEnd
                                 /\ \E n \in Nodes : node'[n] \in {"failed", "blocked"}
    BY <1>2, RestartNode DEF SavedOutcomeKept, NodeEnd
  <2>6. saved.run = "failed" => SavedUntouched \/ \A n \in Nodes : node'[n] \in DeadEnd
    BY <1>2, RestartNode DEF SavedOutcomeKept, DeadEnd, NodeEnd
  <2> QED
    BY <2>1, <2>2, <2>3, <2>4, <2>5, <2>6 DEF OutcomeKept, SavedOutcomeKept
<1> QED
  BY <1>1, <1>2, Steps

LEMMA KeepsSavedOutcomeKept ==
  ASSUME Inv, Next
  PROVE  SavedOutcomeKept'
<1> USE DEF Inv, SupervisionInv
<1>1. OutcomeKept'
  BY KeepsOutcomeKept
<1>2. CASE Persist
  <2>1. Untouched' => SavedUntouched'
    BY <1>2, Written DEF Untouched, SavedUntouched
  <2>2. \A n \in Nodes : task'[n] = "missing" => n \in saved'.bound
    BY <1>2, Written
  <2>3. saved'.run = run' /\ saved'.node = node'
    BY <1>2, Written
  <2> QED
    BY <1>1, <2>1, <2>2, <2>3 DEF OutcomeKept, SavedOutcomeKept
<1>3. CASE Going /\ UNCHANGED saved
  <2>1. \A n \in Nodes : task[n] = "missing" => task'[n] = "missing"
    BY <1>3, MissingSame
  <2>2. SavedUntouched => SavedUntouched'
    BY <1>3 DEF SavedUntouched
  <2> QED
    BY <1>3, <2>1, <2>2 DEF SavedOutcomeKept
<1> QED
  BY <1>2, <1>3, Steps, RunStep DEF RunChange, Restart

-----------------------------------------------------------------------------
(* The registry and the memory.                                            *)

LEMMA KeepsRegistryAgrees ==
  ASSUME Inv, Next
  PROVE  RegistryAgrees'
<1> USE DEF Inv, SupervisionInv
<1>1. CASE Persist
  BY <1>1, Written DEF RegistryAgrees
<1>2. CASE Going /\ UNCHANGED <<run, saved>>
  BY <1>2, EndedStays DEF RegistryAgrees
<1> QED
  BY <1>1, <1>2, Steps, RunStep DEF RunChange, Restart

\* Whatever writes the registry of an unstarted node finds it without a task.
LEMMA PersistedUnbound ==
  ASSUME Inv, Next, Persist, NEW n \in Nodes, node'[n] \in Unstarted
  PROVE  task'[n] = "none"
BY Written, KeepsRegistryBehind DEF RegistryBehind, Inv

LEMMA SyncPersists ==
  ASSUME Inv, Going, ~Persist
  PROVE  ~Sync /\ ~Running("sync") /\ UNCHANGED <<run, saved>>
BY SyncGoes, OnlySyncRuns, RunStep DEF Inv, SupervisionInv, RunChange

\* A turn is added only by the call that was to send it.
LEMMA TurnAdded ==
  ASSUME TypeOK, SyncIsTop, Going, NEW n \in Nodes, turns[n] = 0, turns'[n] # 0
  PROVE  n \in NodesIn(stack, "sending") /\ ~Running("sync")
<1>1. CASE BeginTurn
  <2>1. stack # <<>> /\ Top.name = "sending"
    BY <1>1 DEF BeginTurn, Running, Top
  <2>2. n \in Args
    BY <1>1 DEF BeginTurn, TypeOK
  <2>3. ~Running("sync")
    BY <2>1 DEF Running, Top
  <2> QED
    BY <2>1, <2>2, <2>3, BelowParts DEF OfName, Top, Args
<1>2. CASE HandlerStep /\ ~BeginTurn
  <2>1. UNCHANGED turns
    BY <1>2 DEF HandlerStep, Sync, Schedule, FinishSchedule, Requeue, FinishCancel, FinishRecovery,
       StartRefused, StartWithoutWorktree, StartSettled, StartUnusable, StartOverLimit, StartThread,
       BeginThread, CancelWorker, CancelUnbound, RecoverNode, taskVars, turnVars
  <2> QED
    BY <2>1
<1>3. CASE RunCommand
  <2>1. UNCHANGED turns
    BY <1>3 DEF RunCommand, StartRun, StartRunWithoutBase, PauseRun, ResumeRun, CancelRun,
       CancelNode, taskVars, turnVars
  <2> QED
    BY <2>1
<1>4. ASSUME NEW m \in Bound, ServerEvent(m) \/ TaskCommand(m)
      PROVE  FALSE
  <2>1. \/ UNCHANGED turns
        \/ turns[m] > 0 /\ turns' = [turns EXCEPT ![m] = @ - 1]
    BY <1>4 DEF ServerEvent, TaskCommand, ThreadStarted, ThreadRefused, Resumed, ResumeFails,
        ResumeRefused, ViewRefused, TurnProceeds, ApprovalAsked,
       TurnCompleted, TurnRefused, TurnError, CancelBound, UserStart, BeginThread,
       UserStartOverLimit, UserStartUnusable, OpenUnusable, UserSends, Cleanup, CleanupDirty,
       turnVars
  <2>2. m # n \/ UNCHANGED turns
    BY <2>1
  <2> QED
    BY <2>1, <2>2 DEF TypeOK
<1> QED
  BY <1>1, <1>2, <1>3, <1>4 DEF Going

LEMMA NotFarAheadRestart ==
  ASSUME Inv, Restart
  PROVE  NotFarAhead'
<1> USE DEF Inv, SupervisionInv
<1>1. SUFFICES ASSUME NEW n \in Nodes, saved'.node[n] \in Unstarted
               PROVE  /\ turns'[n] = 0 /\ task'[n] = "none"
                      /\ n \notin NodesIn(stack', "sending")
                      /\ node'[n] # "succeeded" /\ node'[n] \notin InFlight
  BY DEF NotFarAhead
<1>2. node'[n] \in Unstarted
  BY <1>1, RestartNode
<1>3. node'[n] = saved.node[n]
  BY <1>2, RestartNode DEF Unstarted
<1>4. n \notin saved.bound
  BY <1>2, <1>3 DEF LaunchInv, RegistryBehind
<1> QED
  BY <1>2, <1>4, RestartNode, RestartStack DEF Unstarted, InFlight

LEMMA NotFarAheadStep ==
  ASSUME Inv, Going
  PROVE  NotFarAhead'
<1> USE DEF Inv, SupervisionInv
<1>1. SUFFICES ASSUME NEW n \in Nodes, saved'.node[n] \in Unstarted
               PROVE  /\ turns'[n] = 0
                      /\ \/ task'[n] \in {"none", "ready"}
                         \/ Running("sync")' /\ task'[n] # "completed"
                      /\ n \in NodesIn(stack', "sending") => Running("sync")'
                      /\ node'[n] # "succeeded"
                      /\ node'[n] \in InFlight =>
                           run' = "running" /\ \A d \in Deps[n] : node'[d] = "succeeded"
  BY DEF NotFarAhead
<1>2. saved.node[n] \in Unstarted
  <2>1. CASE Persist
    <3>1. node'[n] \in Unstarted
      BY <1>1, <2>1, Written
    <3>2. node[n] \in Unstarted
      BY <3>1, GoingOnward DEF Onward
    <3> QED
      BY <3>2 DEF LaunchInv, RegistryBehind
  <2>2. CASE ~Persist
    BY <1>1, <2>2, SyncPersists
  <2> QED
    BY <2>1, <2>2
<1>3. turns'[n] = 0
  BY <1>2, TurnAdded DEF NotFarAhead
<1>4. CASE Persist
  <2>1. node'[n] \in Unstarted
    BY <1>1, <1>4, Written
  <2>2. task'[n] = "none"
    BY <1>4, <2>1, PersistedUnbound, Steps
  <2>3. n \notin NodesIn(stack', "sending")
    BY <2>1, KeepsSendsLaunched, Steps DEF SendsLaunched
  <2> QED
    BY <1>3, <2>1, <2>2, <2>3 DEF Unstarted, InFlight
<1>5. CASE ~Persist
  <2>1. ~Sync /\ ~Running("sync") /\ run' = run
    BY <1>5, SyncPersists
  <2>2. task[n] \in {"none", "ready"} /\ n \notin NodesIn(stack, "sending") /\ turns[n] = 0
    BY <1>2, <2>1 DEF NotFarAhead
  <2>3. task'[n] \in {"none", "ready"} \/ (Running("sync")' /\ task'[n] # "completed")
    <3>1. CASE task'[n] = task[n]
      BY <2>2, <3>1
    <3>2. CASE task'[n] # task[n]
      BY <2>2, <3>2, TaskStep DEF TaskChange, Verdict
    <3> QED
      BY <3>1, <3>2
  <2>4. ASSUME n \in NodesIn(stack', "sending")
        PROVE  Running("sync")'
    <3>1. SendChange(n)
      BY <2>2, <2>4, SendStep
    <3>2. task[n] = "none" => ~(StartThread(n) /\ task'[n] = task[n])
      BY DEF StartThread, BeginThread, TypeOK
    <3> QED
      BY <2>2, <3>1, <3>2 DEF SendChange, Bound
  <2>5. node'[n] # "succeeded"
    BY <1>2, <2>1, SucceedsBySync DEF NotFarAhead
  <2>6. ASSUME node'[n] \in InFlight
        PROVE  run' = "running" /\ \A d \in Deps[n] : node'[d] = "succeeded"
    <3>1. run = "running" /\ \A d \in Deps[n] : node[d] = "succeeded"
      <4>1. CASE Launches(n)
        <5>1. n \in HeldIn(stack) /\ node[n] \in Unstarted
          BY <4>1, LaunchesHeld, Steps DEF Launches
        <5> QED
          BY <5>1 DEF LaunchInv, HeldReady, HeldWhileRunning
      <4>2. CASE node[n] \in InFlight
        BY <1>2, <4>2 DEF NotFarAhead
      <4> QED
        BY <2>6, <4>1, <4>2, FlownFrom
    <3> QED
      BY <2>1, <3>1, GoingOnward, PlanAssumption DEF Onward
  <2> QED
    BY <1>3, <2>3, <2>4, <2>5, <2>6
<1> QED
  BY <1>4, <1>5

-----------------------------------------------------------------------------
(* The invariant, and what follows from it.                                *)

LEMMA InitSupervision ==
  ASSUME Init
  PROVE  SupervisionInv
<1>1. stack = <<>> /\ HeldIn(stack) = {} /\ \A name : NodesIn(stack, name) = {}
  BY HeldEmpty, NodesEmpty DEF Init
<1>2. /\ saved.run = run /\ saved.node = node /\ saved.result = result
      /\ saved.bound = {n \in Nodes : task[n] # "none"}
  BY DEF Init, Snapshot, Bound
<1>3. run = "approved" /\ \A n \in Nodes : node[n] = "pending" /\ task[n] = "none" /\ turns[n] = 0
  BY DEF Init
<1>4. SyncIsTop /\ RecoveryIsQuiet /\ NoNewsWhileHeld /\ SendsLaunched /\ MissingIsQuiet
  BY <1>1, <1>3 DEF SyncIsTop, RecoveryIsQuiet, Recovering, NoNewsWhileHeld, SendsLaunched,
     MissingIsQuiet, Running
<1>5. ReservationsInOrder
  <2>1. Active(node) = {} /\ Reserved = {} /\ Active(saved.node) = {}
    BY <1>1, <1>2, <1>3 DEF Active, InFlight, Reserved
  <2>2. Cardinality({}) = 0 /\ {} \cup {} = {}
    BY FS_EmptySet
  <2> QED
    BY <2>1, <2>2, ParallelismAssumption DEF ReservationsInOrder
<1>6. VerdictsOnTheWay /\ ResultsKept /\ LaunchedOnSuccess
  BY <1>2, <1>3 DEF VerdictsOnTheWay, ResultsKept, LaunchedOnSuccess, Verdict, InFlight
<1>7. Untouched /\ SavedUntouched
  BY <1>2, <1>3 DEF Untouched, SavedUntouched, Unstarted
<1>8. OutcomeKept /\ SavedOutcomeKept
  BY <1>1, <1>2, <1>3, <1>7 DEF OutcomeKept, SavedOutcomeKept
<1>9. RegistryAgrees /\ NotFarAhead
  BY <1>1, <1>2, <1>3 DEF RegistryAgrees, NotFarAhead, InFlight
<1> QED
  BY <1>4, <1>5, <1>6, <1>8, <1>9 DEF SupervisionInv

LEMMA KeepsSupervision ==
  ASSUME Inv, Next
  PROVE  SupervisionInv'
<1>1. SyncIsTop' /\ RecoveryIsQuiet' /\ NoNewsWhileHeld' /\ SendsLaunched' /\ MissingIsQuiet'
  BY KeepsSyncIsTop, KeepsRecoveryIsQuiet, KeepsNoNewsWhileHeld, KeepsSendsLaunched,
     KeepsMissingIsQuiet DEF Inv, SupervisionInv
<1>2. ReservationsInOrder' /\ VerdictsOnTheWay' /\ ResultsKept' /\ LaunchedOnSuccess'
  BY KeepsReservationsInOrder, KeepsVerdictsOnTheWay, KeepsResultsKept, KeepsLaunchedOnSuccess
<1>3. OutcomeKept' /\ SavedOutcomeKept' /\ RegistryAgrees' /\ NotFarAhead'
  BY KeepsOutcomeKept, KeepsSavedOutcomeKept, KeepsRegistryAgrees, NotFarAheadStep,
     NotFarAheadRestart, Steps
<1> QED
  BY <1>1, <1>2, <1>3 DEF SupervisionInv

LEMMA StutterKeepsSupervision ==
  ASSUME SupervisionInv, UNCHANGED vars
  PROVE  SupervisionInv'
<1> USE DEF vars, runVars, taskVars, turnVars, bounds
<1>1. SyncIsTop' /\ RecoveryIsQuiet' /\ NoNewsWhileHeld' /\ SendsLaunched' /\ MissingIsQuiet'
  BY DEF SupervisionInv, SyncIsTop, RecoveryIsQuiet, Recovering, NoNewsWhileHeld, SendsLaunched,
     MissingIsQuiet, Running, Args
<1>2. ReservationsInOrder' /\ VerdictsOnTheWay' /\ ResultsKept' /\ LaunchedOnSuccess'
  BY DEF SupervisionInv, ReservationsInOrder, Reserved, VerdictsOnTheWay, ResultsKept,
     LaunchedOnSuccess, Running, Args
<1>3. OutcomeKept' /\ SavedOutcomeKept' /\ RegistryAgrees' /\ NotFarAhead'
  BY DEF SupervisionInv, OutcomeKept, Untouched, SavedOutcomeKept, SavedUntouched, RegistryAgrees,
     NotFarAhead, Running
<1> QED
  BY <1>1, <1>2, <1>3 DEF SupervisionInv

\* At any step of any chain of handlers, and at any point where the desktop may
\* die, the calls in progress, the nodes, their tasks and the registry fit
\* together as Supervision says (controller.py, the handlers of a run).
THEOREM SupervisionInvariant == Spec => []SupervisionInv
<1>1. TypeOK /\ LaunchInv /\ SupervisionInv /\ [Next]_vars => SupervisionInv'
  BY KeepsSupervision, StutterKeepsSupervision DEF Inv
<1>2. Init => SupervisionInv
  BY InitSupervision
<1> QED
  BY <1>1, <1>2, TypeCorrect, LaunchInvariant, PTL DEF Spec

\* Every node in flight or succeeded rests on results of its dependencies, or
\* on a dependency whose archived task a restart did not load: prompts are
\* never composed from a result that is not there (_compose_worker_prompt).
THEOREM DependenciesAreMet == Spec => []DependenciesMet
<1>1. SupervisionInv => DependenciesMet
  BY PlanAssumption DEF SupervisionInv, DependenciesMet, LaunchedOnSuccess, ResultsKept
<1> QED
  BY <1>1, SupervisionInvariant, PTL

\* Nested scheduling decisions never exceed max_parallelism together.
THEOREM ParallelismBounded == Spec => []ParallelismBound
<1>1. TypeOK /\ LaunchInv /\ SupervisionInv => ParallelismBound
  BY ActiveBounded DEF Inv, ParallelismBound
<1> QED
  BY <1>1, SupervisionInvariant, TypeCorrect, LaunchInvariant, PTL

\* The status a run ended with agrees with its nodes, for good: no late answer,
\* no message of the user and no restart makes it untrue.
THEOREM OutcomeIsTrue == Spec => []OutcomeMatchesNodes
<1>1. SupervisionInv => OutcomeMatchesNodes
  BY DEF SupervisionInv, OutcomeMatchesNodes, OutcomeKept, Untouched
<1> QED
  BY <1>1, SupervisionInvariant, PTL

\* Between events no verdict of a task is lost, wherever the desktop died
\* between the row of a task and the row of its node.
THEOREM VerdictsArrive == Spec => []NoLostVerdict
<1>1. SupervisionInv => NoLostVerdict
  BY NodesEmpty DEF SupervisionInv, NoLostVerdict, VerdictsOnTheWay, Idle, Running, Reported, Verdict
<1> QED
  BY <1>1, SupervisionInvariant, PTL

\* A run that is being loaded launches nothing: after a restart the user's
\* review comes first.
THEOREM ReviewFirst == Spec => ReviewAfterRestart
<1>1. TypeOK /\ LaunchInv /\ SupervisionInv /\ [Next]_vars =>
        ((\E n \in Nodes : Launches(n)) => stack[1].name # "recovering")
  <2> SUFFICES ASSUME TypeOK, LaunchInv, SupervisionInv, [Next]_vars, NEW n \in Nodes, Launches(n)
               PROVE  stack[1].name # "recovering"
    OBVIOUS
  <2>1. Next
    BY DEF vars, runVars, Launches, Unstarted, InFlight
  <2>2. n \in HeldIn(stack)
    BY <2>1, LaunchesHeld
  <2> QED
    BY <2>2, HeldEmpty DEF SupervisionInv, RecoveryIsQuiet, Recovering
<1> QED
  BY <1>1, SupervisionInvariant, TypeCorrect, LaunchInvariant, PTL DEF Spec, ReviewAfterRestart

LEMMA VerdictsStay ==
  ASSUME Inv, Next
  PROVE  /\ saved.run \in RunEnd => saved'.run = saved.run
         /\ \A n \in Nodes : saved.node[n] \in NodeEnd =>
              saved'.node[n] = saved.node[n] \/ task'[n] = "missing"
<1> USE DEF Inv, SupervisionInv
<1>1. CASE Going
  <2>1. RunChange /\ RegistryAgrees'
    BY <1>1, RunStep, KeepsRegistryAgrees
  <2>2. saved.run \in RunEnd => saved'.run = saved.run
    BY <2>1 DEF RunChange, RegistryAgrees
  <2>3. ASSUME NEW n \in Nodes, saved.node[n] \in NodeEnd
        PROVE  saved'.node[n] = saved.node[n]
    <3>1. node'[n] = saved.node[n]
      BY <1>1, <2>3, EndedStays DEF RegistryAgrees
    <3> QED
      BY <2>1, <3>1, Written DEF RunChange
  <2> QED
    BY <2>2, <2>3
<1>2. CASE Restart
  <2>1. saved.run \in RunEnd => run' = saved.run
    BY <1>2 DEF Restart, LoadedRun, RunEnd
  <2> QED
    BY <1>2, <2>1, RestartNode, PlanAssumption
<1> QED
  BY <1>1, <1>2, Steps

\* A verdict on a node or on the run, once in the registry, stays there over
\* late answers and restarts, but for nodes whose archived task is not loaded.
THEOREM VerdictsAreDurable == Spec => DurableVerdicts
<1>1. TypeOK /\ LaunchInv /\ SupervisionInv /\ [Next]_vars =>
        [/\ saved.run \in RunEnd => saved'.run = saved.run
         /\ \A n \in Nodes : saved.node[n] \in NodeEnd =>
              saved'.node[n] = saved.node[n] \/ task'[n] = "missing"]_vars
  BY VerdictsStay DEF Inv
<1> QED
  BY <1>1, SupervisionInvariant, TypeCorrect, LaunchInvariant, PTL DEF Spec, DurableVerdicts

-----------------------------------------------------------------------------
(* The registry implements PlanLedger.                                     *)

LEMMA PhaseIs ==
  ASSUME NEW st \in NodeStatus
  PROVE  /\ PhaseOf(st) \in Ledger!Phase
         /\ PhaseOf(st) = "waiting" <=> st \in Unstarted
         /\ PhaseOf(st) = "active" <=> st \in InFlight
         /\ PhaseOf(st) = "done" <=> st = "succeeded"
         /\ PhaseOf(st) = "dead" <=> st \in DeadEnd
<1>1. st \in Unstarted \/ st \in InFlight \/ st = "succeeded" \/ st \in DeadEnd
  BY DEF NodeStatus, Unstarted, InFlight, DeadEnd, NodeEnd
<1>2. CASE st \in Unstarted
  BY <1>2 DEF PhaseOf, Unstarted, InFlight, DeadEnd, NodeEnd, Ledger!Phase
<1>3. CASE st \in InFlight
  BY <1>3 DEF PhaseOf, Unstarted, InFlight, DeadEnd, NodeEnd, Ledger!Phase
<1>4. CASE st = "succeeded"
  BY <1>4 DEF PhaseOf, Unstarted, InFlight, DeadEnd, NodeEnd, Ledger!Phase
<1>5. CASE st \in DeadEnd
  BY <1>5 DEF PhaseOf, Unstarted, InFlight, DeadEnd, NodeEnd, Ledger!Phase
<1> QED
  BY <1>1, <1>2, <1>3, <1>4, <1>5

\* What a handler writes of a node is a step forward.
LEMMA GoesForward ==
  ASSUME Inv, Going, Persist, NEW n \in Nodes
  PROVE  PhaseOf(saved'.node[n]) \in Ledger!Forward[PhaseOf(saved.node[n])]
<1> USE DEF Inv, SupervisionInv
<1>1. saved'.node[n] = node'[n] /\ saved.node[n] \in NodeStatus /\ node'[n] \in NodeStatus
  BY Written, Steps, StepKeepsType DEF TypeOK, NodeMap
<1>2. CASE saved.node[n] \in NodeEnd
  <2>1. node'[n] = saved.node[n]
    BY <1>2, EndedStays DEF RegistryAgrees
  <2>2. PhaseOf(saved.node[n]) \in {"done", "dead"}
    BY <1>1, <1>2, PhaseIs DEF DeadEnd
  <2> QED
    BY <1>1, <2>1, <2>2 DEF Ledger!Forward
<1>3. CASE saved.node[n] \in InFlight
  <2>1. node'[n] \notin Unstarted
    BY <1>3, GoingOnward DEF LaunchInv, RegistryBehind, Onward, Unstarted, InFlight
  <2>2. PhaseOf(saved.node[n]) = "active" /\ PhaseOf(node'[n]) \in {"active", "done", "dead"}
    BY <1>1, <1>3, <2>1, PhaseIs DEF Ledger!Phase
  <2> QED
    BY <1>1, <2>2 DEF Ledger!Forward
<1>4. CASE saved.node[n] \in Unstarted
  <2>1. node'[n] # "succeeded"
    BY <1>4, SucceedsBySync DEF NotFarAhead, Sync
  <2>2. PhaseOf(saved.node[n]) = "waiting" /\ PhaseOf(node'[n]) \in {"waiting", "active", "dead"}
    BY <1>1, <1>4, <2>1, PhaseIs DEF Ledger!Phase
  <2> QED
    BY <1>1, <2>2 DEF Ledger!Forward
<1> QED
  BY <1>1, <1>2, <1>3, <1>4 DEF NodeStatus, NodeEnd, InFlight, Unstarted

\* A launch that is written is one the abstract record allows.
LEMMA WrittenLaunch ==
  ASSUME Inv, Going, Persist, NEW n \in Nodes,
         saved.node[n] \in Unstarted, node'[n] \in InFlight
  PROVE  saved.run \notin RunEnd /\ \A d \in Deps[n] : node'[d] = "succeeded"
<1> USE DEF Inv, SupervisionInv
<1>1. run = "running" /\ \A d \in Deps[n] : node[d] = "succeeded"
  <2>1. CASE Launches(n)
    <3>1. n \in HeldIn(stack) /\ node[n] \in Unstarted
      BY <2>1, LaunchesHeld, Steps DEF Launches
    <3> QED
      BY <3>1 DEF LaunchInv, HeldReady, HeldWhileRunning
  <2>2. CASE node[n] \in InFlight
    BY <2>2 DEF NotFarAhead
  <2> QED
    BY <2>1, <2>2, FlownFrom
<1> QED
  BY <1>1, GoingOnward, PlanAssumption DEF Onward, RegistryAgrees, RunEnd

LEMMA WritesAdvance ==
  ASSUME Inv, Going, Persist
  PROVE  Ledger!Advance
<1> USE DEF Inv, SupervisionInv
<1>1. PICK p : p = [n \in Nodes |-> PhaseOf(saved.node[n])]
  OBVIOUS
<1>2. PICK q : q = [n \in Nodes |-> PhaseOf(saved'.node[n])]
  OBVIOUS
<1>3. \A n \in Nodes : saved.node[n] \in NodeStatus /\ saved'.node[n] \in NodeStatus
  BY Steps, StepKeepsType DEF TypeOK, NodeMap
<1>4. saved'.node = node'
  BY Written
<1>5. q \in [Nodes -> Ledger!Phase]
  BY <1>2, <1>3, PhaseIs
<1>6. \A n \in Nodes : q[n] \in Ledger!Forward[p[n]]
  BY <1>1, <1>2, GoesForward
<1>7. ASSUME NEW n \in Nodes, p[n] = "waiting", q[n] = "active"
      PROVE  saved.run \notin RunEnd /\ \A d \in Deps[n] : q[d] = "done"
  <2>1. saved.node[n] \in Unstarted /\ node'[n] \in InFlight
    BY <1>1, <1>2, <1>3, <1>4, <1>7, PhaseIs
  <2>2. saved.run \notin RunEnd /\ \A d \in Deps[n] : node'[d] = "succeeded"
    BY <2>1, WrittenLaunch
  <2> QED
    BY <1>2, <1>3, <1>4, <2>2, PhaseIs, PlanAssumption
<1>8. Cardinality({n \in Nodes : q[n] = "active"}) <= MaxParallelism
  <2>1. {n \in Nodes : q[n] = "active"} = Active(saved'.node)
    BY <1>2, <1>3, PhaseIs DEF Active
  <2> QED
    BY <2>1, KeepsReservationsInOrder, Steps DEF ReservationsInOrder
<1>9. (saved'.run \notin RunEnd) \in {saved.run \notin RunEnd, FALSE}
  BY VerdictsStay, Steps
<1> QED
  <2>1. Ledger!Cardinality({n \in Nodes : q[n] = "active"}) =
          Cardinality({n \in Nodes : q[n] = "active"})
    BY DEF Ledger!Cardinality, Cardinality
  <2> QED
    BY <1>1, <1>2, <1>5, <1>6, <1>7, <1>8, <1>9, <2>1 DEF Ledger!Advance

LEMMA RestartForgets ==
  ASSUME Inv, Restart
  PROVE  Ledger!Forget
<1> USE DEF Inv, SupervisionInv
<1>1. PICK p : p = [n \in Nodes |-> PhaseOf(saved.node[n])]
  OBVIOUS
<1>2. PICK q : q = [n \in Nodes |-> PhaseOf(saved'.node[n])]
  OBVIOUS
<1>3. \A n \in Nodes : saved.node[n] \in NodeStatus /\ saved'.node[n] \in NodeStatus
  BY Steps, StepKeepsType DEF TypeOK, NodeMap
<1>4. q \in [Nodes -> Ledger!Phase]
  BY <1>2, <1>3, PhaseIs
<1>5. ASSUME NEW n \in Nodes
      PROVE  q[n] = p[n] \/ (p[n] # "waiting" /\ q[n] = "dead")
  <2>1. CASE task'[n] = "missing"
    <3>1. saved'.node[n] = "failed" /\ n \in saved.bound
      BY <2>1, RestartNode
    <3>2. saved.node[n] \notin Unstarted
      BY <3>1 DEF LaunchInv, RegistryBehind
    <3> QED
      BY <1>1, <1>2, <1>3, <3>1, <3>2, PhaseIs DEF DeadEnd, NodeEnd
  <2>2. CASE task'[n] # "missing"
    BY <1>1, <1>2, <2>2, RestartNode
  <2> QED
    BY <2>1, <2>2
<1>6. (saved'.run \notin RunEnd) = (saved.run \notin RunEnd)
  BY Written DEF Restart, LoadedRun, RunEnd
<1> QED
  BY <1>1, <1>2, <1>4, <1>5, <1>6 DEF Ledger!Forget

\* Wherever the desktop dies, what the registry says of a run is a behaviour of
\* the abstract record: no node goes back, no launch is recorded before its
\* dependencies, past the end of the run, or beyond max_parallelism.
THEOREM RegistryKeepsLedger == Spec => KeepsLedger
<1>1. Init => Ledger!Init
  <2> SUFFICES ASSUME Init PROVE Ledger!Init
    OBVIOUS
  <2>1. saved.run = "approved" /\ \A n \in Nodes : saved.node[n] = "pending"
    BY DEF Init, Snapshot
  <2> QED
    BY <2>1, PhaseIs DEF Ledger!Init, NodeStatus, Unstarted, RunEnd
<1>2. TypeOK /\ LaunchInv /\ SupervisionInv /\ [Next]_vars => [Ledger!Next]_(Ledger!vars)
  <2> SUFFICES ASSUME Inv, [Next]_vars
               PROVE  Ledger!Advance \/ Ledger!Forget \/ UNCHANGED Ledger!vars
    BY DEF Inv, Ledger!Next
  <2>1. CASE UNCHANGED saved
    BY <2>1 DEF Ledger!vars
  <2>2. CASE Next /\ ~UNCHANGED saved
    BY <2>2, WritesAdvance, RestartForgets, Steps, SavedByPersist DEF Inv
  <2> QED
    BY <2>1, <2>2 DEF vars, runVars
<1> QED
  BY <1>1, <1>2, SupervisionInvariant, TypeCorrect, LaunchInvariant, PTL
  DEF Spec, KeepsLedger, Ledger!Spec

=============================================================================
