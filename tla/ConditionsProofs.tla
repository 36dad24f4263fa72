-------------------------- MODULE ConditionsProofs --------------------------
(***************************************************************************)
(* For every plan: with the conditions that Conditions names, no node is   *)
(* stranded, no call is abandoned, no prompt starts a second thread, and   *)
(* no result changes.  The three invariants of Conditions are shown        *)
(* inductive on top of those of Supervision.                               *)
(***************************************************************************)
EXTENDS SupervisionProofs, Conditions

-----------------------------------------------------------------------------
(* Enough room: the calls in progress are in order.                        *)

\* Room for a task that is not running is room for one more.
LEMMA RoomForOne ==
  ASSUME TypeOK, Room, NEW n \in Nodes, task[n] # "running"
  PROVE  NumRunning < MaxRunning
<1> DEFINE R == {m \in Nodes : task[m] = "running"}
<1>1. IsFiniteSet(Nodes) /\ R \subseteq Nodes \ {n}
  BY PlanAssumption
<1>2. /\ IsFiniteSet(Nodes \ {n})
      /\ Cardinality(Nodes \ {n}) = Cardinality(Nodes) - 1
  BY <1>1, FS_RemoveElement
<1>3. Cardinality(R) <= Cardinality(Nodes \ {n}) /\ Cardinality(R) \in Nat
  BY <1>1, <1>2, FS_Subset, FS_CardinalityType
<1>4. Cardinality(Nodes) \in Nat /\ MaxRunning \in Nat
  BY <1>1, FS_CardinalityType, LimitAssumption
<1> HIDE DEF R
<1>5. Cardinality(R) < MaxRunning
  BY <1>2, <1>3, <1>4 DEF Room
<1> QED
  BY <1>5 DEF R, NumRunning

\* No start is turned away.
LEMMA NoneOverLimit ==
  ASSUME TypeOK, Room, NEW n \in Nodes
  PROVE  ~StartOverLimit(n) /\ ~UserStartOverLimit(n)
<1>1. NumRunning \in Nat /\ MaxRunning \in Nat
  <2>1. /\ IsFiniteSet(Nodes) /\ {m \in Nodes : task[m] = "running"} \subseteq Nodes
    BY PlanAssumption
  <2> QED
    BY <2>1, FS_Subset, FS_CardinalityType, LimitAssumption DEF NumRunning
<1>2. task[n] # "running" => NumRunning < MaxRunning
  BY RoomForOne
<1> QED
  BY <1>1, <1>2 DEF StartOverLimit, Launching, UserStartOverLimit

Orderly(s) == \A i \in 1 .. Len(s) : InOrder(s[i])

LEMMA OrderlyPush ==
  ASSUME NEW s \in Seq(Frame), Orderly(s), NEW name \in CallNames, NEW S \in SUBSET Nodes,
         InOrder(Call(name, S))
  PROVE  Append(s, Call(name, S)) \in Seq(Frame) /\ Orderly(Append(s, Call(name, S)))
<1>1. PICK c : c = Call(name, S)
  OBVIOUS
<1>2. c \in Frame /\ InOrder(c)
  BY <1>1, CallIsFrame
<1>3. PICK t : t = Append(s, c)
  OBVIOUS
<1>4. /\ t \in Seq(Frame) /\ Len(t) = Len(s) + 1 /\ Len(s) \in Nat
      /\ t[Len(s) + 1] = c /\ \A i \in 1 .. Len(s) : t[i] = s[i]
  BY <1>2, <1>3, NodesPush, LenProperties
<1>5. Orderly(t)
  BY <1>2, <1>4 DEF Orderly
<1> QED
  BY <1>1, <1>3, <1>4, <1>5

LEMMA OrderlySync ==
  ASSUME NEW s \in Seq(Frame), Orderly(s), NEW n \in Nodes
  PROVE  /\ ThenSync(n, s) => Orderly(stack')
         /\ ThenSend(n, s) => Orderly(stack')
<1>1. InOrder(Call("sync", {n})) /\ InOrder(Call("sending", {n}))
  BY DEF InOrder, Call
<1>2. PICK t : t = Append(s, Call("sending", {n}))
  OBVIOUS
<1>3. t \in Seq(Frame) /\ Orderly(t)
  BY <1>1, <1>2, OrderlyPush DEF CallNames
<1>4. Orderly(Append(s, Call("sync", {n}))) /\ Orderly(Append(t, Call("sync", {n})))
  BY <1>1, <1>3, OrderlyPush DEF CallNames
<1> QED
  BY <1>2, <1>4 DEF ThenSync, ThenSend

LEMMA OrderlyBelow ==
  ASSUME TypeOK, CallsInOrder, stack # <<>>
  PROVE  /\ Orderly(Below) /\ InOrder(Top)
         /\ \A n : Top.name # "sending" => Orderly(NextOf(n))
<1>1. stack \in Seq(Frame) /\ Len(stack) \in Nat \ {0}
  BY EmptySeq, LenProperties DEF TypeOK, Frame
<1>2. /\ Below \in Seq(Frame) /\ Len(Below) = Len(stack) - 1
      /\ \A i \in 1 .. Len(stack) - 1 : Below[i] = stack[i]
  BY <1>1, PopParts DEF Below
<1>3. Orderly(Below) /\ InOrder(Top)
  BY <1>1, <1>2 DEF Orderly, CallsInOrder, Top
<1>4. ASSUME NEW n, Top.name # "sending"
      PROVE  Orderly(NextOf(n))
  <2>1. Top.name \in CallNames /\ Args \ {n} \in SUBSET Nodes
    BY TopFrame DEF Frame, Top
  <2>2. InOrder(Call(Top.name, Args \ {n}))
    BY <1>3, <1>4 DEF InOrder, Call
  <2> QED
    BY <1>2, <1>3, <2>1, <2>2, OrderlyPush DEF NextOf, Top
<1> QED
  BY <1>3, <1>4

LEMMA KeepsCallsInOrder ==
  ASSUME Inv, Room, CallsInOrder, Next
  PROVE  CallsInOrder'
<1> USE DEF Inv, SupervisionInv
<1> SUFFICES Orderly(stack')
  BY DEF Orderly, CallsInOrder
<1>1. <<>> \in Seq(Frame) /\ Orderly(<<>>)
  BY Empty DEF Orderly
<1>2. \A name \in {"schedule", "starting", "cancelling", "recovering"}, S \in SUBSET Nodes :
        name \in CallNames /\ InOrder(Call(name, S))
  BY DEF CallNames, InOrder, Call
<1>3. \A c : <<c>> = Append(<<>>, c)
  OBVIOUS
<1>4. CASE HandlerStep
  <2>1. /\ stack # <<>> /\ Below \in Seq(Frame) /\ Orderly(Below)
        /\ \A n : NextOf(n) \in Seq(Frame) /\ (Top.name # "sending" => Orderly(NextOf(n)))
    BY <1>4, HandlerBase, BelowParts, NextFrame, OrderlyBelow
  <2>2. CASE Sync
    <3>1. Orderly(Append(Below, Call("schedule", {})))
      BY <1>2, <2>1, OrderlyPush
    <3> QED
      BY <2>1, <2>2, <3>1, SyncGoes
  <2>3. CASE Schedule
    <3>1. Chosen(node, run = "paused") \in SUBSET Nodes
      BY DEF Chosen, Startable, Waiting
    <3>2. Orderly(Append(Below, Call("starting", Chosen(node, run = "paused"))))
      BY <1>2, <2>1, <3>1, OrderlyPush
    <3> QED
      BY <2>1, <2>3, <3>2 DEF Schedule
  <2>4. CASE FinishSchedule \/ Requeue \/ BeginTurn \/ FinishCancel \/ FinishRecovery
    BY <1>1, <2>1, <2>4 DEF FinishSchedule, Requeue, BeginTurn, FinishCancel, FinishRecovery
  <2>5. ASSUME NEW n \in Nodes, Walks(n)
        PROVE  Orderly(stack')
    <3>1. Orderly(NextOf(n)) /\ NextOf(n) \in Seq(Frame)
      BY <2>1, <2>5, WalksList
    <3>2. \/ stack' = <<>> \/ stack' = NextOf(n)
          \/ ThenSync(n, NextOf(n)) \/ ThenSend(n, NextOf(n))
      BY <2>5, NoneOverLimit
      DEF Walks, Starts, Cancels, StartRefused, StartWithoutWorktree, StartSettled,
          StartUnusable, StartThread, BeginThread, CancelWorker, CancelTask, CancelUnbound,
          RecoverNode
    <3> QED
      BY <1>1, <3>1, <3>2, OrderlySync
  <2>6. \/ Sync \/ Schedule
        \/ FinishSchedule \/ Requeue \/ BeginTurn \/ FinishCancel \/ FinishRecovery
        \/ \E n \in Nodes : Walks(n)
    BY <1>4, Zenon DEF HandlerStep, Starts, Cancels, Walks
  <2> QED
    BY <2>2, <2>3, <2>4, <2>5, <2>6
<1>5. CASE RunCommand
  <2>1. Orderly(Append(<<>>, Call("schedule", {}))) /\ Orderly(Append(<<>>, Call("cancelling", Nodes)))
    BY <1>1, <1>2, OrderlyPush
  <2> QED
    BY <1>1, <1>3, <1>5, <2>1
    DEF RunCommand, StartRun, StartRunWithoutBase, PauseRun, ResumeRun, CancelRun, CancelNode,
        Idle
<1>6. ASSUME NEW n \in Bound, ServerEvent(n) \/ TaskCommand(n)
      PROVE  Orderly(stack')
  <2>1. Orderly(Append(<<>>, Call("sending", {n}))) /\ n \in Nodes
    <3>1. n \in Nodes /\ InOrder(Call("sending", {n}))
      BY DEF InOrder, Call, Bound
    <3> QED
      BY <1>1, <3>1, OrderlyPush DEF CallNames
  <2>2. \/ stack' = <<>> \/ ThenSync(n, <<>>) \/ ThenSend(n, <<>>)
        \/ stack' = Append(<<>>, Call("sending", {n}))
    BY <1>3, <1>6
    DEF ServerEvent, ThreadStarted, ThreadRefused, Resumed, ResumeFails,
        ResumeRefused, ViewRefused, TurnProceeds, ApprovalAsked, TurnCompleted,
        TurnRefused, TurnError, TaskCommand, CancelBound, CancelTask, UserStart,
        UserStartOverLimit, UserStartUnusable, OpenUnusable, UserSends, Cleanup, CleanupDirty, CleanupStarts,
        BeginThread, Idle, Manually
  <2> QED
    BY <1>1, <2>1, <2>2, OrderlySync
<1>7. CASE Restart
  <2>1. {m \in Nodes : Syncs(task'[m])} \in SUBSET Nodes
    OBVIOUS
  <2>2. Orderly(Append(<<>>, Call("recovering", {m \in Nodes : Syncs(task'[m])})))
    BY <1>1, <1>2, <2>1, OrderlyPush
  <2> QED
    BY <1>3, <1>7, <2>2 DEF Restart
<1> QED
  BY <1>4, <1>5, <1>6, <1>7, Steps DEF Going

-----------------------------------------------------------------------------
(* Enough room: every call returns.                                        *)

\* A list is dealt with before anything that is called by a walk is there.
LEMMA NoneHeldByWalk ==
  ASSUME TypeOK, AtBottom(stack), Running("cancelling") \/ Running("recovering")
  PROVE  HeldIn(stack) = {} /\ Len(stack) = 1
<1>1. Len(stack) \in Nat \ {0}
  BY EmptySeq DEF TypeOK, Running
<1>2. Len(stack) = 1 /\ stack[1].name # "starting"
  BY <1>1, Len(stack) \in 1 .. Len(stack) DEF AtBottom, Running
<1> QED
  BY <1>2 DEF HeldIn

\* A node that is refused a start can be marked as failed.
LEMMA RefusedGoes ==
  ASSUME Inv, HeldUnharmed, MissingFailed, NEW n \in Nodes, StartRefused(n)
  PROVE  stack' = NextOf(n) /\ node' = [node EXCEPT ![n] = "failed"]
<1>1. n \in HeldIn(stack) /\ task[n] \in {"none", "missing"}
  BY StartsHeld DEF Starts, StartRefused, Inv
<1>2. node[n] \in Unstarted \cup {"failed"}
  BY <1>1 DEF HeldUnharmed, MissingFailed
<1>3. Entered(n) = "failed" \/ "failed" \in NodeMoves[Entered(n)]
  BY <1>2 DEF Entered, Unstarted, NodeMoves
<1> QED
  BY <1>3 DEF StartRefused

\* The only call that leaves all calls behind is the last one.
LEMMA NoneRaises ==
  ASSUME Inv, CallsInOrder, HeldUnharmed, MissingFailed, HandlerStep, Raises
  PROVE  FinishCancel /\ Len(stack) = 1
<1> USE DEF Inv, SupervisionInv
<1>1. stack # <<>>
  BY HandlerBase
<1>2. CASE Requeue
  <2>1. Top.name = "requeue" /\ InOrder(Top)
    BY <1>1, <1>2, OrderlyBelow DEF Requeue, Running, Top
  <2> QED
    BY <2>1 DEF InOrder
<1>3. ASSUME NEW n \in Args, StartRefused(n)
      PROVE  FALSE
  <2>1. n \in Nodes
    BY <1>1, TopFrame
  <2>2. stack' = NextOf(n) /\ NextOf(n) # <<>>
    BY <1>1, <1>3, <2>1, RefusedGoes, NextParts
  <2> QED
    BY <2>2 DEF Raises
<1>4. CASE FinishCancel
  BY <1>4, NoneHeldByWalk DEF FinishCancel, LaunchInv
<1> QED
  BY <1>2, <1>3, <1>4 DEF Raises

LEMMA GrownLength ==
  ASSUME NEW b \in Seq(Frame), NEW s, Grown(s, b)
  PROVE  Len(s) \in Nat /\ Len(s) >= Len(b)
<1>1. PICK t : Put(t, b) /\ (s = t \/ \E n \in Nodes : s = Append(t, Call("sync", {n})))
  BY DEF Grown
<1>2. t \in Seq(Frame) /\ Len(b) \in Nat /\ Len(t) \in Nat /\ Len(t) >= Len(b)
  <2>1. ASSUME NEW name \in CallNames, NEW S \in SUBSET Nodes, t = Append(b, Call(name, S))
        PROVE  t \in Seq(Frame) /\ Len(t) = Len(b) + 1
    BY <2>1, CallIsFrame, NodesPush
  <2>2. Len(b) \in Nat
    BY LenProperties
  <2> QED
    BY <1>1, <2>1, <2>2 DEF Put
<1>3. ASSUME NEW n \in Nodes, s = Append(t, Call("sync", {n}))
      PROVE  Len(s) = Len(t) + 1
  <2>1. Call("sync", {n}) \in Frame
    BY CallIsFrame DEF CallNames
  <2> QED
    BY <1>2, <1>3, <2>1, NodesPush
<1>4. Len(s) = Len(t) \/ Len(s) = Len(t) + 1
  BY <1>1, <1>3
<1> QED
  BY <1>2, <1>4

LEMMA StepReturns ==
  ASSUME Inv, WorkInv, Going
  PROVE  Len(stack') >= Len(stack) - 1
<1> USE DEF Inv, SupervisionInv, WorkInv
<1>1. CASE ~HandlerStep
  <2>1. stack = <<>> /\ Grown(stack', <<>>)
    BY <1>1, EventBase
  <2>2. Len(stack') \in Nat
    BY <2>1, Empty, GrownLength
  <2> QED
    BY <2>1, <2>2
<1>2. CASE HandlerStep
  <2>1. stack # <<>> /\ (Raises \/ Returns \/ WalksOn)
    BY <1>2, HandlerBase
  <2>2. /\ stack \in Seq(Frame) /\ Len(stack) \in Nat
        /\ Below \in Seq(Frame) /\ Len(Below) = Len(stack) - 1
    BY <2>1, PopParts, LenProperties DEF TypeOK, Frame, Below
  <2>3. CASE Raises
    <3>1. Len(stack) = 1
      BY <1>2, <2>3, NoneRaises
    <3>2. Len(stack') = 0
      BY <2>3 DEF Raises
    <3> QED
      BY <3>1, <3>2
  <2>4. CASE Returns
    BY <2>2, <2>4, GrownLength DEF Returns
  <2>5. CASE WalksOn
    <3>1. PICK n \in Args : Grown(stack', NextOf(n))
      BY <2>5 DEF WalksOn
    <3>2. Call(Top.name, Args \ {n}) \in Frame
      BY <2>1, TopFrame DEF Call, Frame, Top
    <3>3. NextOf(n) \in Seq(Frame) /\ Len(NextOf(n)) = Len(Below) + 1
      BY <2>2, <3>2, NodesPush DEF NextOf, Top
    <3>4. Len(stack') \in Nat /\ Len(stack') >= Len(NextOf(n))
      BY <3>1, <3>3, GrownLength
    <3> QED
      BY <2>2, <3>3, <3>4
  <2> QED
    BY <2>1, <2>3, <2>4, <2>5
<1> QED
  BY <1>1, <1>2

LEMMA KeepsHeldUnharmed ==
  ASSUME Inv, WorkInv, Next
  PROVE  HeldUnharmed'
<1> USE DEF Inv, SupervisionInv, WorkInv
<1>1. CASE ~HandlerStep
  BY <1>1, HeldByEvent DEF HeldUnharmed
<1>2. CASE HandlerStep
  <2> SUFFICES ASSUME NEW n \in HeldIn(stack'), task'[n] = "none"
               PROVE  node'[n] \in Unstarted \cup {"failed"}
    BY DEF HeldUnharmed
  <2>0. Going /\ HeldIn(stack') \subseteq Nodes
    BY <1>2, ReservedHeld DEF Going
  <2>1. n \in Nodes /\ task[n] = "none"
    BY <2>0, BoundStays
  <2>2. \/ n \in HeldIn(stack)
        \/ Schedule /\ n \in Chosen(node, run = "paused")
    BY <1>2, HeldByHandler DEF LaunchInv, Tame
  <2>3. /\ node[n] \in Unstarted \cup {"failed"}
        /\ \A d \in Deps[n] : node[d] = "succeeded"
    BY <2>1, <2>2 DEF HeldUnharmed, LaunchInv, HeldReady, Chosen, Startable, Waiting
  <2>4. CASE node'[n] = node[n]
    BY <2>3, <2>4
  <2>5. CASE node'[n] # node[n]
    <3>1. NodeChange(n)
      BY <2>0, <2>1, <2>5, NodeStep
    <3>2. CASE Sync /\ node'[n] = Followed(n)
      BY <2>1, <2>5, <3>2 DEF Followed, SyncedStatus, Verdict
    <3>3. CASE n \in Doomed(node)
      BY <2>3, <3>3 DEF Doomed, DeadEnd
    <3>4. CASE node'[n] \in {"failed", "ready"}
      BY <3>4 DEF Unstarted
    <3>5. CASE Starts(n) /\ node'[n] = "starting"
      <4>1. task \in [Nodes -> TaskStatus] /\ node \in NodeMap
        BY DEF TypeOK
      <4>2. ~StartWithoutWorktree(n) /\ ~StartSettled(n) /\ ~StartUnusable(n) /\ ~StartOverLimit(n)
        BY <2>1, <4>1 DEF StartWithoutWorktree, StartSettled, StartUnusable, StartOverLimit
      <4>3. ~StartThread(n)
        BY <2>1, <4>1 DEF StartThread, BeginThread
      <4>4. StartRefused(n)
        BY <3>5, <4>2, <4>3 DEF Starts
      <4> QED
        BY <2>1, <3>5, <4>1, <4>4, RefusedGoes DEF NodeMap
    <3>6. CASE node[n] \in Unstarted /\ node'[n] = "cancelled"
      <4>1. CASE Running("cancelling")
        <5>1. HeldIn(stack) = {} /\ ~Schedule
          BY <4>1, NoneHeldByWalk DEF Schedule, Running, LaunchInv
        <5> QED
          BY <2>2, <5>1
      <4>2. CASE ~Running("cancelling")
        <5>1. \A m \in Nodes : ~CancelUnbound(m)
          BY <4>2 DEF CancelUnbound, Cancelling
        <5>2. ~Sync
          BY <2>1, <3>6, SyncGoes DEF Followed, SyncedStatus, Verdict, TypeOK, NodeMap, Unstarted
        <5>3. ASSUME UNCHANGED node
              PROVE  FALSE
          BY <2>5, <5>3
        <5>4. ~Schedule
          BY <2>1, <3>6 DEF Schedule, Unstarted
        <5>5. ASSUME NEW m \in Nodes, Starts(m)
              PROVE  FALSE
          <6>1. \/ UNCHANGED node \/ node' = [node EXCEPT ![m] = Entered(m)]
                \/ node' = [node EXCEPT ![m] = "failed"] \/ node' = Launched(m)
            BY <5>5 DEF Starts, StartRefused, StartWithoutWorktree, StartSettled, StartUnusable,
               StartOverLimit, StartThread, Launching
          <6> QED
            BY <2>1, <2>5, <3>6, <6>1 DEF Entered, Launched, TypeOK, NodeMap, Unstarted
        <5> QED
          BY <1>2, <5>1, <5>2, <5>3, <5>4, <5>5, RequeueKeepsNodes
          DEF HandlerStep, Starts, FinishSchedule, FinishCancel, BeginTurn, FinishRecovery,
              CancelWorker, RecoverNode, runVars
      <4> QED
        BY <4>1, <4>2
    <3> QED
      BY <3>1, <3>2, <3>3, <3>4, <3>5, <3>6 DEF NodeChange
  <2> QED
    BY <2>4, <2>5
<1> QED
  BY <1>1, <1>2

LEMMA KeepsMissingFailed ==
  ASSUME Inv, MissingFailed, Next
  PROVE  MissingFailed'
<1> USE DEF Inv, SupervisionInv
<1>1. ASSUME Going, NEW n \in Nodes, task'[n] = "missing"
      PROVE  node'[n] = "failed"
  <2>1. node[n] = "failed"
    BY <1>1, MissingSame DEF MissingFailed
  <2> QED
    BY <1>1, <2>1, EndedStays DEF NodeEnd
<1>2. ASSUME Restart, NEW n \in Nodes, task'[n] = "missing"
      PROVE  node'[n] = "failed"
  BY <1>2, RestartNode
<1> QED
  BY <1>1, <1>2, Steps DEF MissingFailed

-----------------------------------------------------------------------------
(* Enough room: every node in flight is at work.                           *)

\* A turn to be sent is sent, or stays to be sent.
LEMMA SendsStay ==
  ASSUME Inv, WorkInv, Going, NEW n \in NodesIn(stack, "sending"),
         ~(BeginTurn /\ Args = {n})
  PROVE  n \in NodesIn(stack', "sending")
<1> USE DEF Inv, SupervisionInv, WorkInv
<1>1. HandlerStep
  BY EventBase, NodesEmpty
<1>2. stack # <<>> /\ (Raises \/ Returns \/ WalksOn)
  BY <1>1, HandlerBase
<1>3. CASE Raises
  <2>1. Len(stack) = 1 /\ Top.name = "cancelling"
    BY <1>1, <1>3, NoneRaises DEF FinishCancel, Running, Top
  <2> QED
    BY <2>1 DEF NodesIn, Top
<1>4. CASE ~Raises /\ Returns
  <2>1. /\ NodesIn(stack, "sending") = NodesIn(Below, "sending") \cup OfName(Top, "sending")
        /\ NodesIn(Below, "sending") \subseteq NodesIn(stack', "sending")
    BY <1>2, <1>4, BelowParts, GrownParts DEF Returns
  <2>2. CASE Top.name = "sending"
    <3>1. BeginTurn
      BY <1>1, <2>2
      DEF HandlerStep, Sync, Schedule, FinishSchedule, FinishCancel, Requeue, FinishRecovery,
          StartRefused, StartWithoutWorktree, StartSettled, StartUnusable, StartOverLimit,
          StartThread, Launching, Starting, CancelWorker, CancelUnbound, Cancelling, RecoverNode,
          Running, Top
    <3>2. \E m \in Nodes : Args = {m}
      BY <1>2, <2>2, OrderlyBelow DEF InOrder, Args, Top
    <3> QED
      BY <2>1, <2>2, <3>1, <3>2 DEF OfName, Args, Top
  <2> QED
    BY <2>1, <2>2 DEF OfName
<1>5. CASE WalksOn
  <2>1. PICK m \in Args : Walks(m) /\ Grown(stack', NextOf(m))
    BY <1>5 DEF WalksOn
  <2>2. Top.name \notin {"sync", "sending"}
    BY <2>1, WalksList
  <2>3. /\ NodesIn(NextOf(m), "sending") = NodesIn(stack, "sending")
        /\ NextOf(m) \in Seq(Frame) /\ NoSync(NextOf(m))
    BY <1>2, <2>2, NextParts
  <2> QED
    BY <2>1, <2>3, GrownParts
<1> QED
  BY <1>2, <1>3, <1>4, <1>5

\* Beginning the thread of a task gives it work.
LEMMA ThreadIsWork ==
  ASSUME TypeOK, resumable = {}, NEW n \in Nodes, NEW b \in Seq(Frame), BeginThread(n, b)
  PROVE  AtWork(n)'
<1>1. CASE task' = [task EXCEPT ![n] = "running"] /\ ThenSend(n, b)
  <2>1. n \in NodesIn(stack', "sending")
    BY <1>1, SendPushes
  <2> QED
    BY <1>1, <2>1 DEF AtWork, TypeOK
<1>2. CASE task' = [task EXCEPT ![n] = "ready"] /\ starts' = [starts EXCEPT ![n] = @ + 1]
  BY <1>2 DEF AtWork, TypeOK
<1> QED
  BY <1>1, <1>2 DEF BeginThread

\* A launched node has got work, or has failed.
LEMMA LaunchedIsAtWork ==
  ASSUME Inv, WorkInv, Room, Going, resumable = {}, NEW n \in Nodes, Launches(n)
  PROVE  AtWork(n)'
<1> USE DEF Inv, SupervisionInv
<1>1. node[n] \in Unstarted /\ node'[n] \in InFlight /\ node'[n] # node[n]
  BY DEF Launches, Unstarted, InFlight
<1>2. task[n] = "none" \/ (task[n] = "failed" /\ Running("sync"))
  BY <1>1 DEF LaunchInv, BoundIsLaunched
<1>3. ~Sync
  <2>1. SyncedStatus(node[n], task[n]) \notin InFlight
    BY <1>1, <1>2 DEF SyncedStatus, Verdict, InFlight, Unstarted
  <2> QED
    BY <1>1, <2>1, SyncGoes DEF Followed, TypeOK, NodeMap
<1>4. Starts(n)
  BY <1>1, <1>3, NodeStep DEF NodeChange, InFlight
<1>5. task[n] = "none" /\ stack # <<>>
  BY <1>2, <1>4, StartsList DEF Running
<1>6. ~StartRefused(n) /\ ~StartWithoutWorktree(n) /\ ~StartSettled(n) /\ ~StartOverLimit(n)
  BY <1>1, <1>5, NoneOverLimit
  DEF StartRefused, StartWithoutWorktree, StartSettled, Entered, InFlight, Unstarted, TypeOK,
      NodeMap
<1>7. CASE StartUnusable(n)
  BY <1>7 DEF StartUnusable, AtWork, Verdict, TypeOK
<1>8. CASE StartThread(n)
  BY <1>5, <1>8, NextFrame, ThreadIsWork DEF StartThread
<1> QED
  BY <1>4, <1>6, <1>7, <1>8 DEF Starts

\* What an event does to the task of a node that stays in flight gives it work.
LEMMA EventKeepsWork ==
  ASSUME Inv, Room, resumable = {}, NEW m \in Bound, ServerEvent(m) \/ TaskCommand(m),
         NEW n \in Nodes, node[n] \in InFlight, AtWork(n)
  PROVE  AtWork(n)'
<1> USE DEF Inv, SupervisionInv
<1>1. stack = <<>> /\ n \notin NodesIn(stack, "sending") /\ <<>> \in Seq(Frame) /\ m \in Nodes
  <2>1. stack = <<>>
    BY DEF ServerEvent, ThreadStarted, ThreadRefused, Resumed, ResumeFails,
        ResumeRefused, ViewRefused, TurnProceeds, ApprovalAsked, TurnCompleted,
       TurnRefused, TurnError, TaskCommand, CancelBound, UserStart, UserStartOverLimit,
       UserStartUnusable, OpenUnusable, UserSends, Cleanup, CleanupDirty, CleanupStarts, Manually, Idle
  <2> QED
    BY <2>1, NodesEmpty, Empty DEF Bound
<1>2. /\ task \in [Nodes -> TaskStatus] /\ starts \in [Nodes -> Nat] /\ turns \in [Nodes -> Nat]
  BY DEF TypeOK
<1>3. \/ task[n] = "ready" /\ starts[n] > 0
      \/ task[n] = "running" /\ turns[n] > 0
      \/ task[n] \in DOMAIN Verdict
  BY <1>1 DEF AtWork
<1>4. ASSUME task'[n] = task[n], starts'[n] = starts[n], turns'[n] = turns[n]
      PROVE  AtWork(n)'
  BY <1>3, <1>4 DEF AtWork
<1>5. ASSUME task'[n] \in DOMAIN Verdict
      PROVE  AtWork(n)'
  BY <1>5 DEF AtWork
<1>6. CASE m # n
  BY <1>2, <1>4, <1>6
  DEF ServerEvent, ThreadStarted, ThreadRefused, Resumed, ResumeFails,
        ResumeRefused, ViewRefused, TurnProceeds, ApprovalAsked, TurnCompleted,
      TurnRefused, TurnError, TaskCommand, CancelBound, CancelTask, UserStart,
      UserStartOverLimit, UserStartUnusable, OpenUnusable, UserSends, Cleanup, CleanupDirty, BeginThread,
      turnVars
<1>7. CASE m = n
  <2>1. ASSUME task' = [task EXCEPT ![n] = "running"], ThenSend(n, <<>>)
        PROVE  AtWork(n)'
    <3>1. n \in NodesIn(stack', "sending")
      BY <1>1, <2>1, SendPushes
    <3> QED
      BY <1>2, <2>1, <3>1 DEF AtWork
  <2>2. CASE ThreadStarted(n)
    <3>1. CASE task[n] = "ready"
      <4>1. task' = [task EXCEPT ![n] = "running"] /\ ThenSend(n, <<>>)
        BY <2>2, <3>1 DEF ThreadStarted
      <4> QED
        BY <2>1, <4>1
    <3>2. CASE task[n] # "ready"
      <4>1. task'[n] = task[n] /\ turns'[n] = turns[n]
        BY <1>2, <2>2, <3>2 DEF ThreadStarted
      <4> QED
        BY <1>3, <3>2, <4>1 DEF AtWork
    <3> QED
      BY <3>1, <3>2
  <2>3. CASE \/ ThreadRefused(n) \/ ResumeRefused(n) \/ ViewRefused(n)
             \/ TurnRefused(n) \/ TurnError(n) \/ UserStartUnusable(n) \/ OpenUnusable(n)
    <3>1. task'[n] \in {"failed", "orphaned"}
      BY <1>2, <2>3
      DEF ThreadRefused, ResumeRefused, ViewRefused, ResumeFails, TurnRefused, TurnError,
          UserStartUnusable, OpenUnusable
    <3> QED
      BY <1>5, <3>1 DEF Verdict
  <2>4. CASE TurnProceeds(n) \/ ApprovalAsked(n)
    BY <1>2, <2>4 DEF TurnProceeds, ApprovalAsked, turnVars, AtWork
  <2>5. ASSUME NEW outcome \in {"completed", "failed"}, TurnCompleted(n, outcome)
        PROVE  AtWork(n)'
    BY <1>2, <1>5, <2>5 DEF TurnCompleted, Verdict
  <2>6. CASE CancelBound(n)
    BY <1>2, <1>5, <2>6 DEF CancelBound, CancelTask, Verdict
  <2>7. CASE UserStart(n)
    BY <1>1, <2>7, ThreadIsWork DEF UserStart
  <2>8. CASE UserSends(n)
    BY <2>1, <2>8 DEF UserSends
  <2>9. CASE Cleanup(n) \/ CleanupDirty(n)
    <3>1. task[n] \in DOMAIN Verdict
      BY <2>9 DEF Cleanup, CleanupDirty, CleanupStarts, Verdict
    <3>2. node[n] \in NodeEnd
      BY <1>1, <3>1, NodesEmpty DEF VerdictsOnTheWay, Running
    <3> QED
      BY <3>2 DEF InFlight, NodeEnd
  <2>10. CASE Resumed(n)
    <3>1. CASE task[n] = "ready"
      BY <2>1, <2>10, <3>1 DEF Resumed
    <3>2. CASE task[n] # "ready"
      BY <1>4, <2>10, <3>2 DEF Resumed
    <3> QED
      BY <3>1, <3>2
  <2>11. CASE ServerEvent(n)
    BY <2>2, <2>3, <2>4, <2>5, <2>10, <2>11 DEF ServerEvent
  <2>12. CASE TaskCommand(n)
    BY <1>1, <2>3, <2>6, <2>7, <2>8, <2>9, <2>12, NoneOverLimit DEF TaskCommand
  <2> QED
    BY <1>7, <2>11, <2>12
<1> QED
  BY <1>6, <1>7

\* No step of a handler takes the work of a node.
LEMMA HandlerKeepsWork ==
  ASSUME Inv, WorkInv, Room, resumable = {}, HandlerStep, NEW n \in Nodes, AtWork(n)
  PROVE  AtWork(n)'
<1> USE DEF Inv, SupervisionInv
<1>1. stack # <<>> /\ Going
  BY HandlerBase DEF Going
<1>2. /\ task \in [Nodes -> TaskStatus] /\ starts \in [Nodes -> Nat] /\ turns \in [Nodes -> Nat]
  BY DEF TypeOK
<1>3. ASSUME task'[n] = task[n], starts'[n] = starts[n], turns'[n] = turns[n], ~BeginTurn
      PROVE  AtWork(n)'
  BY <1>1, <1>3, SendsStay DEF AtWork
<1>4. ASSUME task'[n] \in DOMAIN Verdict
      PROVE  AtWork(n)'
  BY <1>4 DEF AtWork
<1>5. CASE BeginTurn
  <2>1. PICK m \in Args : turns' = [turns EXCEPT ![m] = @ + 1]
    BY <1>5 DEF BeginTurn
  <2>2. Top.name = "sending" /\ InOrder(Top)
    BY <1>1, <1>5, OrderlyBelow DEF BeginTurn, Running, Top, WorkInv
  <2>3. m \in Nodes /\ Args = {m}
    BY <2>1, <2>2 DEF InOrder, Args, Top
  <2>4. UNCHANGED <<task, starts>>
    BY <1>5 DEF BeginTurn
  <2>5. CASE m = n
    BY <1>2, <2>1, <2>4, <2>5 DEF AtWork
  <2>6. CASE m # n
    <3>1. turns'[n] = turns[n]
      BY <1>2, <2>1, <2>6
    <3>2. n \in NodesIn(stack, "sending") => n \in NodesIn(stack', "sending")
      BY <1>1, <2>3, <2>6, SendsStay
    <3> QED
      BY <2>4, <3>1, <3>2 DEF AtWork
  <2> QED
    BY <2>5, <2>6
<1>6. ASSUME NEW m \in Nodes, Starts(m)
      PROVE  AtWork(n)'
  <2>1. Top.name = "starting"
    BY <1>6, StartsList DEF Running, Top
  <2>2. ~BeginTurn
    BY <2>1 DEF BeginTurn, Running, Top
  <2>3. CASE m # n
    <3>1. task'[n] = task[n] /\ starts'[n] = starts[n] /\ turns'[n] = turns[n]
      BY <1>2, <1>6, <2>3
      DEF Starts, StartRefused, StartWithoutWorktree, StartSettled, StartUnusable,
          StartOverLimit, StartThread, BeginThread, taskVars, turnVars
    <3> QED
      BY <1>3, <2>2, <3>1
  <2>4. CASE m = n
    <3>1. CASE StartWithoutWorktree(n) \/ StartUnusable(n)
      BY <1>2, <1>4, <3>1 DEF StartWithoutWorktree, StartUnusable, Verdict
    <3>2. CASE StartRefused(n) \/ StartSettled(n)
      BY <1>3, <2>2, <3>2 DEF StartRefused, StartSettled, taskVars, turnVars
    <3>3. CASE StartThread(n)
      BY <1>1, <3>3, NextFrame, ThreadIsWork DEF StartThread
    <3> QED
      BY <1>6, <2>4, <3>1, <3>2, <3>3, NoneOverLimit DEF Starts
  <2> QED
    BY <2>3, <2>4
<1>7. ASSUME NEW m \in Nodes, Cancels(m) \/ RecoverNode(m)
      PROVE  AtWork(n)'
  <2>1. ~BeginTurn
    BY <1>7 DEF BeginTurn, Cancels, CancelWorker, CancelUnbound, Cancelling, RecoverNode, Running
  <2>2. CASE task'[n] = task[n]
    BY <1>3, <1>7, <2>1, <2>2
    DEF Cancels, CancelWorker, CancelUnbound, RecoverNode, taskVars, turnVars
  <2>3. CASE task'[n] # task[n]
    BY <1>2, <1>4, <1>7, <2>3
    DEF Cancels, CancelWorker, CancelTask, CancelUnbound, RecoverNode, taskVars, Verdict
  <2> QED
    BY <2>2, <2>3
<1>8. CASE Sync \/ Schedule \/ FinishSchedule \/ Requeue \/ FinishCancel \/ FinishRecovery
  <2>1. ~BeginTurn
    BY <1>8 DEF BeginTurn, Sync, Schedule, FinishSchedule, Requeue, FinishCancel, FinishRecovery,
       Running
  <2> QED
    BY <1>3, <1>8, <2>1
    DEF Sync, Schedule, FinishSchedule, Requeue, FinishCancel, FinishRecovery, taskVars, turnVars
<1> QED
  BY <1>5, <1>6, <1>7, <1>8 DEF HandlerStep, Starts, Cancels

\* Only a restart leaves threads to be resumed.
LEMMA ResumableStays ==
  ASSUME Going
  PROVE  UNCHANGED resumable
BY DEF Going, HandlerStep, Sync, Schedule, FinishSchedule, FinishCancel, Requeue, BeginTurn,
       FinishRecovery, StartRefused, StartWithoutWorktree, StartSettled, StartUnusable,
       StartOverLimit, StartThread, CancelWorker, CancelUnbound, RecoverNode,
       RunCommand, StartRun, StartRunWithoutBase, PauseRun, ResumeRun, CancelRun, CancelNode,
       ServerEvent, ThreadStarted, ThreadRefused, Resumed, ResumeFails, ResumeRefused,
       ViewRefused, TurnProceeds, ApprovalAsked, TurnCompleted, TurnRefused, TurnError,
       TaskCommand, CancelBound, UserStart, UserStartOverLimit, UserStartUnusable,
       OpenUnusable, UserSends, Cleanup, CleanupDirty, BeginThread, taskVars, turnVars

\* Before a restart the steps go on, and no thread is to be resumed.
LEMMA FirstSession ==
  ASSUME Inv, WorkInv, Next, restarts' = 0
  PROVE  Going /\ restarts = 0 /\ resumable = {} /\ resumable' = {}
<1> USE DEF Inv, SupervisionInv
<1>1. Going /\ restarts = 0
  <2>1. ~Restart
    BY DEF Restart, TypeOK
  <2>2. Going
    BY <2>1, Steps
  <2>3. UNCHANGED restarts
    BY <2>2
    DEF Going, HandlerStep, Sync, Schedule, FinishSchedule, FinishCancel, Requeue, BeginTurn,
        FinishRecovery, StartRefused, StartWithoutWorktree, StartSettled, StartUnusable,
        StartOverLimit, StartThread, CancelWorker, CancelUnbound, RecoverNode,
        RunCommand, StartRun, StartRunWithoutBase, PauseRun, ResumeRun, CancelRun, CancelNode,
        ServerEvent, ThreadStarted, ThreadRefused, Resumed, ResumeFails,
        ResumeRefused, ViewRefused, TurnProceeds, ApprovalAsked, TurnCompleted,
        TurnRefused, TurnError, TaskCommand, CancelBound, UserStart, UserStartOverLimit,
        UserStartUnusable, OpenUnusable, UserSends, Cleanup, CleanupDirty, Manually, bounds
  <2> QED
    BY <2>2, <2>3
<1> QED
  BY <1>1, ResumableStays DEF WorkInv

LEMMA KeepsWork ==
  ASSUME Inv, WorkInv, Room, Next, restarts' = 0, NEW n \in Nodes, node'[n] \in InFlight
  PROVE  AtWork(n)'
<1> USE DEF Inv, SupervisionInv
<1>1. Going /\ restarts = 0 /\ resumable = {}
  BY FirstSession
<1>2. CASE Launches(n)
  BY <1>1, <1>2, LaunchedIsAtWork
<1>3. CASE node[n] \in InFlight
  <2>1. AtWork(n)
    BY <1>1, <1>3 DEF WorkInv
  <2>2. CASE RunCommand
    <3>1. stack = <<>> /\ UNCHANGED taskVars
      BY <2>2 DEF RunCommand, StartRun, StartRunWithoutBase, PauseRun, ResumeRun, CancelRun,
         CancelNode, Idle
    <3> QED
      BY <2>1, <3>1, NodesEmpty DEF AtWork, taskVars, turnVars
  <2> QED
    BY <1>1, <1>3, <2>1, <2>2, HandlerKeepsWork, EventKeepsWork DEF Going
<1> QED
  BY <1>1, <1>2, <1>3, FlownFrom

LEMMA WorkStep ==
  ASSUME Inv, WorkInv, Room, [Next]_vars
  PROVE  WorkInv'
<1>1. CASE Next
  <2>1. CallsInOrder' /\ HeldUnharmed' /\ MissingFailed'
    BY <1>1, KeepsCallsInOrder, KeepsHeldUnharmed, KeepsMissingFailed DEF WorkInv
  <2>2. restarts' = 0 => resumable' = {}
    BY <1>1, FirstSession
  <2>3. restarts' = 0 => \A n \in Nodes : node'[n] \in InFlight => AtWork(n)'
    BY <1>1, KeepsWork
  <2> QED
    BY <2>1, <2>2, <2>3 DEF WorkInv
<1>2. CASE UNCHANGED vars
  BY <1>2
  DEF vars, runVars, taskVars, turnVars, bounds, WorkInv, CallsInOrder, HeldUnharmed,
      MissingFailed, AtWork
<1> QED
  BY <1>1, <1>2

\* As long as max_running_agent_tasks leaves room for every node, the calls in
\* progress return and every node in flight is at work (before a restart).
THEOREM WorkGoesOn == ASSUME Room PROVE Spec => []WorkInv
<1>1. Init => WorkInv
  BY HeldEmpty
  DEF Init, WorkInv, CallsInOrder, HeldUnharmed, MissingFailed, InFlight
<1>2. TypeOK /\ LaunchInv /\ SupervisionInv /\ WorkInv /\ [Next]_vars => WorkInv'
  BY WorkStep DEF Inv
<1> QED
  BY <1>1, <1>2, TypeCorrect, LaunchInvariant, SupervisionInvariant, PTL DEF Spec

\* With that room no event leaves a node in flight without a task at work: with
\* an App Server that lives and is ready, as Orchestration has it, the limit and
\* a restart are the only causes of a stranded node.
THEOREM NoneStranded == ASSUME Room PROVE Spec => [](restarts = 0 => NoStrandedNode)
<1>1. TypeOK /\ SupervisionInv /\ WorkInv => (restarts = 0 => NoStrandedNode)
  <2> SUFFICES ASSUME TypeOK, SupervisionInv, WorkInv, restarts = 0, stack = <<>>,
                      NEW n \in Nodes, node[n] \in InFlight
               PROVE  \/ (task[n] = "running" /\ turns[n] > 0)
                      \/ (task[n] = "ready" /\ starts[n] > 0)
    BY DEF NoStrandedNode, Idle
  <2>1. AtWork(n) /\ n \notin NodesIn(stack, "sending")
    BY NodesEmpty DEF WorkInv
  <2>2. task[n] \notin DOMAIN Verdict
    BY NodesEmpty DEF SupervisionInv, VerdictsOnTheWay, Running, InFlight, NodeEnd
  <2> QED
    BY <2>1, <2>2 DEF AtWork
<1> QED
  BY <1>1, TypeCorrect, SupervisionInvariant, WorkGoesOn, PTL

\* With that room no ValueError leaves the callers of a handler: requeueing a
\* node that the limit refused is the only exception in the middle of a chain.
THEOREM EveryCallReturns == ASSUME Room PROVE Spec => CallsReturn
<1>1. TypeOK /\ LaunchInv /\ SupervisionInv /\ WorkInv /\ [Next]_vars =>
        [restarts' = restarts => Len(stack') >= Len(stack) - 1]_vars
  <2> SUFFICES ASSUME Inv, WorkInv, Next, restarts' = restarts
               PROVE  Len(stack') >= Len(stack) - 1
    BY DEF Inv
  <2>1. ~Restart
    BY DEF Restart, Inv, TypeOK
  <2> QED
    BY <2>1, Steps, StepReturns
<1> QED
  BY <1>1, TypeCorrect, LaunchInvariant, SupervisionInvariant, WorkGoesOn, PTL
  DEF Spec, CallsReturn

-----------------------------------------------------------------------------
(* Starts that succeed: one thread for each task.                          *)

LEMMA Undisturbed ==
  ASSUME TypeOK, StartsSucceed, NEW n
  PROVE  /\ ~StartWithoutWorktree(n) /\ ~StartUnusable(n)
         /\ ~UserStart(n) /\ ~UserStartOverLimit(n) /\ ~UserStartUnusable(n)
         /\ ~OpenUnusable(n) /\ ~UserSends(n)
<1>1. ~Manually
  BY DEF Manually, StartsSucceed, TypeOK
<1> QED
  BY <1>1 DEF StartsSucceed, StartWithoutWorktree, StartUnusable, UserStart,
     UserStartOverLimit, UserStartUnusable, OpenUnusable, UserSends

LEMMA CountRunning == NumRunning \in Nat /\ MaxRunning \in Nat
<1>1. IsFiniteSet(Nodes) /\ {m \in Nodes : task[m] = "running"} \subseteq Nodes
  BY PlanAssumption
<1> QED
  BY <1>1, FS_Subset, FS_CardinalityType, LimitAssumption DEF NumRunning

\* A thread is asked for once: for a task that was not there before.
FirstThread(n) ==
  /\ stack' = NextOf(n) /\ Requeued = {}
  /\ task[n] = "none" /\ starts[n] = 0 /\ n \notin threads
  /\ task' = [task EXCEPT ![n] = "ready"] /\ starts' = [starts EXCEPT ![n] = @ + 1]
  /\ UNCHANGED <<threads, turns, resumes>>

LEMMA ThreadIsFirst ==
  ASSUME Inv, StartOnceInv, NEW n \in Nodes, StartThread(n)
  PROVE  FirstThread(n)
<1>1. n \in HeldIn(stack)
  BY StartsHeld DEF Inv, Starts
<1>2. Requeued = {}
  BY CountRunning DEF StartThread, StartOnceInv
<1>3. task[n] = "none" /\ starts[n] = 0 /\ n \notin threads /\ n \notin resumable
  BY <1>1, <1>2 DEF StartOnceInv
<1> QED
  BY <1>2, <1>3 DEF StartThread, BeginThread, FirstThread

\* The starts that are left: a refusal, the limit, or a first thread/start.
LEMMA StartForms ==
  ASSUME Inv, StartOnceInv, StartsSucceed, NEW n \in Nodes, Starts(n)
  PROVE  StartRefused(n) \/ StartOverLimit(n) \/ (StartThread(n) /\ FirstThread(n))
<1>1. TypeOK /\ n \in HeldIn(stack)
  BY StartsHeld DEF Inv
<1>2. ~StartSettled(n)
  BY <1>1 DEF StartSettled, StartOnceInv
<1> QED
  BY <1>1, <1>2, ThreadIsFirst, Undisturbed DEF Starts

\* A call pushed onto b leaves the lists of b below it.
LEMMA HeldBelowPush ==
  ASSUME NEW b \in Seq(Frame), NEW c \in Frame, stack' = Append(b, c)
  PROVE  HeldIn(Below') = HeldIn(b)
<1>1. PICK t : t = Append(b, c)
  OBVIOUS
<1>2. /\ t \in Seq(Frame) /\ t # <<>> /\ Len(t) = Len(b) + 1 /\ Len(b) \in Nat
      /\ \A i \in 1 .. Len(b) : t[i] = b[i]
  BY <1>1, NodesPush, LenProperties
<1>3. PICK d : d = SubSeq(t, 1, Len(t) - 1)
  OBVIOUS
<1>4. Len(d) = Len(b) /\ \A i \in 1 .. Len(b) : d[i] = b[i]
  BY <1>2, <1>3, PopParts
<1>5. HeldIn(d) = HeldIn(b)
  BY <1>4 DEF HeldIn
<1> QED
  BY <1>1, <1>3, <1>5 DEF Below

\* The requeue of a launched node leaves all calls behind.
LEMMA RequeueRaises ==
  ASSUME Inv, StartOnceInv, Requeue
  PROVE  stack' = <<>> /\ UNCHANGED <<node, task>>
<1>1. stack # <<>> /\ Top.name = "requeue" /\ UNCHANGED task
  BY DEF Requeue, Running, Top, taskVars
<1>2. Args \subseteq Requeued
  BY <1>1, BelowParts DEF Inv, SupervisionInv, Requeued, OfName, Args, Top
<1>3. \A n \in Args : task[n] = "ready" /\ node[n] \notin Unstarted /\ node[n] \in NodeStatus
  BY <1>1, <1>2, TopFrame DEF StartOnceInv, Inv, TypeOK, NodeMap
<1>4. \A n \in Args : node[n] # "ready" /\ "ready" \notin NodeMoves[node[n]]
  BY <1>3, MovesEnd DEF Unstarted
<1> QED
  BY <1>1, <1>3, <1>4 DEF Requeue

\* The requeues to come stay, with the lists they will leave behind.
RequeuesStay == Requeued' = Requeued /\ HeldIn(Below') \subseteq HeldIn(Below)

LEMMA RequeueStep ==
  ASSUME Inv, StartOnceInv, StartsSucceed, HandlerStep
  PROVE  \/ stack' = <<>> \/ RequeuesStay
         \/ \E n \in Nodes : StartOverLimit(n) /\ Requeued' = Requeued \cup {n}
<1> USE DEF Inv, SupervisionInv
<1>1. /\ stack # <<>> /\ Below \in Seq(Frame)
      /\ Requeued = NodesIn(Below, "requeue") \cup OfName(Top, "requeue")
  BY HandlerBase, BelowParts DEF Requeued
<1>2. ASSUME Top.name # "requeue"
      PROVE  Requeued = NodesIn(Below, "requeue")
  BY <1>1, <1>2 DEF OfName
<1>3. ASSUME stack' = Below, Top.name # "requeue"
      PROVE  stack' = <<>> \/ RequeuesStay
  <2>1. Requeued' = Requeued
    BY <1>2, <1>3 DEF Requeued
  <2>2. Below # <<>> => HeldIn(SubSeq(Below, 1, Len(Below) - 1)) \subseteq HeldIn(Below)
    BY <1>1, HeldPop
  <2> QED
    BY <1>3, <2>1, <2>2 DEF RequeuesStay, Below
<1>4. ASSUME NEW name \in {"schedule", "starting"}, NEW S \in SUBSET Nodes,
             stack' = Append(Below, Call(name, S)), Top.name # "requeue"
      PROVE  RequeuesStay
  <2>1. Call(name, S) \in Frame
    BY CallIsFrame DEF CallNames
  <2>2. HeldIn(Below') = HeldIn(Below)
    BY <1>1, <1>4, <2>1, HeldBelowPush
  <2>3. Requeued' = Requeued
    BY <1>1, <1>2, <1>4, PushesOther DEF Requeued, CallNames
  <2> QED
    BY <2>2, <2>3 DEF RequeuesStay
<1>5. ASSUME NEW n \in Nodes, Top.name \in {"starting", "cancelling", "recovering"}
      PROVE  /\ NextOf(n) \in Seq(Frame)
             /\ NodesIn(NextOf(n), "requeue") = Requeued
             /\ HeldIn(NextOf(n)) \subseteq HeldIn(stack)
             /\ stack' = NextOf(n) => RequeuesStay
  <2>1. /\ NextOf(n) \in Seq(Frame) /\ NodesIn(NextOf(n), "requeue") = Requeued
        /\ HeldIn(NextOf(n)) \subseteq HeldIn(stack)
    BY <1>1, <1>5, NextParts, HeldAreNodesIn DEF Requeued
  <2>2. Call(Top.name, Args \ {n}) \in Frame
    BY <1>1, TopFrame DEF Call, Frame, Top
  <2>3. stack' = NextOf(n) => HeldIn(Below') = HeldIn(Below)
    BY <1>1, <2>2, HeldBelowPush DEF NextOf, Top
  <2> QED
    BY <2>1, <2>3 DEF RequeuesStay, Requeued
<1>6. CASE Sync
  <2>1. Top.name = "sync"
    BY <1>6 DEF Sync, Running, Top
  <2> QED
    BY <1>3, <1>4, <1>6, <2>1, SyncGoes
<1>7. CASE Schedule
  <2>1. Top.name = "schedule" /\ Chosen(node, run = "paused") \in SUBSET Nodes
    BY <1>7 DEF Schedule, Running, Top, Chosen, Startable, Waiting
  <2> QED
    BY <1>3, <1>4, <1>7, <2>1 DEF Schedule
<1>8. CASE FinishSchedule \/ BeginTurn \/ FinishCancel \/ FinishRecovery
  <2>1. Top.name # "requeue" /\ (stack' = Below \/ stack' = <<>>)
    BY <1>8 DEF FinishSchedule, BeginTurn, FinishCancel, FinishRecovery, Running, Top
  <2> QED
    BY <1>3, <2>1
<1>9. ASSUME NEW n \in Nodes, Starts(n)
      PROVE  \/ stack' = <<>> \/ RequeuesStay
             \/ StartOverLimit(n) /\ Requeued' = Requeued \cup {n}
  <2>1. Top.name = "starting"
    BY <1>9, StartsList DEF Running, Top
  <2>2. CASE StartOverLimit(n)
    <3>1. PICK t : t = Append(NextOf(n), Call("requeue", {n}))
      OBVIOUS
    <3>2. t \in Seq(Frame) /\ NodesIn(t, "requeue") = Requeued \cup {n}
      BY <1>5, <2>1, <3>1, PushesOther DEF CallNames
    <3>3. ThenSync(n, t)
      BY <2>2, <3>1 DEF StartOverLimit
    <3> QED
      BY <2>2, <3>2, <3>3, SyncPushes DEF Requeued
  <2>3. CASE ~StartOverLimit(n)
    <3>1. stack' = <<>> \/ stack' = NextOf(n)
      BY <1>9, <2>3, StartForms DEF StartRefused, FirstThread
    <3> QED
      BY <1>5, <2>1, <3>1
  <2> QED
    BY <2>2, <2>3
<1>10. ASSUME NEW n \in Nodes, Cancels(n) \/ RecoverNode(n)
       PROVE  RequeuesStay
  <2>1. Top.name \in {"cancelling", "recovering"} /\ HeldIn(stack) = {}
    BY <1>10, NoneHeldByWalk
    DEF Cancels, CancelWorker, CancelUnbound, Cancelling, RecoverNode, Running, Top, LaunchInv
  <2>2. CASE stack' = NextOf(n)
    BY <1>5, <2>1, <2>2
  <2>3. CASE ThenSync(n, NextOf(n))
    <3>1. /\ NextOf(n) \in Seq(Frame) /\ HeldIn(NextOf(n)) = {}
          /\ NodesIn(NextOf(n), "requeue") = Requeued
      BY <1>5, <2>1
    <3>2. Call("sync", {n}) \in Frame
      BY CallIsFrame DEF CallNames
    <3>3. HeldIn(Below') = {}
      BY <2>3, <3>1, <3>2, HeldBelowPush DEF ThenSync
    <3>4. Requeued' = Requeued
      BY <2>3, <3>1, SyncPushes DEF Requeued
    <3> QED
      BY <3>3, <3>4 DEF RequeuesStay
  <2> QED
    BY <1>10, <2>2, <2>3
    DEF Cancels, CancelWorker, CancelTask, CancelUnbound, RecoverNode
<1>11. \/ Sync \/ Schedule \/ Requeue
       \/ FinishSchedule \/ BeginTurn \/ FinishCancel \/ FinishRecovery
       \/ \E n \in Nodes : Starts(n) \/ Cancels(n) \/ RecoverNode(n)
  BY Zenon DEF HandlerStep, Starts, Cancels
<1> QED
  BY <1>6, <1>7, <1>8, <1>9, <1>10, <1>11, RequeueRaises

\* With a requeue to come, tasks are only turned away again.
LEMMA TasksWait ==
  ASSUME Inv, StartOnceInv, StartsSucceed, HandlerStep,
         Requeued # {} \/ \E n \in Nodes : StartOverLimit(n)
  PROVE  /\ UNCHANGED task \/ \E n \in Nodes : StartOverLimit(n)
         /\ \A m \in Nodes : task'[m] = "running" <=> task[m] = "running"
         /\ \A m \in Nodes : task[m] = "ready" => task'[m] = "ready"
<1> USE DEF Inv, SupervisionInv
<1>1. task \in [Nodes -> TaskStatus]
  BY DEF TypeOK
<1>2. ASSUME NEW n \in Nodes, StartOverLimit(n)
      PROVE  /\ \A m \in Nodes : task'[m] = "running" <=> task[m] = "running"
             /\ \A m \in Nodes : task[m] = "ready" => task'[m] = "ready"
  BY <1>1, <1>2 DEF StartOverLimit, Launching
<1>3. ASSUME \A n \in Nodes : ~StartOverLimit(n)
      PROVE  UNCHANGED task
  <2>1. \A n \in Nodes : ~StartThread(n) /\ ~StartSettled(n)
    <3> SUFFICES ASSUME NEW n \in Nodes, StartThread(n) \/ StartSettled(n) PROVE FALSE
      OBVIOUS
    <3>2. CASE StartThread(n)
      BY <1>3, <3>2, ThreadIsFirst DEF FirstThread
    <3>3. CASE StartSettled(n)
      <4>1. n \in HeldIn(stack)
        BY <3>3, StartsHeld DEF Starts
      <4> QED
        BY <3>3, <4>1 DEF StartSettled, StartOnceInv
    <3> QED
      BY <3>2, <3>3
  <2>2. ASSUME NEW n \in Nodes, CancelWorker(n)
        PROVE  FALSE
    <3>1. Len(stack) = 1 /\ stack[1].name = "cancelling"
      BY <2>2, NoneHeldByWalk DEF CancelWorker, Cancelling, Running, LaunchInv
    <3> QED
      BY <1>3, <3>1 DEF Requeued, NodesIn
  <2> QED
    BY <1>3, <2>1, <2>2, Undisturbed
    DEF HandlerStep, Sync, Schedule, FinishSchedule, FinishCancel, Requeue, BeginTurn,
        FinishRecovery, StartRefused, CancelUnbound, RecoverNode, taskVars
<1> QED
  BY <1>2, <1>3

LEMMA KeepsOneThread ==
  ASSUME Inv, StartOnceInv, StartsSucceed, Next, NEW n \in Nodes
  PROVE  /\ starts'[n] + (IF n \in threads' THEN 1 ELSE 0) <= 1
         /\ task'[n] = "none" => starts'[n] = 0 /\ n \notin threads'
<1> USE DEF Inv, SupervisionInv
<1>1. /\ starts \in [Nodes -> Nat] /\ threads \subseteq Nodes /\ task \in [Nodes -> TaskStatus]
      /\ starts[n] + (IF n \in threads THEN 1 ELSE 0) <= 1
      /\ task[n] = "none" => starts[n] = 0 /\ n \notin threads
  BY DEF TypeOK, StartOnceInv, OneThread
<1>2. CASE Restart
  <2>1. starts'[n] = 0
    BY <1>2 DEF Restart
  <2>2. threads' = threads \cap saved.bound
    BY <1>2 DEF Restart
  <2>3. PICK gone : task'[n] = LoadedTask(n, gone)
    BY <1>2 DEF Restart
  <2>4. task'[n] = "none" => n \notin saved.bound \/ task[n] = "none"
    BY <2>3 DEF LoadedTask
  <2> QED
    BY <1>1, <2>1, <2>2, <2>4
<1>3. ASSUME Going, starts'[n] = starts[n], n \in threads' <=> n \in threads
      PROVE  /\ starts'[n] + (IF n \in threads' THEN 1 ELSE 0) <= 1
             /\ task'[n] = "none" => starts'[n] = 0 /\ n \notin threads'
  <2>1. task'[n] = "none" => task[n] = "none"
    BY <1>3, BoundStays
  <2> QED
    BY <1>1, <1>3, <2>1
<1>4. ASSUME NEW m \in Nodes, Starts(m), Going
      PROVE  /\ starts'[n] + (IF n \in threads' THEN 1 ELSE 0) <= 1
             /\ task'[n] = "none" => starts'[n] = 0 /\ n \notin threads'
  <2>1. CASE StartRefused(m) \/ StartOverLimit(m)
    BY <1>3, <1>4, <2>1 DEF StartRefused, StartOverLimit, taskVars, turnVars
  <2>2. CASE ~StartRefused(m) /\ ~StartOverLimit(m)
    <3>1. /\ starts[m] = 0 /\ m \notin threads /\ UNCHANGED threads
          /\ task' = [task EXCEPT ![m] = "ready"] /\ starts' = [starts EXCEPT ![m] = @ + 1]
      BY <1>4, <2>2, StartForms DEF FirstThread
    <3>2. CASE m = n
      BY <1>1, <3>1, <3>2
    <3>3. CASE m # n
      BY <1>1, <1>3, <1>4, <3>1, <3>3
    <3> QED
      BY <3>2, <3>3
  <2> QED
    BY <2>1, <2>2
<1>5. CASE HandlerStep
  <2>1. (\A m \in Nodes : ~Starts(m)) => UNCHANGED <<starts, threads>>
    BY <1>5 DEF HandlerStep, Starts, Sync, Schedule, FinishSchedule, Requeue, BeginTurn,
       FinishCancel, FinishRecovery, CancelWorker, CancelUnbound, RecoverNode, taskVars, turnVars
  <2> QED
    BY <1>3, <1>4, <1>5, <2>1 DEF Going
<1>6. CASE RunCommand
  <2>1. UNCHANGED <<starts, threads>>
    BY <1>6 DEF RunCommand, StartRun, StartRunWithoutBase, PauseRun, ResumeRun, CancelRun,
       CancelNode, taskVars, turnVars
  <2> QED
    BY <1>3, <1>6, <2>1 DEF Going
<1>7. ASSUME NEW m \in Bound, ServerEvent(m) \/ TaskCommand(m)
      PROVE  /\ starts'[n] + (IF n \in threads' THEN 1 ELSE 0) <= 1
             /\ task'[n] = "none" => starts'[n] = 0 /\ n \notin threads'
  <2>1. Going
    BY <1>7 DEF Going
  <2>2. CASE ThreadStarted(m) \/ ThreadRefused(m)
    <3>1. /\ starts[m] > 0 /\ starts' = [starts EXCEPT ![m] = @ - 1]
          /\ threads' \in {threads, threads \cup {m}}
      BY <2>2 DEF ThreadStarted, ThreadRefused
    <3>2. CASE m = n
      <4>1. task'[n] # "none"
        BY <1>1, <2>1, <3>1, <3>2, BoundStays
      <4> QED
        BY <1>1, <3>1, <3>2, <4>1
    <3>3. CASE m # n
      BY <1>1, <1>3, <2>1, <3>1, <3>3
    <3> QED
      BY <3>2, <3>3
  <2>3. CASE ~ThreadStarted(m) /\ ~ThreadRefused(m)
    <3>1. UNCHANGED <<starts, threads>>
      BY <1>7, <2>3, Undisturbed
      DEF ServerEvent, Resumed, ResumeFails, ResumeRefused, ViewRefused, TurnProceeds, ApprovalAsked, TurnCompleted, TurnRefused, TurnError,
          TaskCommand, CancelBound, Cleanup, CleanupDirty, turnVars
    <3> QED
      BY <1>3, <2>1, <3>1
  <2> QED
    BY <2>2, <2>3
<1> QED
  BY <1>2, <1>5, <1>6, <1>7, Steps DEF Going

\* An event finds no call in progress, and neither requeues nor holds a list.
LEMMA EventsHoldNothing ==
  ASSUME Inv, Next, ~HandlerStep
  PROVE  HeldIn(stack') = {} /\ Requeued' = {} /\ (stack' # <<>> => HeldIn(Below') = {})
<1> USE DEF Inv, SupervisionInv
<1>1. HeldIn(stack') = {}
  BY HeldByEvent
<1>2. stack' # <<>> => HeldIn(Below') = {}
  <2>1. stack' \in Seq(Frame)
    BY StepKeepsType DEF TypeOK, Frame
  <2> QED
    BY <1>1, <2>1, HeldPop DEF Below
<1>3. Requeued' = {}
  <2>0. PICK e \in Seq(Frame) : e = <<>>
    BY Empty
  <2>1. NodesIn(e, "requeue") = {} /\ \A c : <<c>> = Append(e, c)
    BY <2>0, NodesEmpty
  <2>2. CASE RunCommand
    <3>1. \/ stack' = e \/ stack' = Append(e, Call("schedule", {}))
          \/ stack' = Append(e, Call("cancelling", Nodes))
      BY <2>0, <2>1, <2>2 DEF RunCommand, StartRun, StartRunWithoutBase, PauseRun, ResumeRun,
         CancelRun, CancelNode, Idle
    <3>2. ASSUME NEW name \in {"schedule", "cancelling"}, NEW S \in SUBSET Nodes
          PROVE  NodesIn(Append(e, Call(name, S)), "requeue") = NodesIn(e, "requeue")
      BY PushesOther DEF CallNames
    <3> QED
      BY <2>1, <3>1, <3>2 DEF Requeued
  <2>3. ASSUME NEW n \in Bound, ServerEvent(n) \/ TaskCommand(n)
        PROVE  Requeued' = {}
    <3>1. \/ stack' = e \/ ThenSync(n, e) \/ ThenSend(n, e)
          \/ stack' = Append(e, Call("sending", {n}))
      BY <2>0, <2>1, <2>3
      DEF ServerEvent, ThreadStarted, ThreadRefused, Resumed, ResumeFails,
        ResumeRefused, ViewRefused, TurnProceeds, ApprovalAsked, TurnCompleted,
          TurnRefused, TurnError, TaskCommand, CancelBound, CancelTask, UserStart,
          UserStartOverLimit, UserStartUnusable, OpenUnusable, UserSends, Cleanup, CleanupDirty, CleanupStarts,
          BeginThread, Idle, Manually
    <3>2. n \in Nodes
      BY DEF Bound
    <3>3. PICK t : t = Append(e, Call("sending", {n}))
      OBVIOUS
    <3>4. t \in Seq(Frame) /\ NodesIn(t, "requeue") = {}
      BY <2>1, <3>2, <3>3, PushesOther DEF CallNames
    <3>5. ThenSend(n, e) => ThenSync(n, t)
      BY <3>3 DEF ThenSend, ThenSync
    <3> QED
      BY <2>1, <3>1, <3>2, <3>3, <3>4, <3>5, SyncPushes DEF Requeued
  <2>4. CASE Restart
    BY <2>4, RestartStack DEF Requeued
  <2> QED
    BY <2>2, <2>3, <2>4, Steps DEF Going
<1> QED
  BY <1>1, <1>2, <1>3

LEMMA KeepsRequeued ==
  ASSUME Inv, StartOnceInv, StartsSucceed, HandlerStep
  PROVE  /\ Requeued' # {} => NumRunning' >= MaxRunning
         /\ \A n \in Requeued' : task'[n] = "ready" /\ node'[n] \notin Unstarted
         /\ stack' # <<>> /\ HeldIn(Below') # {} => Requeued' # {}
<1>1. TypeOK /\ Onward /\ Requeued \subseteq Nodes
  <2>1. TypeOK /\ Onward
    BY Monotonic DEF Inv
  <2>2. \A i \in 1 .. Len(stack) : stack[i].of \subseteq Nodes
    <3>1. \A i \in 1 .. Len(stack) : stack[i] \in Frame
      BY <2>1, ElementOfSeq DEF TypeOK, Frame
    <3> QED
      BY <3>1 DEF Frame
  <2> QED
    BY <2>1, <2>2 DEF Requeued, NodesIn
<1>2. CASE stack' = <<>>
  BY <1>2, NodesEmpty DEF Requeued
<1>3. CASE RequeuesStay
  <2>1. stack # <<>>
    BY HandlerBase DEF Inv, SupervisionInv
  <2>2. stack' # <<>> /\ HeldIn(Below') # {} => Requeued' # {}
    BY <1>3, <2>1 DEF RequeuesStay, StartOnceInv
  <2>3. ASSUME Requeued # {}
        PROVE  /\ NumRunning' >= MaxRunning
               /\ \A n \in Requeued : task'[n] = "ready" /\ node'[n] \notin Unstarted
    <3>1. /\ \A m \in Nodes : task'[m] = "running" <=> task[m] = "running"
          /\ \A m \in Nodes : task[m] = "ready" => task'[m] = "ready"
      BY <2>3, TasksWait
    <3>2. NumRunning' = NumRunning
      BY <3>1 DEF NumRunning
    <3>3. NumRunning' >= MaxRunning
      BY <2>3, <3>2 DEF StartOnceInv
    <3>4. \A n \in Requeued : task'[n] = "ready" /\ node'[n] \notin Unstarted
      BY <1>1, <3>1 DEF StartOnceInv, Onward
    <3> QED
      BY <3>3, <3>4
  <2> QED
    BY <1>3, <2>2, <2>3 DEF RequeuesStay
<1>4. ASSUME NEW n \in Nodes, StartOverLimit(n), Requeued' = Requeued \cup {n}
      PROVE  /\ NumRunning' >= MaxRunning
             /\ \A m \in Requeued' : task'[m] = "ready" /\ node'[m] \notin Unstarted
  <2>1. /\ \A m \in Nodes : task'[m] = "running" <=> task[m] = "running"
        /\ \A m \in Nodes : task[m] = "ready" => task'[m] = "ready"
    BY <1>4, TasksWait
  <2>2. NumRunning' = NumRunning
    BY <2>1 DEF NumRunning
  <2>3. NumRunning' >= MaxRunning
    BY <1>4, <2>2 DEF StartOverLimit
  <2>4. \A m \in Requeued : task'[m] = "ready" /\ node'[m] \notin Unstarted
    BY <1>1, <2>1 DEF StartOnceInv, Onward
  <2>5. task'[n] = "ready" /\ node'[n] \notin Unstarted
    BY <1>1, <1>4 DEF StartOverLimit, Launching, Launched, Unstarted, TypeOK, NodeMap
  <2> QED
    BY <1>4, <2>3, <2>4, <2>5
<1>5. ASSUME NEW n \in Nodes, StartOverLimit(n), Requeued' = Requeued \cup {n}
      PROVE  Requeued' # {}
  BY <1>5
<1> QED
  BY <1>2, <1>3, <1>4, <1>5, RequeueStep

LEMMA KeepsHeldWaiting ==
  ASSUME Inv, StartOnceInv, StartsSucceed, HandlerStep, NEW n \in HeldIn(stack')
  PROVE  task'[n] = "none" \/ (task'[n] = "ready" /\ Requeued' # {})
<1> USE DEF Inv, SupervisionInv
<1>1. n \in Nodes /\ stack' # <<>> /\ stack # <<>>
  BY ReservedHeld, HeldEmpty, HandlerBase DEF Going
<1>2. \/ n \in HeldIn(stack)
      \/ Schedule /\ n \in Chosen(node, run = "paused")
  BY HeldByHandler DEF LaunchInv, Tame
<1>3. CASE Schedule /\ n \in Chosen(node, run = "paused")
  <2>1. node[n] \in Unstarted /\ ~Running("sync") /\ UNCHANGED task
    BY <1>3 DEF Schedule, Running, Chosen, Startable, Waiting, taskVars
  <2> QED
    BY <1>1, <2>1 DEF LaunchInv, BoundIsLaunched
<1>4. CASE n \in HeldIn(stack) /\ Requeued' # {} /\ (Requeued # {} \/ \E m \in Nodes : StartOverLimit(m))
  <2>1. task[n] \in {"none", "ready"} /\ task \in [Nodes -> TaskStatus]
    BY <1>4 DEF StartOnceInv, TypeOK
  <2>2. task'[n] \in {"none", "ready"}
    <3>1. CASE UNCHANGED task
      BY <2>1, <3>1
    <3>2. ASSUME NEW m \in Nodes, StartOverLimit(m)
          PROVE  task'[n] \in {"none", "ready"}
      BY <1>1, <2>1, <3>2 DEF StartOverLimit
    <3> QED
      BY <1>4, <3>1, <3>2, TasksWait
  <2> QED
    BY <1>4, <2>2
<1>5. CASE n \in HeldIn(stack) /\ Requeued = {} /\ \A m \in Nodes : ~StartOverLimit(m)
  <2>1. task[n] = "none" /\ HeldIn(Below) = {}
    BY <1>1, <1>5 DEF StartOnceInv
  <2>2. ASSUME Starts(n)
        PROVE  task'[n] = "none"
    <3>1. CASE StartRefused(n)
      BY <2>1, <3>1 DEF StartRefused, taskVars
    <3>2. CASE ~StartRefused(n)
      <4>1. stack' = NextOf(n)
        BY <1>1, <1>5, <2>2, <3>2, StartForms DEF FirstThread
      <4>2. PICK c : c = Call(Top.name, Args \ {n})
        OBVIOUS
      <4>3. c \in Frame /\ n \notin ListOf(c) /\ Below \in Seq(Frame)
        BY <1>1, <4>2, TopFrame DEF Call, Frame, Top, ListOf
      <4>4. HeldIn(Append(Below, c)) = HeldIn(Below) \cup ListOf(c)
        BY <4>3, HeldPush
      <4> QED
        BY <2>1, <4>1, <4>2, <4>3, <4>4 DEF NextOf, Top
    <3> QED
      BY <3>1, <3>2
  <2>3. ASSUME ~Starts(n)
        PROVE  task'[n] = "none"
    <3>1. ~TaskChange(n)
      <4>1. task'[n] = "none" \/ task[n] # "none" \/ ~TaskChange(n)
        BY <2>3 DEF TaskChange, Verdict
      <4> QED
        BY <2>1, <2>3 DEF TaskChange, Verdict
    <3> QED
      BY <1>1, <2>1, <3>1, TaskStep DEF Going
  <2> QED
    BY <2>2, <2>3
<1>6. Requeued # {} \/ (\E m \in Nodes : StartOverLimit(m)) => Requeued' # {}
  <2>1. ASSUME Requeued # {}, ~\E m \in Nodes : StartOverLimit(m)
        PROVE  Requeued' # {}
    BY <1>1, <2>1, RequeueStep DEF RequeuesStay
  <2>2. ASSUME NEW m \in Nodes, StartOverLimit(m)
        PROVE  Requeued' # {}
    <3>1. PICK t : t = Append(NextOf(m), Call("requeue", {m}))
      OBVIOUS
    <3>2. t \in Seq(Frame) /\ m \in NodesIn(t, "requeue")
      BY <1>1, <3>1, NextFrame, PushesOther DEF CallNames
    <3>3. ThenSync(m, t)
      BY <2>2, <3>1 DEF StartOverLimit
    <3> QED
      BY <3>2, <3>3, SyncPushes DEF Requeued
  <2> QED
    BY <2>1, <2>2
<1> QED
  BY <1>2, <1>3, <1>4, <1>5, <1>6

\* No thread is asked for again, and none is to be resumed that is not there.
LEMMA KeepsNoneResumed ==
  ASSUME Inv, StartOnceInv, StartsSucceed, Next
  PROVE  resumable' \subseteq threads' /\ \A n \in Nodes : resumes'[n] = 0
<1> USE DEF Inv
<1>1. CASE Restart
  <2>1. resumable' \subseteq threads'
    BY <1>1 DEF Restart
  <2>2. resumes' = [n \in Nodes |-> 0]
    BY <1>1 DEF Restart
  <2> QED
    BY <2>1, <2>2
<1>2. ASSUME threads \subseteq threads', UNCHANGED resumes, Going
      PROVE  resumable' \subseteq threads' /\ \A n \in Nodes : resumes'[n] = 0
  BY <1>2, ResumableStays DEF StartOnceInv
<1>3. ASSUME NEW m \in Nodes, Starts(m)
      PROVE  threads \subseteq threads' /\ UNCHANGED resumes
  BY <1>3, StartForms DEF StartRefused, StartOverLimit, FirstThread, taskVars, turnVars
<1>4. CASE HandlerStep
  <2>1. (\A m \in Nodes : ~Starts(m)) => UNCHANGED <<threads, resumes>>
    BY <1>4 DEF HandlerStep, Starts, Sync, Schedule, FinishSchedule, Requeue, BeginTurn,
       FinishCancel, FinishRecovery, CancelWorker, CancelUnbound, RecoverNode, taskVars, turnVars
  <2> QED
    BY <1>2, <1>3, <1>4, <2>1 DEF Going
<1>5. CASE RunCommand
  <2>1. UNCHANGED <<threads, resumes>>
    BY <1>5 DEF RunCommand, StartRun, StartRunWithoutBase, PauseRun, ResumeRun, CancelRun,
       CancelNode, taskVars, turnVars
  <2> QED
    BY <1>2, <1>5, <2>1 DEF Going
<1>6. ASSUME NEW m \in Bound, ServerEvent(m) \/ TaskCommand(m)
      PROVE  resumable' \subseteq threads' /\ \A n \in Nodes : resumes'[n] = 0
  <2>1. resumes[m] = 0 /\ Going
    BY <1>6 DEF StartOnceInv, Bound, Going
  <2>2. ~Resumed(m) /\ ~ResumeRefused(m)
    BY <2>1 DEF Resumed, ResumeRefused
  <2>3. threads \subseteq threads' /\ UNCHANGED resumes
    BY <1>6, <2>2, Undisturbed
    DEF ServerEvent, ThreadStarted, ThreadRefused, ResumeFails, ViewRefused, TurnProceeds,
        ApprovalAsked, TurnCompleted, TurnRefused, TurnError, TaskCommand, CancelBound,
        Cleanup, CleanupDirty, turnVars
  <2> QED
    BY <1>2, <2>1, <2>3
<1> QED
  BY <1>1, <1>4, <1>5, <1>6, Steps DEF Going

LEMMA StartOnceStep ==
  ASSUME Inv, StartOnceInv, StartsSucceed, [Next]_vars
  PROVE  StartOnceInv'
<1>1. CASE UNCHANGED vars
  BY <1>1
  DEF vars, runVars, taskVars, turnVars, StartOnceInv, OneThread, Requeued, NumRunning, Below
<1>2. CASE Next
  <2>1. OneThread' /\ \A n \in Nodes : task'[n] = "none" => starts'[n] = 0 /\ n \notin threads'
    BY <1>2, KeepsOneThread DEF OneThread
  <2>4. resumable' \subseteq threads' /\ \A n \in Nodes : resumes'[n] = 0
    BY <1>2, KeepsNoneResumed
  <2>2. CASE HandlerStep
    BY <2>1, <2>2, <2>4, KeepsRequeued, KeepsHeldWaiting DEF StartOnceInv
  <2>3. CASE ~HandlerStep
    BY <1>2, <2>1, <2>3, <2>4, EventsHoldNothing DEF StartOnceInv
  <2> QED
    BY <2>2, <2>3
<1> QED
  BY <1>1, <1>2

\* As long as the starts that the limit allows succeed, a list that was
\* overtaken is abandoned before any task of it is started a second time.
THEOREM StartsOnce == ASSUME StartsSucceed PROVE Spec => []StartOnceInv
<1>1. Init => StartOnceInv
  <2> SUFFICES ASSUME Init PROVE StartOnceInv
    OBVIOUS
  <2>1. Requeued = {} /\ HeldIn(stack) = {}
    BY NodesEmpty, HeldEmpty DEF Init, Requeued
  <2> QED
    BY <2>1 DEF Init, StartOnceInv, OneThread
<1>2. TypeOK /\ LaunchInv /\ SupervisionInv /\ StartOnceInv /\ [Next]_vars => StartOnceInv'
  BY StartOnceStep DEF Inv
<1> QED
  BY <1>1, <1>2, TypeCorrect, LaunchInvariant, SupervisionInvariant, PTL DEF Spec

\* The task prompt starts one thread, whatever the limit, the plan, the answers
\* of the App Server and the restarts, as long as starts succeed and the user
\* leaves the workers alone: what breaks it is a start that fails.
THEOREM OneThreadEach == ASSUME StartsSucceed PROVE Spec => []OneThread
<1>1. StartOnceInv => OneThread
  BY DEF StartOnceInv
<1> QED
  BY <1>1, StartsOnce, PTL

-----------------------------------------------------------------------------
(* Tasks that stay: the turns of a task.                                   *)

LEMMA SendsFirstPush ==
  ASSUME NEW s \in Seq(Frame), SendsFirst(s), NEW name \in CallNames, NEW S \in SUBSET Nodes,
         name = "sending" => s = <<>> /\ \E n \in Nodes : S = {n}
  PROVE  Append(s, Call(name, S)) \in Seq(Frame) /\ SendsFirst(Append(s, Call(name, S)))
<1>1. PICK c : c = Call(name, S)
  OBVIOUS
<1>2. c \in Frame /\ c.name = name /\ c.of = S
  BY <1>1, CallIsFrame DEF Call
<1>3. PICK t : t = Append(s, c)
  OBVIOUS
<1>4. /\ t \in Seq(Frame) /\ Len(t) = Len(s) + 1 /\ Len(s) \in Nat
      /\ t[Len(s) + 1] = c /\ \A i \in 1 .. Len(s) : t[i] = s[i]
  BY <1>2, <1>3, NodesPush, LenProperties
<1>5. s = <<>> => Len(s) = 0
  OBVIOUS
<1>6. SendsFirst(t)
  BY <1>2, <1>4, <1>5 DEF SendsFirst
<1> QED
  BY <1>1, <1>3, <1>4, <1>6

LEMMA SendsFirstSync ==
  ASSUME NEW s \in Seq(Frame), SendsFirst(s), NEW n \in Nodes
  PROVE  /\ ThenSync(n, s) => SendsFirst(stack')
         /\ ThenSync(n, Append(s, Call("requeue", {n}))) => SendsFirst(stack')
         /\ s = <<>> /\ ThenSend(n, s) => SendsFirst(stack')
<1>1. PICK t : t = Append(s, Call("requeue", {n}))
  OBVIOUS
<1>2. PICK u : u = Append(s, Call("sending", {n}))
  OBVIOUS
<1>3. t \in Seq(Frame) /\ SendsFirst(t)
  BY <1>1, SendsFirstPush DEF CallNames
<1>4. s = <<>> => u \in Seq(Frame) /\ SendsFirst(u)
  BY <1>2, SendsFirstPush DEF CallNames
<1>5. \A v \in Seq(Frame) : SendsFirst(v) => SendsFirst(Append(v, Call("sync", {n})))
  BY SendsFirstPush DEF CallNames
<1> QED
  BY <1>1, <1>2, <1>3, <1>4, <1>5 DEF ThenSync, ThenSend

LEMMA SendsFirstBelow ==
  ASSUME TypeOK, SendsFirst(stack), stack # <<>>
  PROVE  /\ SendsFirst(Below)
         /\ \A n : Top.name # "sending" => SendsFirst(NextOf(n))
         /\ Top.name = "sending" => Below = <<>> /\ \E n \in Nodes : Args = {n}
<1>1. stack \in Seq(Frame) /\ Len(stack) \in Nat \ {0}
  BY EmptySeq, LenProperties DEF TypeOK, Frame
<1>2. /\ Below \in Seq(Frame) /\ Len(Below) = Len(stack) - 1
      /\ \A i \in 1 .. Len(stack) - 1 : Below[i] = stack[i]
  BY <1>1, PopParts DEF Below
<1>3. SendsFirst(Below)
  BY <1>1, <1>2 DEF SendsFirst
<1>4. ASSUME NEW n, Top.name # "sending"
      PROVE  SendsFirst(NextOf(n))
  <2>1. Top.name \in CallNames /\ Args \ {n} \in SUBSET Nodes
    BY TopFrame DEF Frame, Top
  <2> QED
    BY <1>2, <1>3, <1>4, <2>1, SendsFirstPush DEF NextOf, Top
<1>5. ASSUME Top.name = "sending"
      PROVE  Below = <<>> /\ \E n \in Nodes : Args = {n}
  <2>1. Len(stack) = 1 /\ \E n \in Nodes : Args = {n}
    BY <1>1, <1>5, Len(stack) \in 1 .. Len(stack) DEF SendsFirst, Top, Args
  <2> QED
    BY <1>2, <2>1, EmptySeq
<1> QED
  BY <1>3, <1>4, <1>5

LEMMA KeepsSendsFirst ==
  ASSUME Inv, StartOnceInv, StartsSucceed, SendsFirst(stack), Next
  PROVE  SendsFirst(stack')
<1> USE DEF Inv, SupervisionInv
<1>1. <<>> \in Seq(Frame) /\ SendsFirst(<<>>)
  BY Empty DEF SendsFirst
<1>2. \A name \in {"schedule", "starting", "cancelling", "recovering"} :
        name \in CallNames /\ name # "sending"
  BY DEF CallNames
<1>3. \A c : <<c>> = Append(<<>>, c)
  OBVIOUS
<1>4. CASE HandlerStep
  <2>1. /\ stack # <<>> /\ Below \in Seq(Frame) /\ SendsFirst(Below)
        /\ \A n : NextOf(n) \in Seq(Frame) /\ (Top.name # "sending" => SendsFirst(NextOf(n)))
    BY <1>4, HandlerBase, BelowParts, NextFrame, SendsFirstBelow
  <2>2. CASE Sync
    <3>1. SendsFirst(Append(Below, Call("schedule", {})))
      BY <1>2, <2>1, SendsFirstPush
    <3> QED
      BY <2>1, <2>2, <3>1, SyncGoes
  <2>3. CASE Schedule
    <3>1. Chosen(node, run = "paused") \in SUBSET Nodes
      BY DEF Chosen, Startable, Waiting
    <3>2. SendsFirst(Append(Below, Call("starting", Chosen(node, run = "paused"))))
      BY <1>2, <2>1, <3>1, SendsFirstPush
    <3> QED
      BY <2>1, <2>3, <3>2 DEF Schedule
  <2>4. CASE FinishSchedule \/ Requeue \/ BeginTurn \/ FinishCancel \/ FinishRecovery
    BY <1>1, <2>1, <2>4 DEF FinishSchedule, Requeue, BeginTurn, FinishCancel, FinishRecovery
  <2>5. ASSUME NEW n \in Nodes, Walks(n)
        PROVE  SendsFirst(stack')
    <3>1. SendsFirst(NextOf(n)) /\ NextOf(n) \in Seq(Frame)
      BY <2>1, <2>5, WalksList
    <3>2. \/ stack' = <<>> \/ stack' = NextOf(n) \/ ThenSync(n, NextOf(n))
          \/ ThenSync(n, Append(NextOf(n), Call("requeue", {n})))
      <4>1. CASE Starts(n)
        BY <4>1, StartForms DEF StartRefused, StartOverLimit, FirstThread
      <4>2. CASE ~Starts(n)
        BY <2>5, <4>2
        DEF Walks, Cancels, CancelWorker, CancelTask, CancelUnbound, RecoverNode
      <4> QED
        BY <4>1, <4>2
    <3> QED
      BY <1>1, <3>1, <3>2, SendsFirstSync
  <2>6. \/ Sync \/ Schedule
        \/ FinishSchedule \/ Requeue \/ BeginTurn \/ FinishCancel \/ FinishRecovery
        \/ \E n \in Nodes : Walks(n)
    BY <1>4, Zenon DEF HandlerStep, Starts, Cancels, Walks
  <2> QED
    BY <2>2, <2>3, <2>4, <2>5, <2>6
<1>5. CASE RunCommand
  <2>1. SendsFirst(Append(<<>>, Call("schedule", {}))) /\ SendsFirst(Append(<<>>, Call("cancelling", Nodes)))
    BY <1>1, <1>2, SendsFirstPush
  <2> QED
    BY <1>1, <1>3, <1>5, <2>1
    DEF RunCommand, StartRun, StartRunWithoutBase, PauseRun, ResumeRun, CancelRun, CancelNode,
        Idle
<1>6. ASSUME NEW n \in Bound, ServerEvent(n) \/ TaskCommand(n)
      PROVE  SendsFirst(stack')
  <2>1. SendsFirst(Append(<<>>, Call("sending", {n}))) /\ n \in Nodes
    <3>1. n \in Nodes
      BY DEF Bound
    <3> QED
      BY <1>1, <3>1, SendsFirstPush DEF CallNames
  <2>2. \/ stack' = <<>> \/ ThenSync(n, <<>>) \/ ThenSend(n, <<>>)
        \/ stack' = Append(<<>>, Call("sending", {n}))
    BY <1>3, <1>6
    DEF ServerEvent, ThreadStarted, ThreadRefused, Resumed, ResumeFails,
        ResumeRefused, ViewRefused, TurnProceeds, ApprovalAsked, TurnCompleted,
        TurnRefused, TurnError, TaskCommand, CancelBound, CancelTask, UserStart,
        UserStartOverLimit, UserStartUnusable, OpenUnusable, UserSends, Cleanup, CleanupDirty, CleanupStarts,
        BeginThread, Idle, Manually
  <2> QED
    BY <1>1, <2>1, <2>2, SendsFirstSync
<1>7. CASE Restart
  <2>1. {m \in Nodes : Syncs(task'[m])} \in SUBSET Nodes
    OBVIOUS
  <2>2. SendsFirst(Append(<<>>, Call("recovering", {m \in Nodes : Syncs(task'[m])})))
    BY <1>1, <1>2, <2>1, SendsFirstPush
  <2> QED
    BY <1>3, <1>7, <2>2 DEF Restart
<1> QED
  BY <1>4, <1>5, <1>6, <1>7, Steps DEF Going

\* A turn comes to be sent only by the answer to thread/start.
LEMMA NewSend ==
  ASSUME Inv, StartOnceInv, StartsSucceed, Going,
         NEW n \in NodesIn(stack', "sending"), n \notin NodesIn(stack, "sending")
  PROVE  n \in Nodes /\ ThreadStarted(n)
<1> USE DEF Inv, SupervisionInv
<1>1. n \in Nodes /\ SendChange(n)
  BY SendStep
<1>2. CASE HandlerStep
  <2>1. stack # <<>>
    BY <1>2, HandlerBase
  <2>2. StartThread(n)
    BY <1>1, <2>1 DEF SendChange
  <2>3. stack' = NextOf(n)
    BY <1>1, <2>2, ThreadIsFirst DEF FirstThread
  <2> QED
    BY <2>1, <2>3, NextParts
<1>3. CASE RunCommand
  <2>0. PICK e \in Seq(Frame) : e = <<>>
    BY Empty
  <2>1. NodesIn(e, "sending") = {} /\ \A c : <<c>> = Append(e, c)
    BY <2>0, NodesEmpty
  <2>2. \/ stack' = e \/ stack' = Append(e, Call("schedule", {}))
        \/ stack' = Append(e, Call("cancelling", Nodes))
    BY <1>3, <2>0, <2>1 DEF RunCommand, StartRun, StartRunWithoutBase, PauseRun, ResumeRun,
       CancelRun, CancelNode, Idle
  <2>3. ASSUME NEW name \in {"schedule", "cancelling"}, NEW S \in SUBSET Nodes
        PROVE  NodesIn(Append(e, Call(name, S)), "sending") = NodesIn(e, "sending")
    BY PushesOther DEF CallNames
  <2> QED
    BY <2>1, <2>2, <2>3
<1>4. ASSUME NEW m \in Bound, ServerEvent(m) \/ TaskCommand(m)
      PROVE  ThreadStarted(n)
  <2>0. PICK e \in Seq(Frame) : e = <<>>
    BY Empty
  <2>1. NodesIn(e, "sending") = {} /\ m \in Nodes /\ \A c : <<c>> = Append(e, c)
    BY <2>0, NodesEmpty DEF Bound
  <2>2. CASE ThreadStarted(m)
    <3>1. stack' = e \/ ThenSend(m, e) \/ stack' = Append(e, Call("sending", {m}))
      BY <2>0, <2>1, <2>2 DEF ThreadStarted, Idle
    <3>2. NodesIn(Append(e, Call("sending", {m})), "sending") = {m}
      BY <2>1, PushesOther DEF CallNames
    <3>3. ThenSend(m, e) => NodesIn(stack', "sending") = {m}
      BY <2>1, SendPushes
    <3>4. NodesIn(stack', "sending") \subseteq {m}
      <4>1. CASE stack' = e
        BY <2>1, <4>1
      <4>2. CASE ThenSend(m, e)
        BY <3>3, <4>2
      <4>3. CASE stack' = Append(e, Call("sending", {m}))
        BY <3>2, <4>3
      <4> QED
        BY <3>1, <4>1, <4>2, <4>3
    <3> QED
      BY <2>2, <3>4
  <2>3. CASE ~ThreadStarted(m)
    <3>0. ~Resumed(m)
      BY <2>1 DEF Resumed, StartOnceInv
    <3>1. stack' = e \/ ThenSync(m, e)
      BY <1>4, <2>0, <2>3, <3>0, Undisturbed
      DEF ServerEvent, ThreadRefused, ResumeFails, ResumeRefused, ViewRefused, TurnProceeds, ApprovalAsked, TurnCompleted, TurnRefused,
          TurnError, TaskCommand, CancelBound, CancelTask, Cleanup, CleanupDirty, CleanupStarts,
          Idle
    <3> QED
      BY <2>1, <3>1, SyncPushes
  <2> QED
    BY <2>2, <2>3
<1> QED
  BY <1>1, <1>2, <1>3, <1>4 DEF Going

\* A step that neither asks for a thread or a turn of task n nor completes it.
LEMMA QuietTurn ==
  ASSUME Inv, StartOnceInv, StartsSucceed, OneTurn, Going, NEW n \in Nodes,
         turns'[n] <= turns[n], starts'[n] <= starts[n],
         ~ThreadStarted(n) \/ n \notin NodesIn(stack', "sending"),
         task'[n] = "completed" => task[n] = "completed"
  PROVE  TurnInOrder(n)'
<1> USE DEF Inv, SupervisionInv
<1>1. turns[n] \in Nat /\ starts[n] \in Nat /\ turns'[n] \in Nat /\ starts'[n] \in Nat
  <2>1. TypeOK /\ TypeOK'
    BY StepKeepsType DEF Going, Next
  <2> QED
    BY <2>1 DEF TypeOK
<1>2. n \in NodesIn(stack', "sending") => n \in NodesIn(stack, "sending")
  BY NewSend
<1>3. task'[n] = "none" => task[n] = "none"
  BY BoundStays
<1>4. TurnInOrder(n)
  BY DEF OneTurn
<1> QED
  BY <1>1, <1>2, <1>3, <1>4 DEF TurnInOrder

LEMMA BeginKeepsOneTurn ==
  ASSUME Inv, StartOnceInv, StartsSucceed, SendsFirst(stack), OneTurn, BeginTurn, NEW n \in Nodes
  PROVE  TurnInOrder(n)'
<1> USE DEF Inv, SupervisionInv
<1>1. HandlerStep /\ Going /\ stack # <<>> /\ Top.name = "sending" /\ UNCHANGED <<task, starts>>
  BY DEF BeginTurn, Going, HandlerStep, Running, Top
<1>2. PICK m \in Nodes : Args = {m}
  BY <1>1, SendsFirstBelow
<1>3. stack' = <<>> /\ turns' = [turns EXCEPT ![m] = @ + 1]
  BY <1>1, <1>2, SendsFirstBelow DEF BeginTurn
<1>4. turns \in [Nodes -> Nat] /\ starts \in [Nodes -> Nat]
  BY DEF TypeOK
<1>5. CASE n = m
  <2>1. n \in NodesIn(stack, "sending") /\ NodesIn(stack', "sending") = {}
    BY <1>1, <1>2, <1>3, <1>5, BelowParts, NodesEmpty DEF OfName, Args, Top
  <2>2. turns[n] = 0 /\ starts[n] = 0 /\ task[n] \notin {"none", "completed"}
    BY <1>4, <2>1 DEF OneTurn, TurnInOrder
  <2> QED
    BY <1>1, <1>3, <1>4, <1>5, <2>1, <2>2 DEF TurnInOrder
<1>6. CASE n # m
  BY <1>1, <1>3, <1>4, <1>6, QuietTurn DEF ThreadStarted, Idle
<1> QED
  BY <1>5, <1>6

LEMMA StartKeepsOneTurn ==
  ASSUME Inv, StartOnceInv, StartsSucceed, OneTurn, HandlerStep,
         NEW m \in Nodes, Starts(m), NEW n \in Nodes
  PROVE  TurnInOrder(n)'
<1> USE DEF Inv, SupervisionInv
<1>1. /\ Going /\ ~ThreadStarted(n)
      /\ task'[n] = "completed" => task[n] = "completed"
      /\ turns \in [Nodes -> Nat] /\ starts \in [Nodes -> Nat] /\ task \in [Nodes -> TaskStatus]
  BY HandlerBase, CompletesIdle DEF Going, ThreadStarted, Idle, TypeOK
<1>2. CASE StartRefused(m) \/ StartOverLimit(m)
  BY <1>1, <1>2, QuietTurn DEF StartRefused, StartOverLimit, taskVars, turnVars
<1>3. CASE StartThread(m) /\ FirstThread(m)
  <2>1. /\ task[m] = "none" /\ task' = [task EXCEPT ![m] = "ready"] /\ UNCHANGED turns
        /\ starts' = [starts EXCEPT ![m] = @ + 1]
    BY <1>3 DEF FirstThread
  <2>2. CASE n = m
    <3>1. n \notin NodesIn(stack', "sending")
      BY <1>1, <2>1, <2>2, NewSend DEF OneTurn, TurnInOrder
    <3>2. turns'[n] = 0 /\ task'[n] = "ready"
      BY <1>1, <2>1, <2>2 DEF OneTurn, TurnInOrder
    <3> QED
      BY <3>1, <3>2 DEF TurnInOrder
  <2>3. CASE n # m
    BY <1>1, <2>1, <2>3, QuietTurn
  <2> QED
    BY <2>2, <2>3
<1> QED
  BY <1>2, <1>3, StartForms

\* No answer to a thread/resume is to come, and none comes as an error.
LEMMA NothingToResume ==
  ASSUME StartOnceInv, TasksKept, NEW n \in Nodes
  PROVE  ~Resumed(n) /\ ~ResumeRefused(n) /\ ~ViewRefused(n)
BY DEF StartOnceInv, TasksKept, Resumed, ResumeRefused, ViewRefused, ResumeFails

LEMMA EventKeepsOneTurn ==
  ASSUME Inv, StartOnceInv, TasksKept, OneTurn,
         NEW m \in Bound, ServerEvent(m) \/ TaskCommand(m), NEW n \in Nodes
  PROVE  TurnInOrder(n)'
<1> USE DEF Inv, SupervisionInv
<1>1. Going /\ StartsSucceed /\ m \in Nodes
  BY DEF Going, TasksKept, Bound
<1>2. turns \in [Nodes -> Nat] /\ starts \in [Nodes -> Nat] /\ task \in [Nodes -> TaskStatus]
  BY DEF TypeOK
<1>3. ASSUME n # m, UNCHANGED <<turns[n], starts[n], task[n]>>
      PROVE  TurnInOrder(n)'
  <2>1. turns'[n] = turns[n] /\ starts'[n] = starts[n] /\ task'[n] = task[n]
    BY <1>3
  <2>2. turns'[n] <= turns[n] /\ starts'[n] <= starts[n] /\ ~ThreadStarted(n)
    BY <1>2, <2>1 DEF ThreadStarted
  <2> QED
    BY <1>1, <2>1, <2>2, QuietTurn
<1>4. CASE ThreadStarted(m)
  <2>1. /\ starts[m] > 0 /\ starts' = [starts EXCEPT ![m] = @ - 1] /\ UNCHANGED turns
        /\ task' = [task EXCEPT ![m] = IF @ = "ready" THEN "running" ELSE @]
    BY <1>4 DEF ThreadStarted
  <2>2. CASE n = m
    <3>1. starts[n] = 1 /\ turns[n] = 0 /\ task[n] \notin {"none", "completed"}
      BY <1>2, <2>1, <2>2 DEF StartOnceInv, OneThread, OneTurn, TurnInOrder
    <3>2. starts'[n] = 0 /\ turns'[n] = 0 /\ task'[n] \notin {"none", "completed"}
      BY <1>2, <2>1, <2>2, <3>1
    <3> QED
      BY <3>2 DEF TurnInOrder
  <2>3. CASE n # m
    BY <1>2, <1>3, <2>1, <2>3
  <2> QED
    BY <2>2, <2>3
<1>5. ASSUME NEW outcome \in {"completed", "failed"}, TurnCompleted(m, outcome)
      PROVE  TurnInOrder(n)'
  <2>1. /\ turns[m] > 0 /\ turns' = [turns EXCEPT ![m] = @ - 1] /\ UNCHANGED starts
        /\ stack = <<>> /\ ThenSync(m, stack)
        /\ \E s \in TaskStatus \ {"none"} : task' = [task EXCEPT ![m] = s]
    BY <1>5 DEF TurnCompleted, TaskStatus, Idle
  <2>2. CASE n = m
    <3>1. turns[n] = 1 /\ starts[n] = 0
      BY <1>2, <2>1, <2>2 DEF OneTurn, TurnInOrder
    <3>2. n \notin NodesIn(stack', "sending")
      BY <1>1, <2>1, SyncPushes, NodesEmpty, Empty
    <3>3. starts'[n] = 0 /\ turns'[n] = 0 /\ task'[n] # "none"
      BY <1>2, <2>1, <2>2, <3>1
    <3> QED
      BY <3>2, <3>3 DEF TurnInOrder
  <2>3. CASE n # m
    BY <1>2, <1>3, <2>1, <2>3
  <2> QED
    BY <2>2, <2>3
<1>6. CASE \/ ThreadRefused(m) \/ TurnProceeds(m) \/ ApprovalAsked(m)
           \/ TurnRefused(m) \/ TurnError(m) \/ CancelBound(m)
  <2>1. /\ \E s \in {"running", "failed", "cancelled"} : task' = [task EXCEPT ![m] = s]
        /\ starts' \in {starts, [starts EXCEPT ![m] = @ - 1]}
        /\ turns' \in {turns, [turns EXCEPT ![m] = @ - 1]}
    BY <1>6
    DEF ThreadRefused, TurnProceeds, ApprovalAsked, TurnRefused, TurnError, CancelBound,
        CancelTask, turnVars
  <2>2. stack = <<>> /\ ThenSync(m, stack)
    BY <1>6
    DEF ThreadRefused, TurnProceeds, ApprovalAsked, TurnRefused, TurnError, CancelBound,
        CancelTask, Idle
  <2>3. CASE n = m
    <3>1. n \notin NodesIn(stack', "sending")
      BY <1>1, <2>2, SyncPushes, NodesEmpty, Empty
    <3> QED
      BY <1>1, <1>2, <2>1, <2>3, <3>1, QuietTurn
  <2>4. CASE n # m
    BY <1>2, <1>3, <2>1, <2>4
  <2> QED
    BY <2>3, <2>4
<1> QED
  BY <1>1, <1>4, <1>5, <1>6, Undisturbed, NothingToResume
  DEF ServerEvent, TaskCommand, Cleanup, CleanupDirty, CleanupStarts, TasksKept

LEMMA KeepsOneTurn ==
  ASSUME Inv, StartOnceInv, TasksKept, SendsFirst(stack), OneTurn, Next, NEW n \in Nodes
  PROVE  TurnInOrder(n)'
<1> USE DEF Inv, SupervisionInv
<1>1. StartsSucceed /\ turns \in [Nodes -> Nat] /\ starts \in [Nodes -> Nat]
  BY DEF TasksKept, TypeOK
<1>2. CASE Restart
  <2>1. turns'[n] = 0 /\ starts'[n] = 0
    BY <1>2 DEF Restart
  <2>2. NodesIn(stack', "sending") = {}
    BY <1>2, RestartStack
  <2> QED
    BY <2>1, <2>2 DEF TurnInOrder
<1>3. CASE HandlerStep /\ ~BeginTurn /\ \A m \in Nodes : ~Starts(m)
  <2>1. UNCHANGED <<turns, starts>>
    BY <1>3 DEF HandlerStep, Starts, Sync, Schedule, FinishSchedule, Requeue, FinishCancel,
       FinishRecovery, CancelWorker, CancelUnbound, RecoverNode, taskVars, turnVars
  <2>2. Going /\ ~ThreadStarted(n) /\ (task'[n] = "completed" => task[n] = "completed")
    BY <1>3, HandlerBase, CompletesIdle DEF Going, ThreadStarted, Idle
  <2> QED
    BY <1>1, <2>1, <2>2, QuietTurn
<1>4. CASE RunCommand
  <2>1. UNCHANGED <<task, turns, starts>>
    BY <1>4 DEF RunCommand, StartRun, StartRunWithoutBase, PauseRun, ResumeRun, CancelRun,
       CancelNode, taskVars, turnVars
  <2>2. ~ThreadStarted(n)
    BY <1>1, <2>1 DEF ThreadStarted
  <2> QED
    BY <1>1, <1>4, <2>1, <2>2, QuietTurn DEF Going
<1> QED
  BY <1>1, <1>2, <1>3, <1>4, BeginKeepsOneTurn, StartKeepsOneTurn, EventKeepsOneTurn, Steps
  DEF Going

-----------------------------------------------------------------------------
(* Tasks that stay: the results.                                           *)

\* Only a sync changes a result, and only that of a task it has just read.
LEMMA ResultsBySync ==
  ASSUME TypeOK, LaunchInv, SyncIsTop, Going, NEW n \in Nodes, result'[n] # result[n]
  PROVE  Persist /\ UNCHANGED task /\ result'[n] = task[n]
<1>1. CASE Sync
  <2>1. PICK m \in Nodes : result' = [result EXCEPT ![m] = Summary(m)] /\ Persist
    BY <1>1, SyncGoes
  <2>2. m = n /\ result'[n] = Summary(n)
    BY <2>1 DEF TypeOK, ResultMap
  <2> QED
    BY <1>1, <2>1, <2>2 DEF Summary, Sync, taskVars
<1>2. ASSUME ~Sync
      PROVE  UNCHANGED result
  <2>1. CASE HandlerStep
    BY <1>2, <2>1
    DEF HandlerStep, Schedule, FinishSchedule, FinishCancel, Requeue, BeginTurn, FinishRecovery,
        StartRefused, StartWithoutWorktree, StartSettled, StartUnusable, StartOverLimit,
        StartThread, Launching, CancelWorker, CancelUnbound, RecoverNode, runVars
  <2>2. CASE RunCommand
    BY <2>2
    DEF RunCommand, StartRun, StartRunWithoutBase, PauseRun, ResumeRun, CancelRun, CancelNode,
        runVars
  <2>3. CASE \E m \in Bound : ServerEvent(m) \/ TaskCommand(m)
    BY <2>3, EventsKeepNodes DEF runVars
  <2> QED
    BY <2>1, <2>2, <2>3 DEF Going
<1> QED
  BY <1>1, <1>2

\* Nothing that can still happen changes a completed task.
LEMMA CompletedStays ==
  ASSUME Inv, StartOnceInv, TasksKept, OneTurn, Going, NEW n \in Nodes, task[n] = "completed"
  PROVE  task'[n] = "completed"
<1> USE DEF Inv, SupervisionInv
<1>1. /\ StartsSucceed /\ task \in [Nodes -> TaskStatus]
      /\ turns[n] = 0 /\ starts[n] = 0
  BY DEF TasksKept, TypeOK, OneTurn, TurnInOrder
<1>2. ASSUME NEW m \in Nodes, Starts(m)
      PROVE  task'[n] = "completed"
  <2>1. m # n
    BY <1>2, StartsHeld DEF StartOnceInv
  <2> QED
    BY <1>1, <1>2, <2>1, StartForms DEF StartRefused, StartOverLimit, FirstThread, taskVars
<1>3. ASSUME NEW m \in Nodes, CancelWorker(m)
      PROVE  task'[n] = "completed"
  BY <1>1, <1>3 DEF CancelWorker, CancelTask
<1>4. CASE HandlerStep
  <2>1. (\A m \in Nodes : ~Starts(m) /\ ~CancelWorker(m)) => UNCHANGED task
    BY <1>4 DEF HandlerStep, Starts, Sync, Schedule, FinishSchedule, Requeue, BeginTurn,
       FinishCancel, FinishRecovery, CancelUnbound, RecoverNode, taskVars
  <2> QED
    BY <1>2, <1>3, <2>1
<1>5. CASE RunCommand
  BY <1>5 DEF RunCommand, StartRun, StartRunWithoutBase, PauseRun, ResumeRun, CancelRun,
     CancelNode, taskVars
<1>6. ASSUME NEW m \in Bound, ServerEvent(m) \/ TaskCommand(m)
      PROVE  task'[n] = "completed"
  <2>1. m # n
    <3>1. ~ServerEvent(n)
      BY <1>1, NothingToResume
      DEF ServerEvent, ThreadStarted, ThreadRefused, TurnProceeds, ApprovalAsked,
          TurnCompleted, TurnRefused, TurnError
    <3>2. ~TaskCommand(n)
      BY <1>1, Undisturbed DEF TaskCommand, CancelBound, Cancellable, Cleanup, CleanupDirty,
         CleanupStarts, TasksKept
    <3> QED
      BY <1>6, <3>1, <3>2
  <2>2. UNCHANGED task \/ \E s \in TaskStatus : task' = [task EXCEPT ![m] = s]
    <3>1. CASE ServerEvent(m)
      <4>1. m \in Nodes
        BY DEF Bound
      <4> QED
        BY <1>1, <3>1, <4>1, NothingToResume
        DEF ServerEvent, ThreadStarted, ThreadRefused, TurnProceeds, ApprovalAsked,
            TurnCompleted, TurnRefused, TurnError, TaskStatus
    <3>2. CASE TaskCommand(m)
      BY <1>1, <3>2, Undisturbed DEF TaskCommand, CancelBound, CancelTask, Cleanup,
         CleanupDirty, TaskStatus
    <3> QED
      BY <1>6, <3>1, <3>2
  <2> QED
    BY <1>1, <2>1, <2>2
<1> QED
  BY <1>4, <1>5, <1>6 DEF Going

LEMMA WritesResults ==
  ASSUME TypeOK, LaunchInv, SyncIsTop, Next
  PROVE  Persist \/ UNCHANGED <<saved, result>>
<1>1. CASE Restart
  BY <1>1 DEF Restart
<1>2. CASE Going
  <2>1. CASE UNCHANGED saved
    <3>1. result \in ResultMap /\ result' \in ResultMap
      BY StepKeepsType DEF TypeOK
    <3>2. Persist \/ \A n \in Nodes : result'[n] = result[n]
      BY <1>2, ResultsBySync
    <3> QED
      BY <2>1, <3>1, <3>2 DEF ResultMap
  <2> QED
    BY <2>1, SavedByPersist
<1> QED
  BY <1>1, <1>2, Steps

LEMMA KeepsWorktrees ==
  ASSUME Inv, StartOnceInv, TasksKept, ResultsRest, Going, NEW n \in Nodes,
         task'[n] \notin {"none", "missing"}
  PROVE  n \in worktrees'
<1> USE DEF Inv, SupervisionInv
<1>1. StartsSucceed /\ task \in [Nodes -> TaskStatus]
  BY DEF TasksKept, TypeOK
<1>2. CASE task[n] = "none"
  <2>1. Starts(n)
    BY <1>2, TaskStep DEF TaskChange, Verdict
  <2>2. ~StartRefused(n)
    BY <1>2 DEF StartRefused, taskVars
  <2> QED
    BY <1>1, <1>2, <2>1, <2>2, StartForms DEF StartOverLimit, StartThread, Launching
<1>3. CASE task[n] # "none"
  <2>1. n \in worktrees
    BY <1>3, MissingSame DEF ResultsRest
  <2>2. worktrees \subseteq worktrees'
    <3>1. CASE HandlerStep
      <4>1. (\A m \in Nodes : ~Starts(m)) => UNCHANGED worktrees
        BY <3>1 DEF HandlerStep, Starts, Sync, Schedule, FinishSchedule, Requeue, BeginTurn,
           FinishCancel, FinishRecovery, CancelWorker, CancelUnbound, RecoverNode, taskVars
      <4>2. \A m \in Nodes : Starts(m) => worktrees \subseteq worktrees'
        BY <1>1, StartForms
        DEF StartRefused, StartOverLimit, StartThread, Launching, taskVars
      <4> QED
        BY <4>1, <4>2
    <3>2. CASE RunCommand
      BY <3>2 DEF RunCommand, StartRun, StartRunWithoutBase, PauseRun, ResumeRun, CancelRun,
         CancelNode, taskVars
    <3>3. ASSUME NEW m \in Bound, ServerEvent(m) \/ TaskCommand(m)
          PROVE  UNCHANGED worktrees
      BY <1>1, <3>3, Undisturbed
      DEF ServerEvent, ThreadStarted, ThreadRefused, Resumed, ResumeFails, ResumeRefused,
          ViewRefused, TurnProceeds, ApprovalAsked, TurnCompleted, TurnRefused, TurnError,
          TaskCommand, CancelBound, Cleanup, CleanupDirty, CleanupStarts, TasksKept
    <3> QED
      BY <3>1, <3>2, <3>3 DEF Going
  <2> QED
    BY <2>1, <2>2
<1> QED
  BY <1>2, <1>3

LEMMA RestartKeepsResults ==
  ASSUME Inv, TasksKept, ResultsRest, Restart
  PROVE  ResultsRest'
<1>1. Persist /\ result' = result
  BY DEF Restart, ResultsRest
<1>2. worktrees' = worktrees \cap saved.bound
  BY DEF Restart, TasksKept
<1>3. \A n \in Nodes : task'[n] = LoadedTask(n, {})
  BY DEF Restart, TasksKept
<1>4. ASSUME NEW n \in Nodes
      PROVE  /\ task'[n] \notin {"none", "missing"} => n \in worktrees'
             /\ n \in saved'.bound => task'[n] # "none"
             /\ result'[n] = "completed" => task'[n] = "completed" /\ n \in saved'.bound
  <2>1. task'[n] \notin {"none", "missing"} => n \in worktrees'
    BY <1>2, <1>3 DEF LoadedTask, ResultsRest
  <2>2. n \in saved'.bound <=> task'[n] # "none"
    BY <1>1, Written
  <2>3. result'[n] = "completed" => task'[n] = "completed"
    BY <1>1, <1>3 DEF LoadedTask, ResultsRest
  <2> QED
    BY <2>1, <2>2, <2>3
<1> QED
  BY <1>1, <1>4, Written DEF ResultsRest

LEMMA KeepsResultsRest ==
  ASSUME Inv, StartOnceInv, TasksKept, OneTurn, ResultsRest, Next
  PROVE  ResultsRest'
<1> USE DEF Inv, SupervisionInv
<1>1. CASE Restart
  BY <1>1, RestartKeepsResults
<1>2. CASE Going
  <2>1. saved'.result = result'
    BY WritesResults, Written DEF ResultsRest
  <2>2. ASSUME NEW n \in Nodes
        PROVE  /\ n \in saved'.bound => task'[n] # "none"
               /\ result'[n] = "completed" => task'[n] = "completed" /\ n \in saved'.bound
    <3>1. task'[n] = "none" => task[n] = "none"
      BY <1>2, BoundStays
    <3>2. n \in saved'.bound => task'[n] # "none"
      BY <3>1, WritesResults, Written DEF ResultsRest
    <3>3. result'[n] = "completed" => task'[n] = "completed"
      <4>1. CASE result'[n] = result[n]
        BY <1>2, <4>1, CompletedStays DEF ResultsRest
      <4>2. CASE result'[n] # result[n]
        BY <1>2, <4>2, ResultsBySync
      <4> QED
        BY <4>1, <4>2
    <3>4. result'[n] = "completed" => n \in saved'.bound
      <4>1. CASE Persist
        BY <3>3, <4>1, Written
      <4>2. CASE UNCHANGED <<saved, result>>
        BY <4>2 DEF ResultsRest
      <4> QED
        BY <4>1, <4>2, WritesResults
    <3> QED
      BY <3>2, <3>3, <3>4
  <2> QED
    BY <1>2, <2>1, <2>2, KeepsWorktrees DEF ResultsRest
<1> QED
  BY <1>1, <1>2, Steps

LEMMA ResultInvStep ==
  ASSUME Inv, StartOnceInv, TasksKept, ResultInv, [Next]_vars
  PROVE  ResultInv'
<1>1. CASE UNCHANGED vars
  BY <1>1
  DEF vars, runVars, taskVars, turnVars, ResultInv, OneTurn, TurnInOrder, ResultsRest
<1>2. CASE Next
  <2>1. StartsSucceed
    BY DEF TasksKept
  <2>2. SendsFirst(stack')
    BY <1>2, <2>1, KeepsSendsFirst DEF ResultInv
  <2>3. OneTurn'
    BY <1>2, KeepsOneTurn DEF ResultInv, OneTurn
  <2> QED
    BY <1>2, <2>2, <2>3, KeepsResultsRest DEF ResultInv
<1> QED
  BY <1>1, <1>2

\* As long as starts succeed, no task loses its worktree and every thread asked
\* for after a restart is resumed, a task that has completed stays so, and the registry keeps what its dependents were given.
THEOREM ResultsStay == ASSUME TasksKept PROVE Spec => []ResultInv
<1>1. Init => ResultInv
  <2> SUFFICES ASSUME Init PROVE ResultInv
    OBVIOUS
  <2>1. NodesIn(stack, "sending") = {} /\ SendsFirst(stack)
    BY NodesEmpty DEF Init, SendsFirst
  <2>2. OneTurn
    BY <2>1 DEF Init, OneTurn, TurnInOrder
  <2>3. ResultsRest
    BY DEF Init, ResultsRest, Snapshot, Bound
  <2> QED
    BY <2>1, <2>2, <2>3 DEF ResultInv
<1>2. StartsSucceed
  BY DEF TasksKept
<1>3. TypeOK /\ LaunchInv /\ SupervisionInv /\ StartOnceInv /\ ResultInv /\ [Next]_vars
      => ResultInv'
  BY ResultInvStep DEF Inv
<1>4. Spec => []StartOnceInv
  BY <1>2, StartsOnce
<1> QED
  BY <1>1, <1>3, <1>4, TypeCorrect, LaunchInvariant, SupervisionInvariant, PTL DEF Spec

\* Under these conditions the result that a dependent received stays the result
\* of its dependency, over every step and every restart: what changes one is
\* another start of the task, a worktree that fails, vanishes or is cleaned up,
\* or an error to thread/resume, which fails the task whatever it was
\* (controller.py:1397) and whose sync assigns node.result again (1149).
THEOREM ResultsAreFinal == ASSUME TasksKept PROVE Spec => ResultImmutable
<1>1. ASSUME TypeOK, LaunchInv, SupervisionInv, ResultInv, [Next]_vars, NEW n \in Nodes,
             result[n] = "completed"
      PROVE  result'[n] = "completed"
  <2>1. CASE UNCHANGED vars
    BY <1>1, <2>1 DEF vars, runVars
  <2>2. CASE Restart
    BY <1>1, <2>2 DEF Restart, ResultInv, ResultsRest
  <2>3. CASE Going
    BY <1>1, <2>3, ResultsBySync DEF ResultInv, ResultsRest, SupervisionInv
  <2> QED
    BY <1>1, <2>1, <2>2, <2>3, Steps
<1>2. /\ TypeOK /\ LaunchInv /\ SupervisionInv /\ ResultInv /\ [Next]_vars
      => [\A n \in Nodes : result[n] = "completed" => result'[n] = "completed"]_vars
  BY <1>1
<1> QED
  BY <1>2, ResultsStay, TypeCorrect, LaunchInvariant, SupervisionInvariant, PTL
  DEF Spec, ResultImmutable
=============================================================================
