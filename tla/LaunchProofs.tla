---------------------------- MODULE LaunchProofs ----------------------------
(***************************************************************************)
(* For every plan, every limit and every number of restarts: the variables *)
(* of Orchestration keep their types, a node is launched only when its     *)
(* dependencies have succeeded, and only while the run is RUNNING.  The    *)
(* invariant LaunchInv is shown inductive; its parts rest on three facts   *)
(* about a single step: only Schedule puts nodes into the lists of the     *)
(* starting calls (HeldByHandler), only a restart undoes a success or a    *)
(* launch (Monotonic), and only a node of the list in progress is launched *)
(* (LaunchesHeld).                                                         *)
(***************************************************************************)
EXTENDS Orchestration, SequenceTheorems, TLAPS

-----------------------------------------------------------------------------
(* The call stack as the set of its frames.                                *)

Frame == [name : CallNames, of : SUBSET Nodes]
Frames(s) == {s[i] : i \in 1 .. Len(s)}

LEMMA CallIsFrame ==
  ASSUME NEW name \in CallNames, NEW S \in SUBSET Nodes
  PROVE  Call(name, S) \in Frame
BY DEF Call, Frame

LEMMA Empty == <<>> \in Seq(Frame) /\ Frames(<<>>) = {}
BY DEF Frames

LEMMA Push ==
  ASSUME NEW s \in Seq(Frame), NEW c \in Frame
  PROVE  /\ Append(s, c) \in Seq(Frame)
         /\ Append(s, c) # <<>>
         /\ Frames(Append(s, c)) = Frames(s) \cup {c}
BY AppendProperties DEF Frames

LEMMA Single ==
  ASSUME NEW c \in Frame
  PROVE  <<c>> \in Seq(Frame) /\ Frames(<<c>>) = {c}
BY DEF Frames

LEMMA PopParts ==
  ASSUME NEW s \in Seq(Frame), s # <<>>
  PROVE  /\ SubSeq(s, 1, Len(s) - 1) \in Seq(Frame)
         /\ Len(SubSeq(s, 1, Len(s) - 1)) = Len(s) - 1
         /\ \A i \in 1 .. Len(s) - 1 : SubSeq(s, 1, Len(s) - 1)[i] = s[i]
<1>1. Len(s) \in Nat \ {0}
  BY EmptySeq
<1>2. PICK k \in Nat : Len(s) = k + 1
  BY <1>1, Len(s) - 1 \in Nat, Len(s) = (Len(s) - 1) + 1
<1>3. \A i \in 1 .. k : s[i] \in Frame
  BY <1>1, <1>2, ElementOfSeq
<1>4. /\ SubSeq(s, 1, k) \in Seq(Frame)
      /\ Len(SubSeq(s, 1, k)) = IF 1 <= k THEN k - 1 + 1 ELSE 0
      /\ \A i \in 1 .. k - 1 + 1 : SubSeq(s, 1, k)[i] = s[1 + i - 1]
  <2> HIDE <1>1, <1>2
  <2> QED  BY <1>3, SubSeqProperties, 1 \in Int, k \in Int
<1> QED
  BY <1>2, <1>4, k = Len(s) - 1

LEMMA Pop ==
  ASSUME NEW s \in Seq(Frame), s # <<>>
  PROVE  /\ SubSeq(s, 1, Len(s) - 1) \in Seq(Frame)
         /\ s[Len(s)] \in Frames(s)
         /\ s[Len(s)] \in Frame
         /\ Frames(SubSeq(s, 1, Len(s) - 1)) \subseteq Frames(s)
<1>1. Len(s) \in Nat \ {0} /\ s[Len(s)] \in Frame
  BY EmptySeq, ElementOfSeq
<1> QED
  BY <1>1, PopParts DEF Frames

-----------------------------------------------------------------------------
(* Type correctness.                                                       *)

LEMMA SyncedStatusType ==
  ASSUME NEW st \in NodeStatus, NEW s \in TaskStatus
  PROVE  SyncedStatus(st, s) \in NodeStatus
BY DEF SyncedStatus, Verdict, NodeStatus, TaskStatus

LEMMA RecomputedType ==
  ASSUME NEW r \in RunStatus, NEW st
  PROVE  Recomputed(r, st) \in RunStatus
BY DEF Recomputed, Outcome, RunStatus

\* What the call in progress is, when there is one.
LEMMA TopFrame ==
  ASSUME TypeOK, stack # <<>>
  PROVE  /\ Below \in Seq(Frame)
         /\ Args \subseteq Nodes
         /\ stack[Len(stack)] \in Frame
         /\ Frames(Below) \subseteq Frames(stack)
         /\ stack[Len(stack)] \in Frames(stack)
BY Pop DEF TypeOK, Below, Args, Frame

LEMMA NextFrame ==
  ASSUME TypeOK, stack # <<>>, NEW n
  PROVE  NextOf(n) \in Seq(Frame)
<1>1. Call(stack[Len(stack)].name, Args \ {n}) \in Frame
  BY TopFrame DEF Call, Frame, Args
<1> QED
  BY <1>1, TopFrame, Push DEF NextOf

LEMMA ScheduleFrame ==
  ASSUME NEW s \in Seq(Frame)
  PROVE  /\ Append(s, Call("schedule", {})) \in Seq(Frame)
         /\ <<Call("schedule", {})>> \in Seq(Frame)
<1>1. Call("schedule", {}) \in Frame
  BY DEF Call, Frame, CallNames
<1> QED
  BY <1>1, Push, Single

LEMMA SyncFrame ==
  ASSUME NEW n \in Nodes, NEW below \in Seq(Frame), ThenSync(n, below)
  PROVE  stack' \in Seq(Frame)
BY CallIsFrame, Push DEF ThenSync, CallNames

LEMMA SendFrame ==
  ASSUME NEW n \in Nodes, NEW below \in Seq(Frame), ThenSend(n, below)
  PROVE  stack' \in Seq(Frame)
<1>1. Call("sending", {n}) \in Frame /\ Call("sync", {n}) \in Frame
  BY CallIsFrame DEF CallNames
<1>2. Append(below, Call("sending", {n})) \in Seq(Frame)
  BY <1>1, Push
<1> QED
  BY <1>1, <1>2, Push DEF ThenSend

LEMMA BeginThreadType ==
  ASSUME NEW n \in Nodes, NEW below \in Seq(Frame), BeginThread(n, below),
         task \in [Nodes -> TaskStatus], starts \in [Nodes -> Nat], resumes \in [Nodes -> Nat]
  PROVE  /\ stack' \in Seq(Frame)
         /\ task' \in [Nodes -> TaskStatus]
         /\ starts' \in [Nodes -> Nat] /\ resumes' \in [Nodes -> Nat]
         /\ UNCHANGED <<threads, turns, cancelReq, resumable>>
<1>1. UNCHANGED <<threads, turns, cancelReq, resumable>>
  BY DEF BeginThread
<1>2. CASE task' = [task EXCEPT ![n] = "running"] /\ ThenSend(n, below) /\ UNCHANGED <<starts, resumes>>
  BY <1>1, <1>2, SendFrame DEF TaskStatus
<1>3. CASE /\ task' = [task EXCEPT ![n] = "ready"] /\ stack' = below
           /\ starts' = [starts EXCEPT ![n] = @ + 1] /\ UNCHANGED resumes
  <2>1. task' \in [Nodes -> TaskStatus]
    BY <1>3 DEF TaskStatus
  <2> QED
    BY <1>1, <1>3, <2>1
<1>4. CASE /\ task' = [task EXCEPT ![n] = "ready"] /\ stack' = below
           /\ resumes' = [resumes EXCEPT ![n] = @ + 1] /\ UNCHANGED starts
  <2>1. task' \in [Nodes -> TaskStatus]
    BY <1>4 DEF TaskStatus
  <2> QED
    BY <1>1, <1>4, <2>1
<1> QED
  BY <1>2, <1>3, <1>4 DEF BeginThread

SavedType == [run : RunStatus, node : NodeMap, result : ResultMap, bound : SUBSET Nodes]

LEMMA SnapshotType ==
  ASSUME run' \in RunStatus, node' \in NodeMap, result' \in ResultMap, Persist
  PROVE  saved' \in SavedType
BY DEF Persist, Snapshot, Bound, SavedType

LEMMA SyncKeepsType ==
  ASSUME TypeOK, Sync
  PROVE  TypeOK'
<1> USE DEF TypeOK
<1>1. stack # <<>> /\ UNCHANGED <<taskVars, bounds>>
  BY DEF Sync, Running
<1>2. PICK n \in Args :
        IF Followed(n) = node[n] \/ Followed(n) \in NodeMoves[node[n]]
          THEN /\ node' = [node EXCEPT ![n] = Followed(n)]
               /\ result' = [result EXCEPT ![n] = Summary(n)]
               /\ IF run \in {"running", "paused"}
                    THEN stack' = Append(Below, Call("schedule", {})) /\ UNCHANGED run
                    ELSE stack' = Below /\ run' = Recomputed(run, node')
               /\ Persist
          ELSE stack' = <<>> /\ UNCHANGED runVars
  BY DEF Sync
<1>3. n \in Nodes
  BY <1>1, TopFrame
<1>4. CASE UNCHANGED runVars /\ stack' = <<>>
  BY <1>1, <1>4, Empty DEF runVars, taskVars, turnVars, bounds, Frame
<1>5. CASE ~(UNCHANGED runVars /\ stack' = <<>>)
  <2>1. Followed(n) \in NodeStatus
    BY <1>3, SyncedStatusType DEF Followed, NodeMap
  <2>2. Summary(n) \in Reported \cup {"none"}
    BY <1>3 DEF Summary, ResultMap
  <2> HIDE DEF TypeOK
  <2>7. /\ node' = [node EXCEPT ![n] = Followed(n)]
        /\ result' = [result EXCEPT ![n] = Summary(n)]
    BY <1>2, <1>5
  <2>8. node \in NodeMap /\ result \in ResultMap
    BY DEF TypeOK
  <2>3. node' \in NodeMap /\ result' \in ResultMap
    BY <2>1, <2>2, <2>7, <2>8 DEF NodeMap, ResultMap
  <2> USE DEF TypeOK
  <2>4. run' \in RunStatus
    BY <1>2, <1>5, RecomputedType
  <2>5. stack' \in Seq(Frame)
    BY <1>1, <1>2, <1>5, TopFrame, ScheduleFrame
  <2>6. saved' \in SavedType
    BY <1>2, <1>5, <2>3, <2>4, SnapshotType
  <2> QED
    BY <1>1, <2>3, <2>4, <2>5, <2>6 DEF taskVars, turnVars, bounds, Frame, SavedType
<1> QED
  BY <1>4, <1>5

LEMMA StartingKeepsType ==
  ASSUME TypeOK, NEW n \in Nodes,
         \/ StartRefused(n) \/ StartWithoutWorktree(n) \/ StartSettled(n)
         \/ StartUnusable(n) \/ StartOverLimit(n) \/ StartThread(n)
  PROVE  TypeOK'
<1> USE DEF TypeOK
<1>1. stack # <<>>
  BY DEF StartRefused, StartWithoutWorktree, StartSettled, StartUnusable,
         StartOverLimit, StartThread, Launching, Starting, Running
<1>2. NextOf(n) \in Seq(Frame)
  BY <1>1, NextFrame
<1>3. Entered(n) \in NodeStatus /\ Launched(n) \in NodeMap
  BY DEF Entered, Launched, NodeMap, NodeStatus
<1>4. [node EXCEPT ![n] = Entered(n)] \in NodeMap /\ [node EXCEPT ![n] = "failed"] \in NodeMap
  BY <1>3 DEF NodeMap, NodeStatus
<1>5. <<>> \in Seq(Frame)
  BY Empty
<1>6. \A s \in TaskStatus : [task EXCEPT ![n] = s] \in [Nodes -> TaskStatus]
  OBVIOUS
<1>7. {"failed", "ready", "running"} \subseteq TaskStatus
  BY DEF TaskStatus
<1>8. CASE StartRefused(n)
  BY <1>2, <1>4, <1>5, <1>8 DEF StartRefused, taskVars, turnVars, bounds, Frame
<1>9. CASE StartWithoutWorktree(n)
  BY <1>2, <1>4, <1>6, <1>7, <1>9, SyncFrame DEF StartWithoutWorktree, turnVars, bounds, Frame
<1>10. CASE StartSettled(n)
  BY <1>2, <1>3, <1>4, <1>10, SyncFrame DEF StartSettled, taskVars, turnVars, bounds, Frame
<1>11. CASE StartUnusable(n)
  BY <1>2, <1>3, <1>6, <1>7, <1>11, SyncFrame DEF StartUnusable, Launching, turnVars, bounds, Frame
<1>12. CASE StartOverLimit(n)
  <2>1. Append(NextOf(n), Call("requeue", {n})) \in Seq(Frame)
    <3>1. Call("requeue", {n}) \in Frame
      BY DEF Call, Frame, CallNames
    <3> QED  BY <1>2, <3>1, Push
  <2> QED
    BY <1>3, <1>6, <1>7, <1>12, <2>1, SyncFrame DEF StartOverLimit, Launching, turnVars, bounds, Frame
<1>13. CASE StartThread(n)
  <2>1. stack' \in Seq(Frame)
    BY <1>2, <1>13, BeginThreadType DEF StartThread
  <2>2. /\ task' \in [Nodes -> TaskStatus]
        /\ starts' \in [Nodes -> Nat] /\ resumes' \in [Nodes -> Nat]
        /\ UNCHANGED <<threads, turns, cancelReq, resumable>>
    BY <1>2, <1>13, BeginThreadType DEF StartThread
  <2> QED
    BY <1>3, <1>13, <2>1, <2>2 DEF StartThread, Launching, bounds, Frame
<1> QED
  BY <1>8, <1>9, <1>10, <1>11, <1>12, <1>13

LEMMA HandlerKeepsType ==
  ASSUME TypeOK, HandlerStep
  PROVE  TypeOK'
<1> USE DEF TypeOK
<1>1. CASE Sync
  BY <1>1, SyncKeepsType
<1>2. CASE Schedule
  <2>1. stack # <<>> /\ run' = run
    BY <1>2 DEF Schedule, Running
  <2>2. node' \in NodeMap
    BY <1>2 DEF Schedule, NodeMap, NodeStatus
  <2>3. Chosen(node, run = "paused") \in SUBSET Nodes
    BY DEF Chosen, Startable, Waiting
  <2>4. Call("starting", Chosen(node, run = "paused")) \in Frame
    BY <2>3 DEF Call, Frame, CallNames
  <2>6. Below \in Seq(Frame)
    BY <2>1, TopFrame
  <2>7. Append(Below, Call("starting", Chosen(node, run = "paused"))) \in Seq(Frame)
    BY <2>4, <2>6, Push
  <2>5. stack' \in Seq(Frame)
    BY <1>2, <2>6, <2>7 DEF Schedule
  <2> QED
    BY <1>2, <2>2, <2>5 DEF Schedule, taskVars, turnVars, bounds, Frame
<1>3. CASE FinishSchedule
  <2>1. stack # <<>>
    BY <1>3 DEF FinishSchedule, Running
  <2>2. run' \in RunStatus /\ node' \in NodeMap /\ result' \in ResultMap
    BY <1>3, RecomputedType DEF FinishSchedule
  <2>3. saved' \in SavedType
    BY <1>3, <2>2, SnapshotType DEF FinishSchedule
  <2> QED
    BY <1>3, <2>1, <2>2, <2>3, TopFrame DEF FinishSchedule, taskVars, turnVars, bounds, Frame, SavedType
<1>4. CASE Requeue
  <2>1. stack # <<>>
    BY <1>4 DEF Requeue, Running
  <2>2. stack' \in Seq(Frame) /\ node' \in NodeMap
    BY <1>4, <2>1, TopFrame, Empty DEF Requeue, NodeMap, NodeStatus
  <2> QED
    BY <1>4, <2>2 DEF Requeue, taskVars, turnVars, bounds, Frame
<1>5. CASE BeginTurn
  <2>1. stack # <<>>
    BY <1>5 DEF BeginTurn, Running
  <2>2. turns' \in [Nodes -> Nat] /\ cancelReq' \subseteq Nodes
    <3>1. PICK n \in Args : /\ turns' = [turns EXCEPT ![n] = @ + 1]
                            /\ cancelReq' = cancelReq \ {n}
      BY <1>5 DEF BeginTurn
    <3> QED  BY <2>1, <3>1, TopFrame
  <2> QED
    BY <1>5, <2>1, <2>2, TopFrame DEF BeginTurn, runVars, bounds, Frame
<1>6. CASE FinishCancel
  <2>1. stack # <<>>
    BY <1>6 DEF FinishCancel, Running
  <2>2. run' \in RunStatus /\ node' \in NodeMap /\ result' \in ResultMap
    BY <1>6 DEF FinishCancel, RunStatus
  <2>3. saved' \in SavedType
    BY <1>6, <2>2, SnapshotType DEF FinishCancel, SavedType
  <2>4. stack' \in Seq(Frame)
    BY <1>6, <2>1, TopFrame, Empty DEF FinishCancel
  <2> QED
    BY <1>6, <2>2, <2>3, <2>4 DEF FinishCancel, taskVars, turnVars, bounds, Frame, SavedType
<1>7. CASE FinishRecovery
  BY <1>7, TopFrame DEF FinishRecovery, Running, runVars, taskVars, turnVars, bounds, Frame
<1>8. ASSUME NEW n \in Nodes,
             \/ StartRefused(n) \/ StartWithoutWorktree(n) \/ StartSettled(n)
             \/ StartUnusable(n) \/ StartOverLimit(n) \/ StartThread(n)
      PROVE  TypeOK'
  BY <1>8, StartingKeepsType
<1>9. ASSUME NEW n \in Nodes, CancelWorker(n) \/ CancelUnbound(n) \/ RecoverNode(n)
      PROVE  TypeOK'
  <2>1. stack # <<>>
    BY <1>9 DEF CancelWorker, CancelUnbound, RecoverNode, Cancelling, Running
  <2>2. NextOf(n) \in Seq(Frame)
    BY <2>1, NextFrame
  <2>3. CASE CancelWorker(n)
    <3>1. stack' \in Seq(Frame) /\ task' \in [Nodes -> TaskStatus] /\ cancelReq' \subseteq Nodes
      BY <2>2, <2>3, SyncFrame DEF CancelWorker, CancelTask, TaskStatus
    <3> QED
      BY <2>3, <3>1 DEF CancelWorker, runVars, bounds, Frame
  <2>4. CASE CancelUnbound(n)
    <3>1. node' \in NodeMap
      BY <2>4 DEF CancelUnbound, NodeMap, NodeStatus
    <3> QED
      BY <2>2, <2>4, <3>1 DEF CancelUnbound, taskVars, turnVars, bounds, Frame
  <2>5. CASE RecoverNode(n)
    BY <2>2, <2>5, SyncFrame DEF RecoverNode, runVars, taskVars, turnVars, bounds, Frame
  <2> QED
    BY <1>9, <2>3, <2>4, <2>5
<1> QED
  BY <1>1, <1>2, <1>3, <1>4, <1>5, <1>6, <1>7, <1>8, <1>9 DEF HandlerStep

LEMMA RunCommandKeepsType ==
  ASSUME TypeOK, RunCommand
  PROVE  TypeOK'
<1> USE DEF TypeOK
<1>1. ASSUME run' \in RunStatus, node' \in NodeMap, stack' \in Seq(Frame), Persist,
             UNCHANGED <<result, taskVars, bounds>>
      PROVE  TypeOK'
  BY <1>1, SnapshotType DEF taskVars, turnVars, bounds, Frame, SavedType
<1>2. {"running", "failed", "paused"} \subseteq RunStatus
  BY DEF RunStatus
<1>3. <<Call("schedule", {})>> \in Seq(Frame) /\ stack \in Seq(Frame)
  BY ScheduleFrame, Empty DEF Frame
<1>4. CASE StartRun
  BY <1>1, <1>2, <1>3, <1>4 DEF StartRun
<1>5. CASE StartRunWithoutBase
  BY <1>1, <1>2, <1>3, <1>5 DEF StartRunWithoutBase
<1>6. CASE PauseRun
  BY <1>1, <1>2, <1>3, <1>6 DEF PauseRun
<1>7. CASE ResumeRun
  BY <1>1, <1>2, <1>3, <1>7 DEF ResumeRun
<1>8. CASE CancelRun
  <2>1. <<Call("cancelling", Nodes)>> \in Seq(Frame)
    BY Single DEF Call, Frame, CallNames
  <2> QED
    BY <1>8, <2>1 DEF CancelRun, runVars, taskVars, turnVars, bounds, Frame
<1>9. ASSUME NEW n \in Nodes, CancelNode(n)
      PROVE  TypeOK'
  <2>1. node' \in NodeMap
    BY <1>9 DEF CancelNode, NodeMap, NodeStatus
  <2> QED
    BY <1>1, <1>3, <1>9, <2>1 DEF CancelNode
<1> QED
  BY <1>4, <1>5, <1>6, <1>7, <1>8, <1>9 DEF RunCommand

LEMMA TaskEventKeepsType ==
  ASSUME TypeOK, NEW n \in Nodes, ServerEvent(n) \/ TaskCommand(n)
  PROVE  TypeOK'
<1>0. /\ task \in [Nodes -> TaskStatus] /\ starts \in [Nodes -> Nat] /\ turns \in [Nodes -> Nat]
      /\ resumable \subseteq Nodes /\ resumes \in [Nodes -> Nat]
      /\ worktrees \subseteq Nodes /\ threads \subseteq Nodes /\ cancelReq \subseteq Nodes
      /\ manual \in Nat /\ stack \in Seq(Frame)
  BY DEF TypeOK, Frame
<1> DEFINE Sane == /\ stack' \in Seq(Frame)
                   /\ task' \in [Nodes -> TaskStatus]
                   /\ starts' \in [Nodes -> Nat] /\ turns' \in [Nodes -> Nat]
                   /\ UNCHANGED resumable /\ resumes' \in [Nodes -> Nat]
<1>1. ASSUME Sane, UNCHANGED runVars, manual' \in Nat, UNCHANGED restarts,
             worktrees' \subseteq Nodes, threads' \subseteq Nodes, cancelReq' \subseteq Nodes
      PROVE  TypeOK'
  BY <1>1 DEF TypeOK, runVars, Frame
<1>2. \A s \in TaskStatus : [task EXCEPT ![n] = s] \in [Nodes -> TaskStatus]
  BY <1>0
<1>3. {"ready", "running", "completed", "failed", "cancelled", "archived", "orphaned"} \subseteq TaskStatus
  BY DEF TaskStatus
<1>4. <<>> \in Seq(Frame) /\ stack \in Seq(Frame)
  BY <1>0, Empty
<1>5. ThenSync(n, <<>>) => stack' \in Seq(Frame)
  BY <1>4, SyncFrame
<1>6. ThenSend(n, <<>>) => stack' \in Seq(Frame)
  BY <1>4, SendFrame
<1>7. /\ [starts EXCEPT ![n] = @ + 1] \in [Nodes -> Nat]
      /\ starts[n] > 0 => [starts EXCEPT ![n] = @ - 1] \in [Nodes -> Nat]
      /\ turns[n] > 0 => [turns EXCEPT ![n] = @ - 1] \in [Nodes -> Nat]
      /\ resumes[n] > 0 => [resumes EXCEPT ![n] = @ - 1] \in [Nodes -> Nat]
  BY <1>0
<1> USE <1>0, <1>1, <1>2, <1>3, <1>4, <1>5, <1>6, <1>7
<1>8. CASE ThreadStarted(n)
  <2>1. task' \in [Nodes -> TaskStatus]
    BY <1>8 DEF ThreadStarted
  <2>2. <<Call("sending", {n})>> \in Seq(Frame)
    BY Single DEF Call, Frame, CallNames
  <2>3. stack' \in Seq(Frame)
    BY <1>8, <2>2 DEF ThreadStarted
  <2> QED
    BY <1>8, <2>1, <2>3 DEF ThreadStarted, bounds
<1>9. CASE ThreadRefused(n)
  BY <1>9 DEF ThreadRefused, bounds
<1>10. CASE TurnProceeds(n) \/ ApprovalAsked(n) \/ TurnError(n)
  BY <1>10 DEF TurnProceeds, ApprovalAsked, TurnError, turnVars, bounds
<1>11. ASSUME NEW outcome \in {"completed", "failed"}, TurnCompleted(n, outcome)
       PROVE  TypeOK'
  <2>1. task' \in [Nodes -> TaskStatus]
    BY <1>11 DEF TurnCompleted
  <2>2. Sane
    BY <1>11, <2>1 DEF TurnCompleted
  <2> QED
    BY <1>11, <2>2 DEF TurnCompleted, bounds
<1>12. CASE TurnRefused(n)
  BY <1>12 DEF TurnRefused, bounds
<1>13. CASE CancelBound(n)
  <2>1. Sane
    BY <1>13 DEF CancelBound, CancelTask
  <2> QED
    BY <1>13, <2>1 DEF CancelBound, CancelTask, bounds
<1>14. CASE UserStart(n)
  <2>1. BeginThread(n, <<>>)
    BY <1>14 DEF UserStart
  <2>2. Sane
    BY <1>4, <1>14, <2>1, BeginThreadType DEF UserStart
  <2>3. UNCHANGED <<threads, cancelReq>>
    BY <2>1 DEF BeginThread
  <2> QED
    BY <1>14, <2>2, <2>3 DEF UserStart, Manually
<1>15. CASE UserStartOverLimit(n)
  BY <1>15 DEF UserStartOverLimit, Manually, turnVars
<1>16. CASE UserStartUnusable(n)
  BY <1>16 DEF UserStartUnusable, Manually, turnVars
<1>17. CASE UserSends(n)
  BY <1>17 DEF UserSends, Manually, turnVars
<1>18. CASE Cleanup(n) \/ CleanupDirty(n)
  BY <1>18 DEF Cleanup, CleanupDirty, turnVars, bounds
<1>19. CASE Resumed(n)
  <2>1. Sane
    BY <1>19 DEF Resumed
  <2> QED
    BY <1>19, <2>1 DEF Resumed, bounds
<1>20. CASE ResumeRefused(n) \/ ViewRefused(n)
  <2>1. Sane
    BY <1>20 DEF ResumeRefused, ViewRefused, ResumeFails
  <2> QED
    BY <1>20, <2>1 DEF ResumeRefused, ViewRefused, ResumeFails, bounds
<1>21. CASE OpenUnusable(n)
  <2>1. task' \in [Nodes -> TaskStatus]
    BY <1>21 DEF OpenUnusable
  <2>2. stack' \in Seq(Frame) /\ UNCHANGED turnVars
    BY <1>21 DEF OpenUnusable
  <2>3. Sane
    BY <2>1, <2>2 DEF turnVars
  <2> QED
    BY <1>21, <2>3 DEF OpenUnusable, Manually, turnVars
<1> QED
  BY <1>8, <1>9, <1>10, <1>11, <1>12, <1>13, <1>14, <1>15, <1>16, <1>17, <1>18, <1>19, <1>20, <1>21
  DEF ServerEvent, TaskCommand

LEMMA RestartKeepsType ==
  ASSUME TypeOK, Restart
  PROVE  TypeOK'
<1> USE DEF TypeOK
<1>1. PICK gone \in SUBSET worktrees :
        /\ task' = [n \in Nodes |-> LoadedTask(n, gone)]
        /\ worktrees' = (worktrees \cap saved.bound) \ gone
  BY DEF Restart
<1>2. task' \in [Nodes -> TaskStatus] /\ worktrees' \subseteq Nodes
  BY <1>1 DEF LoadedTask, TaskStatus
<1>3. run' \in RunStatus
  BY DEF Restart, LoadedRun, RunStatus
<1>4. node' \in NodeMap
  BY DEF Restart, LoadedNode, NodeMap, NodeStatus
<1>5. result' \in ResultMap
  BY DEF Restart
<1>6. saved' \in SavedType
  BY <1>3, <1>4, <1>5, SnapshotType DEF Restart
<1>7. Call("recovering", {n \in Nodes : Syncs(task'[n])}) \in Frame
  BY DEF Call, Frame, CallNames
<1>8. stack' \in Seq(Frame)
  BY <1>7, Single DEF Restart
<1>9. /\ starts' \in [Nodes -> Nat] /\ turns' \in [Nodes -> Nat]
      /\ threads' \subseteq Nodes /\ cancelReq' \subseteq Nodes
      /\ resumable' \subseteq Nodes /\ resumes' \in [Nodes -> Nat]
      /\ manual' \in Nat /\ restarts' \in Nat
  BY DEF Restart
<1> QED
  BY <1>2, <1>3, <1>4, <1>5, <1>6, <1>8, <1>9 DEF Frame, SavedType

\* Every variable keeps its type.
THEOREM TypeCorrect == Spec => []TypeOK
<1>1. Init => TypeOK
  <2> SUFFICES ASSUME Init PROVE TypeOK
    OBVIOUS
  <2>1. saved \in SavedType
    BY DEF Init, Snapshot, SavedType, RunStatus, NodeMap, NodeStatus, ResultMap, Bound
  <2> QED
    BY <2>1, Empty DEF Init, TypeOK, SavedType, RunStatus, NodeMap, NodeStatus,
       ResultMap, TaskStatus, Frame
<1>2. TypeOK /\ [Next]_vars => TypeOK'
  <2> SUFFICES ASSUME TypeOK, [Next]_vars PROVE TypeOK'
    OBVIOUS
  <2>1. CASE UNCHANGED vars
    BY <2>1 DEF TypeOK, vars, runVars, taskVars, turnVars, bounds
  <2>2. CASE Next
    BY <2>2, HandlerKeepsType, RunCommandKeepsType, TaskEventKeepsType, RestartKeepsType
    DEF Next, Bound
  <2> QED
    BY <2>1, <2>2
<1> QED
  BY <1>1, <1>2, PTL DEF Spec

-----------------------------------------------------------------------------
(* The lists on the stack, and the calls at its bottom.                    *)

Walk == {"cancelling", "recovering"}
ListOf(c) == IF c.name = "starting" THEN c.of ELSE {}

LEMMA HeldEmpty == HeldIn(<<>>) = {} /\ AtBottom(<<>>)
BY DEF HeldIn, AtBottom

LEMMA HeldSingle ==
  ASSUME NEW c \in Frame
  PROVE  HeldIn(<<c>>) = ListOf(c) /\ AtBottom(<<c>>)
BY DEF HeldIn, AtBottom, ListOf

LEMMA HeldPush ==
  ASSUME NEW s \in Seq(Frame), NEW c \in Frame
  PROVE  /\ HeldIn(Append(s, c)) = HeldIn(s) \cup ListOf(c)
         /\ AtBottom(s) /\ (c.name \in Walk => s = <<>>) => AtBottom(Append(s, c))
<1> DEFINE t == Append(s, c)
<1>1. /\ Len(s) \in Nat /\ Len(t) = Len(s) + 1
      /\ \A i \in 1 .. Len(s) : t[i] = s[i]
      /\ t[Len(s) + 1] = c
  BY AppendProperties, LenProperties
<1>2. HeldIn(t) = HeldIn(s) \cup ListOf(c)
  <2>1. ASSUME NEW n \in HeldIn(t)
        PROVE  n \in HeldIn(s) \cup ListOf(c)
    <3>1. PICK i \in 1 .. Len(t) : t[i].name = "starting" /\ n \in t[i].of
      BY <2>1 DEF HeldIn
    <3>2. CASE i = Len(s) + 1
      BY <1>1, <3>1, <3>2 DEF ListOf
    <3>3. CASE i \in 1 .. Len(s)
      BY <1>1, <3>1, <3>3 DEF HeldIn
    <3> QED  BY <1>1, <3>2, <3>3
  <2>2. ASSUME NEW n \in HeldIn(s)
        PROVE  n \in HeldIn(t)
    <3>1. PICK i \in 1 .. Len(s) : s[i].name = "starting" /\ n \in s[i].of
      BY <2>2 DEF HeldIn
    <3>2. i \in 1 .. Len(t) /\ t[i] = s[i]
      BY <1>1
    <3> HIDE DEF t
    <3> QED  BY <3>1, <3>2 DEF HeldIn
  <2>3. ASSUME NEW n \in ListOf(c)
        PROVE  n \in HeldIn(t)
    <3>1. Len(s) + 1 \in 1 .. Len(t)
      BY <1>1
    <3> HIDE DEF t
    <3> QED  BY <1>1, <2>3, <3>1 DEF HeldIn, ListOf
  <2> QED  BY <2>1, <2>2, <2>3
<1>3. ASSUME AtBottom(s), c.name \in Walk => s = <<>>
      PROVE  AtBottom(t)
  <2>1. s = <<>> => Len(s) = 0
    OBVIOUS
  <2> HIDE DEF t
  <2> QED  BY <1>1, <1>3, <2>1 DEF AtBottom, Walk
<1> QED
  BY <1>2, <1>3

LEMMA HeldPop ==
  ASSUME NEW s \in Seq(Frame), s # <<>>
  PROVE  /\ HeldIn(SubSeq(s, 1, Len(s) - 1)) \subseteq HeldIn(s)
         /\ ListOf(s[Len(s)]) \subseteq HeldIn(s)
         /\ AtBottom(s) =>
              /\ AtBottom(SubSeq(s, 1, Len(s) - 1))
              /\ s[Len(s)].name \in Walk => SubSeq(s, 1, Len(s) - 1) = <<>>
<1> DEFINE b == SubSeq(s, 1, Len(s) - 1)
<1>1. Len(s) \in Nat \ {0}
  BY EmptySeq
<1>2. /\ b \in Seq(Frame) /\ Len(b) = Len(s) - 1
      /\ \A i \in 1 .. Len(b) : b[i] = s[i]
  BY PopParts
<1>3. HeldIn(b) \subseteq HeldIn(s)
  <2> HIDE DEF b
  <2> QED  BY <1>1, <1>2 DEF HeldIn
<1>4. ListOf(s[Len(s)]) \subseteq HeldIn(s)
  BY <1>1 DEF ListOf, HeldIn
<1>5. ASSUME AtBottom(s)
      PROVE  AtBottom(b) /\ (s[Len(s)].name \in Walk => b = <<>>)
  <2> HIDE DEF b
  <2>1. AtBottom(b)
    BY <1>1, <1>2, <1>5 DEF AtBottom
  <2>2. s[Len(s)].name \in Walk => Len(b) = 0
    BY <1>1, <1>2, <1>5 DEF AtBottom, Walk
  <2> QED  BY <1>2, <2>1, <2>2, EmptySeq
<1> QED
  BY <1>3, <1>4, <1>5

\* A call stack reached from the present one without a new list.
Tame(s) == s \in Seq(Frame) /\ HeldIn(s) \subseteq HeldIn(stack) /\ AtBottom(s)

LEMMA TameEmpty == Tame(<<>>)
BY HeldEmpty, Empty DEF Tame

LEMMA TameSame ==
  ASSUME TypeOK, AtBottom(stack)
  PROVE  Tame(stack)
BY DEF Tame, TypeOK, Frame

LEMMA TameSingle ==
  ASSUME NEW name \in CallNames \ {"starting"}, NEW S \in SUBSET Nodes
  PROVE  Tame(<<Call(name, S)>>)
BY CallIsFrame, HeldSingle, Single DEF Tame, Call, ListOf

LEMMA TamePush ==
  ASSUME NEW s, Tame(s), NEW name \in CallNames \ ({"starting"} \cup Walk),
         NEW S \in SUBSET Nodes
  PROVE  Tame(Append(s, Call(name, S)))
BY CallIsFrame, HeldPush, Push DEF Tame, Call, ListOf

LEMMA TameBelow ==
  ASSUME TypeOK, AtBottom(stack), stack # <<>>
  PROVE  Tame(Below)
BY HeldPop, TopFrame DEF Tame, Below, TypeOK, Frame

LEMMA TameNext ==
  ASSUME TypeOK, AtBottom(stack), stack # <<>>, NEW n
  PROVE  Tame(NextOf(n))
<1> DEFINE top == stack[Len(stack)]
           c == Call(top.name, Args \ {n})
<1>1. c \in Frame /\ c.name = top.name /\ ListOf(c) \subseteq ListOf(top)
  BY TopFrame DEF Call, Frame, Args, ListOf
<1>2. /\ HeldIn(Below) \subseteq HeldIn(stack) /\ ListOf(top) \subseteq HeldIn(stack)
      /\ AtBottom(Below) /\ (top.name \in Walk => Below = <<>>)
  BY HeldPop DEF Below, TypeOK, Frame
<1>3. Below \in Seq(Frame)
  BY TopFrame
<1> HIDE DEF c, top
<1>4. Tame(Append(Below, c))
  BY <1>1, <1>2, <1>3, HeldPush, Push DEF Tame
<1> QED
  BY <1>4 DEF NextOf, c, top

LEMMA TameSync ==
  ASSUME NEW s, Tame(s), NEW n \in Nodes, ThenSync(n, s)
  PROVE  Tame(stack')
BY TamePush DEF ThenSync, CallNames, Walk

LEMMA TameSend ==
  ASSUME NEW s, Tame(s), NEW n \in Nodes, ThenSend(n, s)
  PROVE  Tame(stack')
<1>1. Tame(Append(s, Call("sending", {n})))
  BY TamePush DEF CallNames, Walk
<1> QED
  BY <1>1, TamePush DEF ThenSend, CallNames, Walk

LEMMA HeldByHandler ==
  ASSUME TypeOK, AtBottom(stack), HandlerStep
  PROVE  \/ Tame(stack')
         \/ /\ Schedule /\ run \in {"running", "paused"}
            /\ HeldIn(stack') \subseteq HeldIn(stack) \cup Chosen(node, run = "paused")
            /\ AtBottom(stack')
<1>1. stack # <<>>
  BY DEF HandlerStep, Sync, Schedule, FinishSchedule, Requeue, BeginTurn, FinishCancel,
     FinishRecovery, StartRefused, StartWithoutWorktree, StartSettled, StartUnusable,
     StartOverLimit, StartThread, Launching, Starting, CancelWorker, CancelUnbound,
     RecoverNode, Cancelling, Running
<1>2. Tame(<<>>) /\ Tame(Below) /\ \A n : Tame(NextOf(n))
  BY <1>1, TameEmpty, TameBelow, TameNext
<1>3. CASE Sync
  <2>1. Tame(Append(Below, Call("schedule", {})))
    BY <1>2, TamePush DEF CallNames, Walk
  <2> QED
    BY <1>2, <1>3, <2>1 DEF Sync
<1>4. CASE Schedule
  <2>1. CASE run \notin {"running", "paused"}
    BY <1>2, <1>4, <2>1 DEF Schedule
  <2>2. CASE run \in {"running", "paused"}
    <3> DEFINE c == Call("starting", Chosen(node, run = "paused"))
    <3>1. c \in Frame /\ ListOf(c) = Chosen(node, run = "paused") /\ c.name = "starting"
      BY DEF Call, Frame, ListOf, CallNames, Chosen, Startable, Waiting
    <3>2. stack' = Append(Below, c)
      BY <1>4, <2>2 DEF Schedule
    <3> HIDE DEF c
    <3> QED
      BY <1>2, <1>4, <2>2, <3>1, <3>2, HeldPush DEF Tame, Walk
  <2> QED
    BY <2>1, <2>2
<1>5. CASE FinishSchedule \/ Requeue \/ BeginTurn \/ FinishCancel \/ FinishRecovery
  BY <1>2, <1>5 DEF FinishSchedule, Requeue, BeginTurn, FinishCancel, FinishRecovery
<1>6. ASSUME NEW n \in Nodes,
             \/ StartRefused(n) \/ StartWithoutWorktree(n) \/ StartSettled(n)
             \/ StartUnusable(n) \/ StartOverLimit(n) \/ StartThread(n)
      PROVE  Tame(stack')
  <2>1. Tame(NextOf(n))
    BY <1>2
  <2>2. Tame(Append(NextOf(n), Call("requeue", {n})))
    BY <2>1, TamePush DEF CallNames, Walk
  <2> QED
    BY <1>2, <1>6, <2>1, <2>2, TameSync, TameSend
    DEF StartRefused, StartWithoutWorktree, StartSettled, StartUnusable, StartOverLimit,
        StartThread, BeginThread
<1>7. ASSUME NEW n \in Nodes, CancelWorker(n) \/ CancelUnbound(n) \/ RecoverNode(n)
      PROVE  Tame(stack')
  BY <1>2, <1>7, TameSync DEF CancelWorker, CancelTask, CancelUnbound, RecoverNode
<1> QED
  BY <1>3, <1>4, <1>5, <1>6, <1>7 DEF HandlerStep

LEMMA HeldByEvent ==
  ASSUME TypeOK, Next, ~HandlerStep
  PROVE  HeldIn(stack') = {} /\ AtBottom(stack')
<1>1. Tame(<<>>) /\ (stack = <<>> => Tame(stack))
  BY TameEmpty
<1>2. ASSUME stack = <<>>, Tame(stack')
      PROVE  HeldIn(stack') = {} /\ AtBottom(stack')
  BY <1>2, HeldEmpty DEF Tame
<1>3. CASE RunCommand
  <2>1. Tame(<<Call("schedule", {})>>) /\ Tame(<<Call("cancelling", Nodes)>>)
    BY TameSingle DEF CallNames
  <2> QED
    BY <1>1, <1>2, <1>3, <2>1
    DEF RunCommand, StartRun, StartRunWithoutBase, PauseRun, ResumeRun, CancelRun, CancelNode, Idle
<1>4. ASSUME NEW n \in Nodes, ServerEvent(n)
      PROVE  HeldIn(stack') = {} /\ AtBottom(stack')
  <2>1. Tame(<<Call("sending", {n})>>)
    BY TameSingle DEF CallNames
  <2> QED
    BY <1>1, <1>2, <1>4, <2>1, TameSync, TameSend
    DEF ServerEvent, ThreadStarted, ThreadRefused, Resumed, ResumeFails,
        ResumeRefused, ViewRefused, TurnProceeds, ApprovalAsked, TurnCompleted,
        TurnRefused, TurnError, Idle
<1>5. ASSUME NEW n \in Nodes, TaskCommand(n)
      PROVE  HeldIn(stack') = {} /\ AtBottom(stack')
  BY <1>1, <1>2, <1>5, TameSync, TameSend
  DEF TaskCommand, CancelBound, CancelTask, UserStart, UserStartOverLimit, UserStartUnusable, OpenUnusable,
      UserSends, Cleanup, CleanupDirty, CleanupStarts, BeginThread, Manually, Idle
<1>6. CASE Restart
  <2>1. Call("recovering", {n \in Nodes : Syncs(task'[n])}) \in Frame
    BY DEF Call, Frame, CallNames
  <2> QED
    BY <1>6, <2>1, HeldSingle DEF Restart, Call, ListOf
<1> QED
  BY <1>3, <1>4, <1>5, <1>6 DEF Next, Bound

-----------------------------------------------------------------------------
(* Nodes go forward, except by a restart.                                  *)

Onward ==
  \A n \in Nodes :
    /\ node[n] = "succeeded" => node'[n] = "succeeded"
    /\ node[n] \notin Unstarted => node'[n] \notin Unstarted

LEMMA FollowedOnward ==
  ASSUME NEW st \in NodeStatus, NEW s \in TaskStatus
  PROVE  /\ st = "succeeded" => SyncedStatus(st, s) = "succeeded"
         /\ st \notin Unstarted => SyncedStatus(st, s) \notin Unstarted
         /\ st \in Unstarted /\ SyncedStatus(st, s) \in InFlight => s = "running"
         /\ st \in Unstarted /\ s = "failed" =>
              SyncedStatus(st, s) = "failed" /\ "failed" \in NodeMoves[st]
BY DEF SyncedStatus, Verdict, NodeStatus, TaskStatus, Unstarted, InFlight, NodeEnd, NodeMoves

LEMMA MovesEnd ==
  /\ NodeMoves["succeeded"] = {}
  /\ \A st \in NodeStatus : "ready" \in NodeMoves[st] => st = "pending"
BY DEF NodeMoves, NodeStatus

LEMMA Monotonic ==
  ASSUME TypeOK,
         HandlerStep \/ RunCommand \/ \E n \in Bound : ServerEvent(n) \/ TaskCommand(n)
  PROVE  Onward
<1> USE DEF TypeOK, NodeMap
<1>1. ASSUME UNCHANGED node
      PROVE  Onward
  BY <1>1 DEF Onward
<1>2. CASE Sync
  <2>1. stack # <<>>
    BY <1>2 DEF Sync, Running
  <2>2. PICK n \in Args : node' = [node EXCEPT ![n] = Followed(n)] \/ UNCHANGED node
    BY <1>2 DEF Sync, runVars
  <2>3. n \in Nodes
    BY <2>1, TopFrame
  <2> QED
    BY <1>1, <2>2, <2>3, FollowedOnward DEF Onward, Followed
<1>3. CASE Schedule
  BY <1>3 DEF Schedule, Onward, Doomed, Waiting, Unstarted
<1>4. CASE Requeue
  <2>1. stack # <<>>
    BY <1>4 DEF Requeue, Running
  <2>2. PICK n \in Args : \/ UNCHANGED node
                          \/ /\ node[n] = "ready" \/ "ready" \in NodeMoves[node[n]]
                             /\ node' = [node EXCEPT ![n] = "ready"]
    BY <1>4 DEF Requeue
  <2>3. n \in Nodes
    BY <2>1, TopFrame
  <2> QED
    BY <1>1, <2>2, <2>3, MovesEnd DEF Onward, Unstarted
<1>5. ASSUME NEW n \in Nodes,
             \/ StartRefused(n) \/ StartWithoutWorktree(n) \/ StartSettled(n)
             \/ StartUnusable(n) \/ StartOverLimit(n) \/ StartThread(n)
      PROVE  Onward
  <2>1. \/ node' = [node EXCEPT ![n] = Entered(n)] \/ node' = Launched(n) \/ UNCHANGED node
        \/ /\ Entered(n) = "failed" \/ "failed" \in NodeMoves[Entered(n)]
           /\ node' = [node EXCEPT ![n] = "failed"]
    BY <1>5 DEF StartRefused, StartWithoutWorktree, StartSettled, StartUnusable,
       StartOverLimit, StartThread, Launching
  <2> QED
    BY <1>1, <2>1, MovesEnd DEF Onward, Entered, Launched, Unstarted
<1>6. ASSUME NEW n \in Nodes, CancelUnbound(n) \/ CancelNode(n)
      PROVE  Onward
  BY <1>6 DEF CancelUnbound, CancelNode, Onward, Unstarted
<1>7. CASE FinishSchedule \/ BeginTurn \/ FinishCancel \/ FinishRecovery
  BY <1>1, <1>7 DEF FinishSchedule, BeginTurn, FinishCancel, FinishRecovery, runVars
<1>8. ASSUME NEW n \in Nodes, CancelWorker(n) \/ RecoverNode(n)
      PROVE  Onward
  BY <1>1, <1>8 DEF CancelWorker, RecoverNode, runVars
<1>9. CASE StartRun \/ StartRunWithoutBase \/ PauseRun \/ ResumeRun \/ CancelRun
  BY <1>1, <1>9 DEF StartRun, StartRunWithoutBase, PauseRun, ResumeRun, CancelRun, runVars
<1>10. ASSUME NEW n \in Nodes, ServerEvent(n) \/ TaskCommand(n)
       PROVE  Onward
  BY <1>1, <1>10
  DEF ServerEvent, ThreadStarted, ThreadRefused, Resumed, ResumeFails,
        ResumeRefused, ViewRefused, TurnProceeds, ApprovalAsked, TurnCompleted,
      TurnRefused, TurnError, TaskCommand, CancelBound, UserStart, UserStartOverLimit,
      UserStartUnusable, OpenUnusable, UserSends, Cleanup, CleanupDirty, runVars
<1> QED
  BY <1>2, <1>3, <1>4, <1>5, <1>6, <1>7, <1>8, <1>9, <1>10
  DEF HandlerStep, RunCommand, Bound

-----------------------------------------------------------------------------
(* Only a node of the list in progress is launched.                        *)

LEMMA LaunchesHeld ==
  ASSUME TypeOK, LaunchInv, Next, NEW n \in Nodes, Launches(n)
  PROVE  n \in HeldIn(stack)
<1> USE DEF TypeOK, NodeMap
<1>1. node[n] \in Unstarted /\ node'[n] \in InFlight /\ node'[n] # node[n]
  BY DEF Launches, Unstarted, InFlight
<1>2. task[n] = "none" \/ (Running("sync") /\ Args = {n} /\ task[n] = "failed")
  BY <1>1 DEF LaunchInv, BoundIsLaunched
<1>3. CASE Sync
  <2>1. PICK m \in Args : node' = [node EXCEPT ![m] = Followed(m)] \/ UNCHANGED node
    BY <1>3 DEF Sync, runVars
  <2>2. m = n /\ Followed(n) \in InFlight
    BY <1>1, <2>1
  <2> QED
    BY <1>1, <1>2, <2>2, FollowedOnward DEF Followed
<1>4. CASE Schedule
  BY <1>1, <1>4 DEF Schedule, InFlight
<1>5. CASE Requeue
  BY <1>1, <1>5 DEF Requeue, InFlight
<1>6. ASSUME NEW m \in Nodes,
             \/ StartRefused(m) \/ StartWithoutWorktree(m) \/ StartSettled(m)
             \/ StartUnusable(m) \/ StartOverLimit(m) \/ StartThread(m)
      PROVE  n \in HeldIn(stack)
  <2>1. Running("starting") /\ m \in Args
    BY <1>6 DEF StartRefused, StartWithoutWorktree, StartSettled, StartUnusable,
       StartOverLimit, StartThread, Launching, Starting, Least
  <2>2. m = n
    BY <1>1, <1>6
    DEF StartRefused, StartWithoutWorktree, StartSettled, StartUnusable, StartOverLimit,
        StartThread, Launching, Entered, Launched
  <2> QED
    BY <2>1, <2>2, HeldPop DEF Running, Args, ListOf, Frame
<1>7. ASSUME NEW m \in Nodes, CancelUnbound(m) \/ CancelNode(m)
      PROVE  FALSE
  BY <1>1, <1>7 DEF CancelUnbound, CancelNode, InFlight
<1>8. CASE FinishSchedule \/ BeginTurn \/ FinishCancel \/ FinishRecovery
  BY <1>1, <1>8 DEF FinishSchedule, BeginTurn, FinishCancel, FinishRecovery, runVars
<1>9. ASSUME NEW m \in Nodes, CancelWorker(m) \/ RecoverNode(m)
      PROVE  FALSE
  BY <1>1, <1>9 DEF CancelWorker, RecoverNode, runVars
<1>10. CASE StartRun \/ StartRunWithoutBase \/ PauseRun \/ ResumeRun \/ CancelRun
  BY <1>1, <1>10 DEF StartRun, StartRunWithoutBase, PauseRun, ResumeRun, CancelRun, runVars
<1>11. ASSUME NEW m \in Nodes, ServerEvent(m) \/ TaskCommand(m)
       PROVE  FALSE
  BY <1>1, <1>11
  DEF ServerEvent, ThreadStarted, ThreadRefused, Resumed, ResumeFails,
        ResumeRefused, ViewRefused, TurnProceeds, ApprovalAsked, TurnCompleted,
      TurnRefused, TurnError, TaskCommand, CancelBound, UserStart, UserStartOverLimit,
      UserStartUnusable, OpenUnusable, UserSends, Cleanup, CleanupDirty, runVars
<1>12. CASE Restart
  BY <1>1, <1>12 DEF Restart, LoadedNode, LaunchInv, RegistryBehind, InFlight, Unstarted
<1> QED
  BY <1>3, <1>4, <1>5, <1>6, <1>7, <1>8, <1>9, <1>10, <1>11, <1>12
  DEF Next, HandlerStep, RunCommand, Bound

-----------------------------------------------------------------------------
(* LaunchInv is inductive: one lemma per part.                             *)

LEMMA HeldNodes ==
  ASSUME TypeOK
  PROVE  HeldIn(stack) \subseteq Nodes
<1>1. \A i \in 1 .. Len(stack) : stack[i].of \subseteq Nodes
  <2>1. \A i \in 1 .. Len(stack) : stack[i] \in Frame
    BY ElementOfSeq DEF TypeOK, Frame
  <2> QED
    BY <2>1 DEF Frame
<1> QED
  BY <1>1 DEF HeldIn

LEMMA KeepsHeldReady ==
  ASSUME TypeOK, LaunchInv, Next
  PROVE  HeldReady'
<1>1. CASE ~HandlerStep
  BY <1>1, HeldByEvent DEF HeldReady
<1>2. CASE HandlerStep
  <2>1. Onward
    BY <1>2, Monotonic
  <2>2. \A n \in HeldIn(stack) : \A d \in Deps[n] : node'[d] = "succeeded"
    BY <2>1, HeldNodes, PlanAssumption DEF LaunchInv, HeldReady, Onward
  <2>3. \A n \in Chosen(node, run = "paused") : \A d \in Deps[n] : node'[d] = "succeeded"
    BY <2>1, PlanAssumption DEF Chosen, Startable, Waiting, Onward
  <2> QED
    BY <1>2, <2>2, <2>3, HeldByHandler DEF HeldReady, LaunchInv, Tame
<1> QED
  BY <1>1, <1>2

LEMMA KeepsHeldWhileRunning ==
  ASSUME TypeOK, LaunchInv, Next
  PROVE  HeldWhileRunning'
<1>1. CASE ~HandlerStep
  BY <1>1, HeldByEvent DEF HeldWhileRunning
<1>2. CASE HandlerStep
  <2>1. Onward
    BY <1>2, Monotonic
  <2> SUFFICES ASSUME NEW n \in HeldIn(stack'), node'[n] \in Unstarted
               PROVE  run' = "running"
    BY DEF HeldWhileRunning
  <2>2. CASE n \in HeldIn(stack)
    <3>1. n \in Nodes /\ node[n] \in Unstarted /\ run = "running"
      BY <2>1, <2>2, HeldNodes DEF Onward, LaunchInv, HeldWhileRunning
    <3>2. CASE run' = run
      BY <3>1, <3>2
    <3>3. CASE Sync
      BY <3>1, <3>3 DEF Sync, runVars
    <3>4. CASE FinishSchedule
      BY <3>1, <3>4 DEF FinishSchedule, Recomputed, Unstarted, NodeEnd
    <3>5. CASE FinishCancel
      <4>1. stack # <<>> /\ stack[Len(stack)].name = "cancelling"
        BY <3>5 DEF FinishCancel, Running
      <4>2. Len(stack) \in Nat \ {0}
        BY <4>1, EmptySeq DEF TypeOK
      <4>3. Len(stack) = 1
        BY <4>1, <4>2, Len(stack) \in 1 .. Len(stack) DEF LaunchInv, AtBottom
      <4> QED
        BY <2>2, <4>1, <4>3 DEF HeldIn
    <3> QED
      BY <1>2, <3>2, <3>3, <3>4, <3>5
      DEF HandlerStep, Schedule, Requeue, BeginTurn, FinishRecovery, StartRefused,
          StartWithoutWorktree, StartSettled, StartUnusable, StartOverLimit, StartThread,
          CancelWorker, CancelUnbound, RecoverNode, runVars
  <2>3. CASE n \notin HeldIn(stack)
    <3>1. Schedule /\ run \in {"running", "paused"} /\ n \in Chosen(node, run = "paused")
      BY <1>2, <2>3, HeldByHandler DEF LaunchInv, Tame
    <3> QED
      BY <3>1 DEF Schedule, Chosen
  <2> QED
    BY <2>2, <2>3
<1> QED
  BY <1>1, <1>2

LEMMA KeepsAtBottom ==
  ASSUME TypeOK, LaunchInv, Next
  PROVE  AtBottom(stack')
BY HeldByHandler, HeldByEvent DEF LaunchInv, Tame

\* A step that writes the registry writes no unstarted node as bound.
LEMMA PersistsUnbound ==
  ASSUME TypeOK, LaunchInv, Next, Persist, ~UNCHANGED saved,
         NEW n \in Nodes, node'[n] \in Unstarted
  PROVE  task'[n] = "none"
<1>1. ASSUME Onward, ~Running("sync"), UNCHANGED task
      PROVE  task'[n] = "none"
  BY <1>1 DEF Onward, LaunchInv, BoundIsLaunched
<1>2. CASE Sync
  <2>1. node[n] \in Unstarted
    BY <1>2, Monotonic DEF HandlerStep, Onward
  <2>2. PICK m \in Args : \/ UNCHANGED saved
                          \/ node' = [node EXCEPT ![m] = Followed(m)]
    BY <1>2 DEF Sync, runVars
  <2>3. ASSUME task[n] = "failed", Args = {n}
        PROVE  FALSE
    <3>1. Followed(n) = "failed"
      BY <2>1, <2>3, FollowedOnward DEF Followed, TypeOK, NodeMap
    <3> QED
      BY <2>2, <2>3, <3>1 DEF Unstarted, TypeOK, NodeMap
  <2> QED
    BY <1>2, <2>1, <2>3 DEF Sync, LaunchInv, BoundIsLaunched, taskVars
<1>3. CASE FinishSchedule \/ FinishCancel
  <2>1. Onward
    BY <1>3, Monotonic DEF HandlerStep
  <2> QED
    BY <1>1, <1>3, <2>1 DEF FinishSchedule, FinishCancel, Running, taskVars
<1>4. CASE RunCommand
  <2>1. Onward
    BY <1>4, Monotonic
  <2> QED
    BY <1>1, <1>4, <2>1
    DEF RunCommand, StartRun, StartRunWithoutBase, PauseRun, ResumeRun, CancelRun, CancelNode,
        Idle, Running, taskVars
<1>5. CASE Restart
  <2>1. saved.node[n] \in Unstarted
    BY <1>5 DEF Restart, LoadedNode, Unstarted
  <2>2. n \notin saved.bound
    BY <2>1 DEF LaunchInv, RegistryBehind
  <2> QED
    BY <1>5, <2>2 DEF Restart, LoadedTask
<1>6. ASSUME HandlerStep, ~Sync, ~FinishSchedule, ~FinishCancel
      PROVE  UNCHANGED saved
  BY <1>6
  DEF HandlerStep, Schedule, Requeue, BeginTurn, FinishRecovery, StartRefused,
      StartWithoutWorktree, StartSettled, StartUnusable, StartOverLimit, StartThread,
      CancelWorker, CancelUnbound, RecoverNode, runVars
<1>7. ASSUME NEW m \in Nodes, ServerEvent(m) \/ TaskCommand(m)
      PROVE  UNCHANGED saved
  BY <1>7
  DEF ServerEvent, ThreadStarted, ThreadRefused, Resumed, ResumeFails,
        ResumeRefused, ViewRefused, TurnProceeds, ApprovalAsked, TurnCompleted,
      TurnRefused, TurnError, TaskCommand, CancelBound, UserStart, UserStartOverLimit,
      UserStartUnusable, OpenUnusable, UserSends, Cleanup, CleanupDirty, runVars
<1> QED
  BY <1>2, <1>3, <1>4, <1>5, <1>6, <1>7 DEF Next, Bound

LEMMA SavedByPersist ==
  ASSUME TypeOK, Next
  PROVE  UNCHANGED saved \/ Persist
BY DEF Next, HandlerStep, RunCommand, Sync, Schedule, FinishSchedule, Requeue, BeginTurn,
       FinishCancel, FinishRecovery, StartRefused, StartWithoutWorktree, StartSettled,
       StartUnusable, StartOverLimit, StartThread, CancelWorker, CancelUnbound, RecoverNode,
       StartRun, StartRunWithoutBase, PauseRun, ResumeRun, CancelRun, CancelNode,
       ServerEvent, ThreadStarted, ThreadRefused, Resumed, ResumeFails,
        ResumeRefused, ViewRefused, TurnProceeds, ApprovalAsked, TurnCompleted,
       TurnRefused, TurnError, TaskCommand, CancelBound, UserStart, UserStartOverLimit,
       UserStartUnusable, OpenUnusable, UserSends, Cleanup, CleanupDirty, Restart, runVars

LEMMA KeepsRegistryBehind ==
  ASSUME TypeOK, LaunchInv, Next
  PROVE  RegistryBehind'
<1>1. CASE Persist /\ ~UNCHANGED saved
  <2>1. saved'.node = node' /\ saved'.bound = {n \in Nodes : task'[n] # "none"}
    BY <1>1 DEF Persist, Snapshot, Bound
  <2> QED
    BY <1>1, <2>1, PersistsUnbound DEF RegistryBehind
<1>2. CASE UNCHANGED saved
  <2>1. CASE Restart
    <3>1. saved' = Snapshot'
      BY <2>1 DEF Restart, Persist
    <3> QED
      BY <1>2, <3>1 DEF RegistryBehind, LaunchInv, Snapshot
  <2>2. CASE ~Restart
    BY <1>2, <2>2, Monotonic DEF Next, Onward, RegistryBehind, LaunchInv
  <2> QED
    BY <2>1, <2>2
<1> QED
  BY <1>1, <1>2, SavedByPersist

\* ThenSync leaves the sync of node n as the call in progress.
LEMMA SyncOnTop ==
  ASSUME NEW s \in Seq(Frame), NEW n \in Nodes, ThenSync(n, s)
  PROVE  Running("sync")' /\ Args' = {n}
<1>1. Call("sync", {n}) \in Frame
  BY DEF Call, Frame, CallNames
<1>2. /\ Append(s, Call("sync", {n})) # <<>>
      /\ Len(Append(s, Call("sync", {n}))) = Len(s) + 1
      /\ Append(s, Call("sync", {n}))[Len(s) + 1] = Call("sync", {n})
  BY <1>1, AppendProperties
<1> QED
  BY <1>2 DEF ThenSync, Running, Args, Call

LEMMA KeepsBoundIsLaunched ==
  ASSUME TypeOK, LaunchInv, Next
  PROVE  BoundIsLaunched'
<1> SUFFICES ASSUME NEW n \in Nodes, node'[n] \in Unstarted
             PROVE  task'[n] = "none" \/ (task'[n] = "failed" /\ Running("sync")' /\ Args' = {n})
  BY DEF BoundIsLaunched
<1>1. CASE Sync
  <2>1. node[n] \in Unstarted /\ stack # <<>>
    BY <1>1, Monotonic DEF HandlerStep, Onward, Sync, Running
  <2>2. PICK m \in Args :
          \/ node' = [node EXCEPT ![m] = Followed(m)]
          \/ ~(Followed(m) = node[m] \/ Followed(m) \in NodeMoves[node[m]])
    BY <1>1 DEF Sync
  <2>3. ASSUME task[n] = "failed", Args = {n}
        PROVE  FALSE
    <3>1. Followed(n) = "failed" /\ "failed" \in NodeMoves[node[n]]
      BY <2>1, <2>3, FollowedOnward DEF Followed, TypeOK, NodeMap
    <3> QED
      BY <2>2, <2>3, <3>1 DEF Unstarted, TypeOK, NodeMap
  <2> QED
    BY <1>1, <2>1, <2>3 DEF Sync, LaunchInv, BoundIsLaunched, taskVars
<1>2. ASSUME Onward, ~Running("sync")
      PROVE  node[n] \in Unstarted /\ task[n] = "none"
  BY <1>2 DEF Onward, LaunchInv, BoundIsLaunched
<1>3. CASE Schedule \/ FinishSchedule \/ Requeue \/ BeginTurn \/ FinishCancel \/ FinishRecovery
  BY <1>2, <1>3, Monotonic
  DEF HandlerStep, Schedule, FinishSchedule, Requeue, BeginTurn, FinishCancel, FinishRecovery,
      Running, taskVars
<1>4. ASSUME NEW m \in Nodes,
             \/ StartRefused(m) \/ StartWithoutWorktree(m) \/ StartSettled(m)
             \/ StartUnusable(m) \/ StartOverLimit(m) \/ StartThread(m)
      PROVE  task'[n] = "none" \/ (task'[n] = "failed" /\ Running("sync")' /\ Args' = {n})
  <2>1. Running("starting") /\ stack # <<>>
    BY <1>4 DEF StartRefused, StartWithoutWorktree, StartSettled, StartUnusable,
       StartOverLimit, StartThread, Launching, Starting, Running
  <2>2. node[n] \in Unstarted /\ task[n] = "none"
    BY <1>2, <1>4, <2>1, Monotonic DEF HandlerStep, Running
  <2>3. CASE UNCHANGED task
    BY <2>2, <2>3
  <2>4. CASE StartWithoutWorktree(m)
    BY <2>1, <2>2, <2>4, NextFrame, SyncOnTop DEF StartWithoutWorktree, TypeOK
  <2>5. CASE Launching(m)
    <3>1. m # n
      BY <2>2, <2>5 DEF Launching, Launched, Unstarted, TypeOK, NodeMap
    <3> QED
      BY <1>4, <2>2, <3>1
      DEF StartRefused, StartWithoutWorktree, StartSettled, StartUnusable, StartOverLimit,
          StartThread, BeginThread, taskVars, TypeOK
  <2> QED
    BY <1>4, <2>3, <2>4, <2>5
    DEF StartRefused, StartSettled, StartUnusable, StartOverLimit, StartThread, taskVars
<1>5. ASSUME NEW m \in Nodes, CancelWorker(m) \/ CancelUnbound(m) \/ RecoverNode(m)
      PROVE  task'[n] = "none"
  <2>1. task[n] = "none"
    BY <1>2, <1>5, Monotonic DEF HandlerStep, CancelWorker, CancelUnbound, RecoverNode,
       Cancelling, Running
  <2> QED
    BY <1>5, <2>1 DEF CancelWorker, CancelTask, CancelUnbound, RecoverNode, taskVars, TypeOK
<1>6. CASE RunCommand
  BY <1>2, <1>6, Monotonic
  DEF RunCommand, StartRun, StartRunWithoutBase, PauseRun, ResumeRun, CancelRun, CancelNode,
      Idle, Running, taskVars
<1>7. ASSUME NEW m \in Bound, ServerEvent(m) \/ TaskCommand(m)
      PROVE  task'[n] = "none"
  <2>1. stack = <<>>
    BY <1>7
    DEF ServerEvent, ThreadStarted, ThreadRefused, Resumed, ResumeFails,
        ResumeRefused, ViewRefused, TurnProceeds, ApprovalAsked, TurnCompleted,
        TurnRefused, TurnError, TaskCommand, CancelBound, UserStart, UserStartOverLimit,
        UserStartUnusable, OpenUnusable, UserSends, Cleanup, CleanupDirty, CleanupStarts, Manually, Idle
  <2>2. task[n] = "none"
    BY <1>2, <1>7, <2>1, Monotonic DEF Running
  <2>3. m # n
    BY <2>2 DEF Bound
  <2> QED
    BY <1>7, <2>2, <2>3
    DEF ServerEvent, ThreadStarted, ThreadRefused, Resumed, ResumeFails,
        ResumeRefused, ViewRefused, TurnProceeds, ApprovalAsked, TurnCompleted,
        TurnRefused, TurnError, TaskCommand, CancelBound, CancelTask, UserStart,
        UserStartOverLimit, UserStartUnusable, OpenUnusable, UserSends, Cleanup, CleanupDirty, BeginThread,
        TypeOK
<1>8. CASE Restart
  <2>1. saved.node[n] \in Unstarted
    BY <1>8 DEF Restart, LoadedNode, Unstarted
  <2> QED
    BY <1>8, <2>1 DEF Restart, LoadedTask, LaunchInv, RegistryBehind
<1> QED
  BY <1>1, <1>3, <1>4, <1>5, <1>6, <1>7, <1>8 DEF Next, HandlerStep

-----------------------------------------------------------------------------
\* Whatever calls are in progress, the starts still to come are in order.
THEOREM LaunchInvariant == Spec => []LaunchInv
<1>1. Init => LaunchInv
  BY HeldEmpty DEF Init, Snapshot, Bound, LaunchInv, HeldReady, HeldWhileRunning,
     BoundIsLaunched, RegistryBehind, Unstarted
<1>2. TypeOK /\ LaunchInv /\ [Next]_vars => LaunchInv'
  <2> SUFFICES ASSUME TypeOK, LaunchInv, [Next]_vars PROVE LaunchInv'
    OBVIOUS
  <2>1. CASE UNCHANGED vars
    BY <2>1
    DEF vars, runVars, taskVars, LaunchInv, HeldReady, HeldWhileRunning, BoundIsLaunched,
        RegistryBehind, HeldIn, AtBottom, Running, Args
  <2>2. CASE Next
    BY <2>2, KeepsHeldReady, KeepsHeldWhileRunning, KeepsBoundIsLaunched,
       KeepsRegistryBehind, KeepsAtBottom
    DEF LaunchInv
  <2> QED
    BY <2>1, <2>2
<1> QED
  BY <1>1, <1>2, TypeCorrect, PTL DEF Spec

\* A node is launched only on dependencies that have succeeded.
THEOREM LaunchSafe == Spec => LaunchAfterDependencies
<1>1. TypeOK /\ LaunchInv /\ [Next]_vars =>
        [\A n \in Nodes : Launches(n) => \A d \in Deps[n] : node[d] = "succeeded"]_vars
  BY LaunchesHeld DEF LaunchInv, HeldReady
<1> QED
  BY <1>1, TypeCorrect, LaunchInvariant, PTL DEF Spec, LaunchAfterDependencies

\* A node is launched only while the run is RUNNING.
THEOREM LaunchControlled == Spec => LaunchOnlyWhileRunning
<1>1. TypeOK /\ LaunchInv /\ [Next]_vars =>
        [\A n \in Nodes : Launches(n) => run = "running"]_vars
  BY LaunchesHeld DEF LaunchInv, HeldWhileRunning, Launches
<1> QED
  BY <1>1, TypeCorrect, LaunchInvariant, PTL DEF Spec, LaunchOnlyWhileRunning

=============================================================================
