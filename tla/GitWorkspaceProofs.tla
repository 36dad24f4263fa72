-------------------------- MODULE GitWorkspaceProofs --------------------------
(***************************************************************************)
(* Safety of the Git view for any number of directories: what is shown is  *)
(* of the present root, and no operation is without an end.                *)
(***************************************************************************)
EXTENDS GitWorkspace, TLAPS

\* Git works for the present root; a process of an earlier one was killed.
Owned ==
  /\ Busy => root # None
  /\ ~overtaken /\ process # None => process.killed \/ process.dir = root

\* The inductive invariant.
GitInv == TypeOK /\ Owned /\ ShowsRoot /\ OperationEnds

\* A killed process stays one of its directory.
LEMMA KilledType ==
  ASSUME process \in [dir : Roots, killed : BOOLEAN]
  PROVE  Killed(process) \in [dir : Roots, killed : BOOLEAN] /\ Killed(process).killed
BY DEF Killed

\* The initial state.
LEMMA InitGitInv == Init => GitInv
BY GitAssumption DEF Init, GitInv, TypeOK, Owned, ShowsRoot, OperationEnds, Shown, Busy

-----------------------------------------------------------------------------
\* What _stop_process may leave behind in set_root: nothing, a killed process,
\* or a new one, which takes a pending refresh.
LEMMA LeftType ==
  ASSUME GitInv, NEW left \in Left
  PROVE  /\ left \in {None} \cup [dir : Roots, killed : BOOLEAN]
         /\ left = None \/ left.killed \/ (Busy /\ pending)
<1>1. CASE process = None
  BY <1>1 DEF Left
<1>2. CASE process # None
  <2>1. process \in [dir : Roots, killed : BOOLEAN]
    BY <1>2 DEF GitInv, TypeOK
  <2>2. Killed(process) \in [dir : Roots, killed : BOOLEAN] /\ Killed(process).killed
    BY <2>1, KilledType
  <2>3. Busy => root \in Roots
    BY DEF GitInv, TypeOK, Owned, Shown
  <2>4. CASE left \in {None, Killed(process)}
    BY <2>2, <2>4
  <2>5. CASE Busy /\ pending /\ left = [dir |-> root, killed |-> FALSE]
    BY <2>3, <2>5
  <2> QED BY <1>2, <2>4, <2>5 DEF Left
<1> QED BY <1>1, <1>2

\* Switching to another project, task or none.
LEMMA SetProjectStep ==
  ASSUME GitInv, NEW r \in Roots \cup {None}, SetProject(r)
  PROVE  GitInv'
<1>1. PICK left \in Left : Refreshed(r, left, None, None)
  BY DEF SetProject
<1>2. /\ left \in {None} \cup [dir : Roots, killed : BOOLEAN]
      /\ left = None \/ left.killed \/ (Busy /\ pending)
  BY LeftType
<1>3. /\ root' = r /\ pending' = FALSE /\ overtaken' = (Busy /\ pending)
  BY DEF SetProject
<1>4. CASE /\ HasRoot(r) /\ Launch("status", r, left, FALSE)
           /\ shown' = None /\ diffShown' = None
  <2>1. process' \in [dir : Roots, killed : BOOLEAN]
    BY <1>2, <1>4, GitAssumption DEF Launch, HasRoot
  <2>2. Owned'
    BY <1>2, <1>3, <1>4, GitAssumption DEF Launch, HasRoot, Owned, Busy
  <2>3. TypeOK'
    BY <1>3, <1>4, <2>1 DEF Launch, TypeOK, Shown, GitInv, Busy
  <2>4. OperationEnds'
    BY <1>3, <1>4, <2>1 DEF Launch, OperationEnds, Busy
  <2>5. ShowsRoot'
    BY <1>4 DEF ShowsRoot
  <2> QED BY <2>2, <2>3, <2>4, <2>5 DEF GitInv
<1>5. CASE AtRest(left) /\ shown' = None /\ diffShown' = None
  <2>1. Owned'
    BY <1>2, <1>3, <1>5 DEF AtRest, Owned, Busy
  <2>2. TypeOK'
    BY <1>2, <1>3, <1>5 DEF AtRest, TypeOK, Shown, GitInv, Busy
  <2>3. OperationEnds' /\ ShowsRoot'
    BY <1>3, <1>5 DEF AtRest, OperationEnds, ShowsRoot, Busy
  <2> QED BY <2>1, <2>2, <2>3 DEF GitInv
<1> QED BY <1>1, <1>4, <1>5 DEF Refreshed

-----------------------------------------------------------------------------
\* A refresh on the present root, with what the panel shows and the process left
\* over from before.
LEMMA RefreshedStep ==
  ASSUME GitInv, UNCHANGED <<root, overtaken>>, pending' = FALSE,
         NEW left \in {None} \cup [dir : Roots, killed : BOOLEAN],
         ~overtaken /\ left # None => left.killed \/ left.dir = root,
         NEW s \in Shown, NEW f \in Shown, ~overtaken => {s, f} \subseteq {None, root},
         Refreshed(root, left, s, f)
  PROVE  GitInv'
<1>1. CASE /\ HasRoot(root) /\ Launch("status", root, left, FALSE)
           /\ shown' = s /\ diffShown' = f
  <2>1. process' \in [dir : Roots, killed : BOOLEAN]
    BY <1>1, GitAssumption DEF Launch, HasRoot, GitInv, TypeOK, Shown
  <2>2. Owned'
    BY <1>1, GitAssumption DEF Launch, HasRoot, Owned, Busy
  <2>3. TypeOK'
    BY <1>1, <2>1 DEF Launch, TypeOK, Shown, GitInv
  <2>4. OperationEnds' /\ ShowsRoot'
    BY <1>1, <2>1 DEF Launch, OperationEnds, ShowsRoot, Busy
  <2> QED BY <2>2, <2>3, <2>4 DEF GitInv
<1>2. CASE AtRest(left) /\ shown' = None /\ diffShown' = None
  <2>1. Owned'
    BY <1>2 DEF AtRest, Owned, Busy
  <2>2. TypeOK'
    BY <1>2 DEF AtRest, TypeOK, Shown, GitInv
  <2>3. OperationEnds' /\ ShowsRoot'
    BY <1>2 DEF AtRest, OperationEnds, ShowsRoot, Busy
  <2> QED BY <2>1, <2>2, <2>3 DEF GitInv
<1> QED BY <1>1, <1>2 DEF Refreshed

\* The end of an operation, with or without a refresh pending.
LEMMA CompletedStep ==
  ASSUME GitInv, UNCHANGED <<root, overtaken>>,
         NEW left \in {None} \cup [dir : Roots, killed : BOOLEAN],
         ~overtaken /\ left # None => left.killed \/ left.dir = root,
         NEW s \in Shown, NEW f \in Shown, ~overtaken => {s, f} \subseteq {None, root},
         Completed(left, s, f)
  PROVE  GitInv'
<1>1. CASE pending /\ pending' = FALSE /\ Refreshed(root, left, s, f)
  BY <1>1, RefreshedStep
<1>2. CASE ~pending /\ AtRest(left) /\ shown' = s /\ diffShown' = f /\ UNCHANGED pending
  <2>1. Owned'
    BY <1>2 DEF AtRest, Owned, Busy
  <2>2. TypeOK'
    BY <1>2 DEF AtRest, TypeOK, Shown, GitInv
  <2>3. OperationEnds' /\ ShowsRoot'
    BY <1>2 DEF AtRest, OperationEnds, ShowsRoot, Busy
  <2> QED BY <2>1, <2>2, <2>3 DEF GitInv
<1> QED BY <1>1, <1>2 DEF Completed

\* The end with a message.
LEMMA FailedStep ==
  ASSUME GitInv, UNCHANGED <<root, overtaken>>,
         NEW left \in {None} \cup [dir : Roots, killed : BOOLEAN],
         left # None => left.killed,
         Failed(left)
  PROVE  GitInv'
<1>1. None \in Shown /\ shown \in Shown /\ diffShown \in Shown
  BY DEF GitInv, TypeOK, Shown
<1>2. ~overtaken => {shown, diffShown} \subseteq {None, root}
  BY DEF GitInv, ShowsRoot
<1>3. CASE Completed(left, None, None)
  BY <1>1, <1>3, CompletedStep
<1>4. CASE Completed(left, shown, None)
  BY <1>1, <1>2, <1>4, CompletedStep
<1> QED BY <1>3, <1>4 DEF Failed

-----------------------------------------------------------------------------
\* Every step keeps the invariant.
LEMMA NextGitInv == GitInv /\ [Next]_vars => GitInv'
<1> SUFFICES ASSUME GitInv, [Next]_vars PROVE GitInv'
  OBVIOUS
<1> USE GitAssumption
<1>0. /\ {root, shown, diffShown} \subseteq Shown /\ None \in Shown
      /\ process \in {None} \cup [dir : Roots, killed : BOOLEAN]
      /\ ~overtaken => {shown, diffShown} \subseteq {None, root}
      /\ Busy => root \in Roots
  BY DEF GitInv, TypeOK, ShowsRoot, Owned, Shown
<1>1. ASSUME NEW r \in Roots \cup {None}, SetProject(r) PROVE GitInv'
  BY <1>1, SetProjectStep
<1>2. CASE Refresh
  <2>1. CASE Busy
    BY <1>2, <2>1 DEF Refresh, GitInv, TypeOK, Owned, ShowsRoot, OperationEnds, Busy, Shown
  <2>2. CASE ~Busy
    <3>1. /\ Refreshed(root, process, shown, diffShown)
          /\ UNCHANGED <<root, overtaken, pending>>
      BY <1>2, <2>2 DEF Refresh
    <3>2. pending' = FALSE
      BY <2>2, <3>1 DEF GitInv, OperationEnds, TypeOK
    <3>3. ~overtaken /\ process # None => process.killed \/ process.dir = root
      BY DEF GitInv, Owned
    <3> QED BY <1>0, <3>1, <3>2, <3>3, RefreshedStep
  <2> QED BY <2>1, <2>2
<1>3. CASE Diff
  <2>1. root \in Roots /\ UNCHANGED <<root, overtaken>>
    BY <1>0, <1>3 DEF Diff, Shown
  <2>2. CASE /\ Busy /\ pending' = TRUE
             /\ UNCHANGED <<op, untracked, timer, process, shown, diffShown>>
    BY <2>1, <2>2 DEF GitInv, TypeOK, Owned, ShowsRoot, OperationEnds, Busy, Shown
  <2>3. ASSUME NEW new \in BOOLEAN, ~Busy, Launch("diff", root, process, new),
               UNCHANGED <<pending, shown, diffShown>>
        PROVE  GitInv'
    <3>1. process' \in [dir : Roots, killed : BOOLEAN]
      BY <1>0, <2>1, <2>3 DEF Launch
    <3>2. Owned'
      BY <2>1, <2>3 DEF Launch, Owned, Busy, GitInv
    <3>3. TypeOK'
      BY <2>1, <2>3, <3>1 DEF Launch, TypeOK, GitInv, Shown
    <3>4. OperationEnds' /\ ShowsRoot'
      BY <2>1, <2>3, <3>1 DEF Launch, OperationEnds, ShowsRoot, Busy, GitInv
    <3> QED BY <3>2, <3>3, <3>4 DEF GitInv
  <2>4. CASE /\ ~Busy /\ diffShown' = None
             /\ UNCHANGED <<op, untracked, timer, process, pending, shown>>
    BY <2>1, <2>4 DEF GitInv, TypeOK, Owned, ShowsRoot, OperationEnds, Busy, Shown
  <2> QED BY <1>3, <2>2, <2>3, <2>4 DEF Diff
<1>4. CASE Succeeds
  <2>1. /\ process.dir \in Shown
        /\ ~overtaken => process.dir = root
        /\ UNCHANGED <<root, overtaken>>
    BY <1>0, <1>4 DEF Succeeds, GitInv, Owned, Shown
  <2>2. CASE Completed(None, process.dir, diffShown)
    BY <1>0, <2>1, <2>2, CompletedStep
  <2>3. CASE Completed(None, shown, process.dir)
    BY <1>0, <2>1, <2>3, CompletedStep
  <2> QED BY <1>4, <2>2, <2>3 DEF Succeeds
<1>5. CASE Fails
  BY <1>5, FailedStep DEF Fails
<1>6. CASE FailsWithoutHead
  <2>1. /\ Busy /\ Launch("diff", root, None, TRUE)
        /\ UNCHANGED <<root, pending, shown, diffShown, overtaken>>
    BY <1>6 DEF FailsWithoutHead, Busy
  <2>2. process' \in [dir : Roots, killed : BOOLEAN] /\ process'.dir = root
    BY <1>0, <2>1 DEF Launch
  <2>3. Owned'
    BY <1>0, <2>1, <2>2 DEF Launch, Owned, Busy
  <2>4. TypeOK'
    BY <2>1, <2>2 DEF Launch, TypeOK, GitInv, Shown
  <2>5. OperationEnds' /\ ShowsRoot'
    BY <2>1, <2>2 DEF Launch, OperationEnds, ShowsRoot, Busy, GitInv
  <2> QED BY <2>3, <2>4, <2>5 DEF GitInv
<1>7. CASE EndsUnheeded
  <2>1. /\ ~Busy /\ process' = None
        /\ UNCHANGED <<root, op, untracked, timer, pending, shown, diffShown, overtaken>>
    BY <1>7 DEF EndsUnheeded
  <2>2. Owned' /\ ShowsRoot' /\ OperationEnds'
    BY <2>1 DEF GitInv, Owned, ShowsRoot, OperationEnds, Busy
  <2>3. TypeOK'
    BY <2>1 DEF GitInv, TypeOK, Shown
  <2> QED BY <2>2, <2>3 DEF GitInv
<1>8. CASE TooLarge
  <2>1. CASE Failed(None)
    BY <1>8, <2>1, FailedStep DEF TooLarge
  <2>2. CASE /\ process' = Killed(process) /\ timer' = FALSE
             /\ UNCHANGED <<op, untracked, pending, shown, diffShown>>
    <3>1. process' \in [dir : Roots, killed : BOOLEAN] /\ process'.killed
      BY <1>0, <1>8, <2>2, KilledType DEF TooLarge
    <3>2. UNCHANGED <<root, overtaken>>
      BY <1>8 DEF TooLarge
    <3>3. Owned' /\ ShowsRoot' /\ OperationEnds'
      BY <1>0, <1>8, <2>2, <3>1, <3>2 DEF GitInv, Owned, ShowsRoot, OperationEnds, Busy
    <3>4. TypeOK'
      BY <2>2, <3>1, <3>2 DEF GitInv, TypeOK, Shown
    <3> QED BY <3>3, <3>4 DEF GitInv
  <2> QED BY <1>8, <2>1, <2>2 DEF TooLarge
<1>9. CASE FailsToStart
  <2>1. /\ process # None /\ ~process.killed /\ process' = None
        /\ UNCHANGED <<root, op, untracked, timer, pending, shown, diffShown, overtaken>>
    BY <1>9 DEF FailsToStart
  <2>2. Owned' /\ ShowsRoot'
    BY <2>1 DEF GitInv, Owned, ShowsRoot, Busy
  <2>3. TypeOK' /\ OperationEnds'
    BY <2>1 DEF GitInv, TypeOK, OperationEnds, Busy, Shown
  <2> QED BY <2>2, <2>3 DEF GitInv
<1>10. CASE TimedOut
  <2>1. PICK left \in IF process = None THEN {None} ELSE {None, Killed(process)} : Failed(left)
    BY <1>10 DEF TimedOut
  <2>2. /\ left \in {None} \cup [dir : Roots, killed : BOOLEAN]
        /\ left # None => left.killed
    BY <1>0, <2>1, KilledType
  <2>3. UNCHANGED <<root, overtaken>>
    BY <1>10 DEF TimedOut
  <2> QED BY <2>1, <2>2, <2>3, FailedStep
<1>11. CASE UNCHANGED vars
  BY <1>11 DEF vars, GitInv, TypeOK, Owned, ShowsRoot, OperationEnds, Busy, Shown
<1> QED
  BY <1>1, <1>2, <1>3, <1>4, <1>5, <1>6, <1>7, <1>8, <1>9, <1>10, <1>11 DEF Next

\* The Git view never shows what was read in another directory, unless a refresh
\* was pending when the user switched to this one (_stop_process, set_root).
THEOREM GitShowsRoot == Spec => []ShowsRoot
<1>1. GitInv => ShowsRoot
  BY DEF GitInv
<1> QED BY InitGitInv, NextGitInv, <1>1, PTL DEF Spec

\* Whatever fails to start, dies or lingers, an operation in progress has a
\* killed process or a timer left that ends it (_start_process, _stop_process).
THEOREM GitOperationEnds == Spec => []OperationEnds
<1>1. GitInv => OperationEnds
  BY DEF GitInv
<1> QED BY InitGitInv, NextGitInv, <1>1, PTL DEF Spec

\* Every variable keeps its type; git always runs in some directory.
THEOREM GitTyped == Spec => []TypeOK
<1>1. GitInv => TypeOK
  BY DEF GitInv
<1> QED BY InitGitInv, NextGitInv, <1>1, PTL DEF Spec

===============================================================================
