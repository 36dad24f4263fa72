----------------------------- MODULE GitWorkspace -----------------------------
(***************************************************************************)
(* The Git view of the developer panel: one QProcess that runs git status  *)
(* or git diff in the directory of the active project or task              *)
(* (GitWorkspace), and what the panel then shows (DeveloperWorkspacePanel).*)
(*                                                                         *)
(* An action is a whole handler.  set_root, a timeout and too long an      *)
(* output kill the process and wait for it, 100 ms at the most: QProcess   *)
(* calls _finished inside that wait, or the wait gives up and the process  *)
(* lingers.  While a process is there, QProcess ignores a start.           *)
(*                                                                         *)
(* What a command printed is told apart by the directory it ran in.        *)
(***************************************************************************)
CONSTANTS
  Roots,        (* the directories of projects and tasks                     *)
  None

ASSUME GitAssumption == None \notin Roots \cup [dir : Roots, killed : BOOLEAN]

VARIABLES
  root,         (* the directory the panel is for, or None                   *)
  op,           (* _operation: "none", "status" or "diff"                    *)
  untracked,    (* _operation_is_untracked                                   *)
  process,      (* the QProcess: None, or the directory of the process and   *)
                (* whether it was killed                                     *)
  timer,        (* the timeout of the operation is running                   *)
  pending,      (* _refresh_pending                                          *)
  shown,        (* where the changes listed come from; None: none, a message *)
  diffShown,    (* the same of the diff                                      *)
  overtaken     (* history: the switch to this root found a refresh pending  *)

vars == <<root, op, untracked, process, timer, pending, shown, diffShown, overtaken>>

Busy == op # "none"
Killed(proc) == [dir |-> proc.dir, killed |-> TRUE]

-----------------------------------------------------------------------------
\* A plausible slip: the timeout is left to the process.
LaunchUntimed(kind, d, left, new) ==
  /\ op' = kind /\ untracked' = new /\ timer' = FALSE
  /\ process' = IF left = None THEN [dir |-> d, killed |-> FALSE] ELSE left

\* _start_process in directory d, where the process left over may still be there.
Launch(kind, d, left, new) ==
  /\ op' = kind /\ untracked' = new /\ timer' = TRUE
  /\ process' = IF left = None THEN [dir |-> d, killed |-> FALSE] ELSE left

\* No operation.  (A timer that still runs then does nothing.)
AtRest(left) == op' = "none" /\ untracked' = FALSE /\ timer' = FALSE /\ process' = left

\* A plausible slip: no look at the root.
AnyRoot(d) == TRUE

HasRoot(d) == d # None

\* refresh without an operation in progress, the panel showing s and the diff f.
\* Without a root, or when its directory is not there, a message replaces both.
Refreshed(d, left, s, f) ==
  \/ /\ HasRoot(d)
     /\ Launch("status", d, left, FALSE)
     /\ shown' = s /\ diffShown' = f
  \/ AtRest(left) /\ shown' = None /\ diffShown' = None

\* A plausible slip: the refresh asked for meanwhile is forgotten here.
CompletedOnly(left, s, f) ==
  AtRest(left) /\ shown' = s /\ diffShown' = f /\ UNCHANGED pending

\* _complete_pending, after the operation has shown s and f.
Completed(left, s, f) ==
  \/ pending /\ pending' = FALSE /\ Refreshed(root, left, s, f)
  \/ ~pending /\ AtRest(left) /\ shown' = s /\ diffShown' = f /\ UNCHANGED pending

\* The operation ends with a message; that of a status empties the diff, too.
Failed(left) ==
  IF op = "status" THEN Completed(left, None, None) ELSE Completed(left, shown, None)

-----------------------------------------------------------------------------
\* A plausible slip: the process is left running.
LeftRunning == {process}

\* What _stop_process leaves behind in set_root.  _finished finds its generation
\* out of date and makes the pending refresh at once, still for the old root.
Left ==
  IF process = None THEN {None}
  ELSE {None, Killed(process)}
       \cup (IF Busy /\ pending THEN {[dir |-> root, killed |-> FALSE]} ELSE {})

\* set_project: clears the panel, set_root, refresh_git.
SetProject(r) ==
  /\ r # root
  /\ root' = r
  /\ pending' = FALSE
  /\ overtaken' = (Busy /\ pending)
  /\ \E left \in Left : Refreshed(r, left, None, None)

\* refresh_git: the user shows the panel, a turn is completed or a file changed.
Refresh ==
  /\ IF Busy THEN pending' = TRUE /\ UNCHANGED <<op, untracked, timer, process, shown, diffShown>>
             ELSE Refreshed(root, process, shown, diffShown) /\ UNCHANGED pending
  /\ UNCHANGED <<root, overtaken>>

\* diff_for of a file of the project.  While git is busy the diff becomes a
\* refresh; a path outside of the project gives a message.
Diff ==
  /\ root # None
  /\ \/ /\ Busy /\ pending' = TRUE
        /\ UNCHANGED <<op, untracked, timer, process, shown, diffShown>>
     \/ /\ ~Busy /\ \E new \in BOOLEAN : Launch("diff", root, process, new)
        /\ UNCHANGED <<pending, shown, diffShown>>
     \/ /\ ~Busy /\ diffShown' = None
        /\ UNCHANGED <<op, untracked, timer, process, pending, shown>>
  /\ UNCHANGED <<root, overtaken>>

-----------------------------------------------------------------------------
\* _finished with an answer.
Succeeds ==
  /\ Busy /\ process # None /\ ~process.killed
  /\ IF op = "status" THEN Completed(None, process.dir, diffShown)
                      ELSE Completed(None, shown, process.dir)
  /\ UNCHANGED <<root, overtaken>>

\* _finished with an error, or killed: not a repository, binary, exit status.
Fails ==
  /\ Busy /\ process # None
  /\ Failed(None)
  /\ UNCHANGED <<root, overtaken>>

\* A diff in a repository without a commit is made again, against /dev/null.
FailsWithoutHead ==
  /\ op = "diff" /\ ~untracked /\ process # None /\ ~process.killed
  /\ Launch("diff", root, None, TRUE)
  /\ UNCHANGED <<root, pending, shown, diffShown, overtaken>>

\* _finished of a process nobody waits for.
EndsUnheeded ==
  /\ ~Busy /\ process # None
  /\ process' = None
  /\ UNCHANGED <<root, op, untracked, timer, pending, shown, diffShown, overtaken>>

\* _read_stdout: the output is too large.  Either _finished says so inside the
\* wait, or the process lingers, without a timer.
TooLarge ==
  /\ Busy /\ process # None
  /\ \/ Failed(None)
     \/ /\ process' = Killed(process) /\ timer' = FALSE
        /\ UNCHANGED <<op, untracked, pending, shown, diffShown>>
  /\ UNCHANGED <<root, overtaken>>

\* errorOccurred without finished: git is not there, or the directory is gone.
FailsToStart ==
  /\ process # None /\ ~process.killed
  /\ process' = None
  /\ UNCHANGED <<root, op, untracked, timer, pending, shown, diffShown, overtaken>>

TimedOut ==
  /\ timer /\ Busy
  /\ \E left \in IF process = None THEN {None} ELSE {None, Killed(process)} : Failed(left)
  /\ UNCHANGED <<root, overtaken>>

-----------------------------------------------------------------------------
Init ==
  /\ root = None /\ op = "none" /\ untracked = FALSE
  /\ process = None /\ timer = FALSE /\ pending = FALSE
  /\ shown = None /\ diffShown = None /\ overtaken = FALSE

Ends == process.killed /\ (Fails \/ EndsUnheeded)

Next ==
  \/ \E r \in Roots \cup {None} : SetProject(r)
  \/ Refresh \/ Diff
  \/ Succeeds \/ Fails \/ FailsWithoutHead \/ EndsUnheeded
  \/ TooLarge \/ FailsToStart \/ TimedOut

\* The event loop delivers a timeout, and the operating system the end of a
\* process that was killed.  Nothing says that git itself ever ends.
Spec ==
  /\ Init /\ [][Next]_vars
  /\ WF_vars(TimedOut)
  /\ WF_vars(process # None /\ Ends)

-----------------------------------------------------------------------------
Shown == Roots \cup {None}

\* The types of the variables; a process always runs in some directory.
TypeOK ==
  /\ {root, shown, diffShown} \subseteq Shown
  /\ op \in {"none", "status", "diff"}
  /\ {untracked, timer, pending, overtaken} \subseteq BOOLEAN
  /\ process \in {None} \cup [dir : Roots, killed : BOOLEAN]

\* The panel shows what git printed in the directory it is for, whatever process
\* of an earlier root ends, fails or lingers meanwhile (README: "scoped to the
\* authoritative active Project").  It may not after a switch that found a
\* refresh pending: _stop_process then starts git in the old root.
ShowsRoot == ~overtaken => {shown, diffShown} \subseteq {None, root}

\* An operation in progress has a timer or a killed process that will end it, and
\* only then does a refresh wait, also where the process never started.
OperationEnds ==
  /\ Busy => timer \/ (process # None /\ process.killed)
  /\ pending => Busy

\* A refresh asked for while git was busy is made or taken over by a switch, even
\* if git never answers.
RefreshCatchesUp == pending ~> ~pending

===============================================================================
