------------------------------- MODULE Workspace -------------------------------
(***************************************************************************)
(* The workspace of the desktop: which project and which root is active,   *)
(* the main Thread, the Thread history, and what is under way to the App   *)
(* Servers, one for each provider (WorkspaceController on ProviderRouter). *)
(*                                                                         *)
(* An action is a whole handler.  What interleaves are the user, who may   *)
(* switch at any moment, the answers, in any order, and the notifications. *)
(* A request is done by the App Server when it is answered.  AgentTasks    *)
(* models what goes on inside a task; here a task is a root to work in.    *)
(***************************************************************************)
EXTENDS Integers, FiniteSets, Sequences, Bags, TLC

CONSTANTS
  Projects,     (* by their paths                                            *)
  Providers,
  Tasks,
  ProjectOf,    (* ProjectOf[t]: the project of task t                       *)
  Old,          (* the threads of earlier sessions, as a sequence            *)
  None,
  MaxSent,      (* bounds the requests without an answer                     *)
  MaxThreads,   (* bounds the threads                                        *)
  MaxTurns,     (* bounds the turns at a time                                *)
  MaxFaults     (* bounds the ends of App Servers and of the desktop         *)

ASSUME WorkspaceAssumption ==
  /\ ProjectOf \in [Tasks -> Projects]
  /\ Old \in Seq([maker : Providers, home : Projects])
  /\ Projects \cap Tasks = {} /\ None \notin Projects \cup Tasks
  /\ {MaxSent, MaxThreads, MaxTurns, MaxFaults} \subseteq Nat /\ Len(Old) <= MaxThreads

VARIABLES
  rows,         (* registry: the projects                                    *)
  saved,        (* registry: active_project_id, or None                      *)
  savedTask,    (* registry: active_workspace_task_id, or None               *)
  listed,       (* registry: listed[p], the threads indexed for project p    *)
  last,         (* registry: last[p], the last thread of p, or 0             *)
  active,       (* active_project_id, or None                                *)
  context,      (* the active project or task, or None                       *)
  cwd,          (* the directory requests are made for                       *)
  draft,        (* draft_thread_project_id, or None                          *)
  thread,       (* the current thread of the router, or 0                    *)
  pending,      (* _pending_resume: the thread to be restored, or 0          *)
  summaries,    (* _thread_summaries                                         *)
  busy,
  ready,        (* the providers whose App Server is ready                   *)
  sent,         (* the bag of requests without an answer yet                 *)
  threads,      (* all threads: the provider and the directory of each       *)
  turns,        (* the bag of the threads whose turns run                    *)
  faults        (* ends of App Servers and of the desktop so far             *)

registry == <<rows, saved, savedTask, listed, last>>
place == <<active, context, cwd, draft>>
router == <<thread, pending, summaries, busy>>
servers == <<ready, threads, turns>>
vars == <<registry, place, router, servers, sent, faults>>

-----------------------------------------------------------------------------
Thread == 1 .. Len(threads)
Maker(h) == threads[h].maker
Home(h) == threads[h].home

Kinds == {"list", "start", "resume", "turn", "rename", "remove"}
Requests == [kind : Kinds, to : Providers, thread : 0 .. MaxThreads,
             cwd : Projects \cup Tasks \cup {None}, fresh : BOOLEAN]

\* A request carries the _workspace_generation it was made in; fresh says that
\* it is still the present one.
List(v, d) == [kind |-> "list", to |-> v, thread |-> 0, cwd |-> d, fresh |-> TRUE]
Opening(v, d) == [kind |-> "start", to |-> v, thread |-> 0, cwd |-> d, fresh |-> TRUE]
About(kind, h, d) == [kind |-> kind, to |-> Maker(h), thread |-> h, cwd |-> d, fresh |-> TRUE]
Lists(d) == {List(v, d) : v \in ready}

\* A plausible slip: entering another root leaves the generation alone.
SameGeneration(B) == B

\* The requests under way once _workspace_generation is raised.  The answer to
\* a list or a resume is then discarded and has changed nothing at the App
\* Server: those are not kept.
NextGeneration(B) ==
  LET kept == {r \in BagToSet(B) : r.kind \notin {"list", "resume"}}
      copies(r) == IF BagIn(r, B) THEN B[r] ELSE 0
  IN  [r \in {[x EXCEPT !.fresh = FALSE] : x \in kept} |->
         copies(r) + copies([r EXCEPT !.fresh = TRUE])]

Calm(n) == BagCardinality(sent) + n <= MaxSent

\* Request r is answered, and the requests in S are made.
Reply(r, S) == sent' = (sent (-) SetToBag({r})) (+) SetToBag(S)

-----------------------------------------------------------------------------
(* Switching: activate_project, activate_main_workspace, activate_agent_task. *)

\* set_workspace_path, with the requests S that the switch makes afterwards.
SetPath(d, S) ==
  /\ cwd' = d
  /\ summaries' = {} /\ thread' = 0 /\ busy' = FALSE
  /\ sent' = NextGeneration(sent) (+) SetToBag(Lists(d)) (+) SetToBag(S)

\* activate_project of p; the thread next is to be restored.
Enter(p, next, S) ==
  /\ saved' = p /\ savedTask' = None
  /\ active' = p /\ context' = p
  /\ pending' = next
  /\ SetPath(p, S)

\* activate_main_workspace, from a task.
EnterMain(S) ==
  /\ savedTask' = None /\ context' = active
  /\ SetPath(active, S)
  /\ UNCHANGED <<saved, active, pending>>

ActivateProject(p) ==
  /\ p \in rows /\ Calm(Cardinality(ready))
  /\ Enter(p, last[p], {}) /\ draft' = None
  /\ UNCHANGED <<rows, listed, last, servers, faults>>

\* add_project, which opens the one that is there already.
AddProject(p) ==
  /\ p \notin rows /\ Calm(Cardinality(ready))
  /\ rows' = rows \cup {p}
  /\ Enter(p, 0, {}) /\ draft' = None
  /\ UNCHANGED <<listed, last, servers, faults>>

\* activate_agent_task, by way of the project of the task where that is not the
\* active one: what the project asked for is out of date at once.  A worktree that
\* cannot be used leaves it at that, an ActivateProject.
ActivateTask(t) ==
  LET p == ProjectOf[t]
      moves == active # p
  IN  /\ p \in rows
      /\ saved' = p /\ savedTask' = t
      /\ active' = p /\ context' = t /\ cwd' = t
      /\ thread' = 0 /\ busy' = FALSE
      /\ IF moves
           THEN pending' = last[p] /\ summaries' = {} /\ draft' = None
           ELSE UNCHANGED <<pending, summaries, draft>>
      /\ sent' = NextGeneration(sent)
      /\ UNCHANGED <<rows, listed, last, servers, faults>>

\* A plausible slip: the list of projects is read before the removal.
ReadBefore == rows

\* The projects one of which is opened instead, the last one that was.
Remaining == rows \ {active}

\* remove_project of the active project, which has no tasks.
RemoveProject ==
  /\ active # None /\ active \notin {ProjectOf[t] : t \in Tasks}
  /\ Calm(Cardinality(ready))
  /\ rows' = rows \ {active}
  /\ listed' = [listed EXCEPT ![active] = {}]
  /\ last' = [last EXCEPT ![active] = 0]
  /\ IF Remaining # {}
       THEN \E p \in Remaining : Enter(p, last[p], {}) /\ draft' = None
       ELSE /\ saved' = None /\ savedTask' = None /\ active' = None /\ context' = None
            /\ pending' = 0
            /\ SetPath(None, {})
            /\ UNCHANGED draft
  /\ UNCHANGED <<servers, faults>>

\* remove_project of another project, which has no tasks either.
RemoveOther(p) ==
  /\ p \in rows \ {active} /\ p \notin {ProjectOf[t] : t \in Tasks}
  /\ rows' = rows \ {p}
  /\ listed' = [listed EXCEPT ![p] = {}]
  /\ last' = [last EXCEPT ![p] = 0]
  /\ UNCHANGED <<saved, savedTask, place, router, servers, sent, faults>>

-----------------------------------------------------------------------------
(* The user's operations on Threads.                                       *)

\* _workspace_consistent, for the main workspace
Consistent == active # None /\ cwd = active /\ (thread # 0 => Home(thread) = active)

\* new_thread_for_project
NewThread(p) ==
  /\ p \in rows
  /\ IF active # p THEN Calm(Cardinality(ready)) /\ Enter(p, last[p], {})
     ELSE IF context # p THEN Calm(Cardinality(ready)) /\ EnterMain({})
     ELSE /\ Consistent
          /\ thread' = 0 /\ busy' = FALSE
          /\ UNCHANGED <<saved, savedTask, active, context, cwd, pending, summaries, sent>>
  /\ last' = [last EXCEPT ![p] = 0]
  /\ draft' = p
  /\ UNCHANGED <<rows, listed, servers, faults>>

\* send_text in the main workspace.  The button is off while busy.  A new thread
\* is made by the provider that is selected, which may be any.
SendText ==
  /\ ~busy /\ Consistent /\ context = active /\ Calm(1)
  /\ IF thread = 0
       THEN \E v \in ready : sent' = sent (+) SetToBag({Opening(v, cwd)})
       ELSE Maker(thread) \in ready /\ sent' = sent (+) SetToBag({About("turn", thread, cwd)})
  /\ busy' = TRUE
  /\ UNCHANGED <<registry, place, thread, pending, summaries, servers, faults>>

\* resume_thread of a thread in the index of project p.
ResumeThread(p, h) ==
  LET resume == {r \in {About("resume", h, p)} : r.to \in ready}
      n == Cardinality(ready) + 1
  IN  /\ p \in rows /\ h \in listed[p]
      /\ IF active # p
           THEN /\ Calm(n)
                /\ Enter(p, IF resume = {} THEN h ELSE 0, resume) /\ draft' = None
         ELSE IF context # p THEN Calm(n) /\ EnterMain(resume) /\ UNCHANGED draft
         ELSE /\ Consistent /\ Calm(1)
              /\ sent' = sent (+) SetToBag(resume)
              /\ busy' = (busy /\ resume # {})
              /\ UNCHANGED <<saved, savedTask, active, context, cwd, draft, thread, pending, summaries>>
      /\ UNCHANGED <<rows, listed, last, servers, faults>>

\* rename_thread, archive_thread and delete_thread of a thread in the index.
ThreadAction(kind, h) ==
  /\ \E p \in rows : h \in listed[p]
  /\ IF Home(h) = cwd /\ Maker(h) \in ready
       THEN Calm(1) /\ sent' = sent (+) SetToBag({About(kind, h, cwd)}) /\ UNCHANGED busy
       ELSE busy' = FALSE /\ UNCHANGED sent
  /\ UNCHANGED <<registry, place, thread, pending, summaries, servers, faults>>

-----------------------------------------------------------------------------
(* The history, and the Thread it restores.                                *)

\* A plausible slip: whatever the router knows is history of this project.
NormalizedUnchecked(ts, S) == S

\* _on_router_history keeps the threads whose directory is the project's.
Normalized(ts, S) == {h \in S : ts[h].home = active}

Restores(S) == pending # 0 /\ pending \in Normalized(threads', S)
MayResume(h) == cwd = active /\ Maker(h) \in ready

\* Request r is answered and the router knows the threads in S: it tells the
\* workspace, which indexes them and resumes the one it is to restore.  Then
\* the router makes the requests in S1; stays is what its handler made of busy.
History(S, r, S1, stays) ==
  /\ summaries' = S
  /\ listed' = IF active = None THEN listed
               ELSE [listed EXCEPT ![active] = Normalized(threads', S)]
  /\ pending' = IF Restores(S) THEN 0 ELSE pending
  /\ busy' = (stays /\ (Restores(S) => MayResume(pending)))
  /\ Reply(r, S1 \cup (IF Restores(S) /\ MayResume(pending)
                         THEN {About("resume", pending, cwd)} ELSE {}))

\* _replace_current and _on_router_thread: h is the current thread.
Current(h) ==
  /\ thread' = h
  /\ draft' = None
  /\ last' = [last EXCEPT ![active] = h]

Listed(r) ==
  LET found == {h \in Thread : Maker(h) = r.to /\ Home(h) = r.cwd}
  IN  /\ r.kind = "list"
      /\ UNCHANGED servers
      /\ History(summaries \cup found, r, {}, busy)
      /\ UNCHANGED <<rows, saved, savedTask, last, place, thread, faults>>

\* thread/start is answered: the first turn is asked for at once.
ThreadStarted(r) ==
  LET h == Len(threads) + 1
      turn == [kind |-> "turn", to |-> r.to, thread |-> h, cwd |-> cwd, fresh |-> TRUE]
  IN  /\ r.kind = "start" /\ h <= MaxThreads
      /\ threads' = Append(threads, [maker |-> r.to, home |-> r.cwd])
      /\ IF r.fresh
           THEN /\ Current(h)
                /\ History(summaries \cup {h}, r, {turn}, busy)
           ELSE Reply(r, {}) /\ UNCHANGED <<listed, last, draft, router>>
      /\ UNCHANGED <<rows, saved, savedTask, active, context, cwd, ready, turns, faults>>

\* thread/resume is answered.
Resumed(r) ==
  /\ r.kind = "resume"
  /\ UNCHANGED servers
  /\ Current(r.thread)
  /\ listed' = [listed EXCEPT ![active] = @ \cup {r.thread}]
  /\ busy' = FALSE
  /\ Reply(r, {})
  /\ UNCHANGED <<rows, saved, savedTask, active, context, cwd, pending, summaries, faults>>

\* turn/start is answered, and the turn runs.
TurnAccepted(r) ==
  /\ r.kind = "turn" /\ BagCardinality(turns) < MaxTurns
  /\ turns' = turns (+) SetToBag({r.thread})
  /\ Reply(r, {})
  /\ UNCHANGED <<registry, place, router, ready, threads, faults>>

\* _thread_action_completed does not look at the generation.
Renamed(r) ==
  /\ r.kind = "rename"
  /\ UNCHANGED servers
  /\ History(summaries \cup {r.thread}, r, {}, busy)
  /\ UNCHANGED <<rows, saved, savedTask, last, place, thread, faults>>

\* archive or delete.  Whether the thread stays away is the App Server's
\* business: the next list may show it again.
Removed(r) ==
  /\ r.kind = "remove"
  /\ UNCHANGED servers
  /\ thread' = IF thread = r.thread THEN 0 ELSE thread
  /\ History(summaries \ {r.thread}, r, {}, busy /\ thread # r.thread)
  /\ UNCHANGED <<rows, saved, savedTask, last, place, faults>>

\* A plausible slip: _fail reports the error and leaves busy alone.
ReportedOnly(S) == busy

\* _fail, in the callbacks of the requests in S that are not discarded.
BusyAfter(S) == busy /\ \A r \in S : ~r.fresh /\ r.kind \notin {"rename", "remove"}

\* An answer with an error.
Refused(r) ==
  /\ Reply(r, {})
  /\ busy' = BusyAfter({r})
  /\ UNCHANGED <<registry, place, thread, pending, summaries, servers, faults>>

-----------------------------------------------------------------------------
(* Turns.                                                                  *)

\* turn/completed of a turn of h counts for the current thread only.
TurnCompleted(h) ==
  /\ turns' = turns (-) SetToBag({h})
  /\ busy' = (busy /\ thread # h)
  /\ UNCHANGED <<registry, place, thread, pending, summaries, ready, threads, sent, faults>>

-----------------------------------------------------------------------------
(* App Servers and the desktop.                                            *)

\* A plausible slip: the root is left at the project's.
LeftAtProject(d) == d

\* cwd after the history was asked for in directory d.
Restored(d) == cwd

\* _on_backend_ready lists the threads of the project, also from a task.
ProviderReady(v) ==
  LET d == IF context = None THEN cwd ELSE active
  IN  /\ v \notin ready /\ Calm(1)
      /\ ready' = ready \cup {v}
      /\ sent' = sent (+) SetToBag({List(v, d)})
      /\ cwd' = Restored(d)
      /\ UNCHANGED <<registry, active, context, draft, router, threads, turns, faults>>

\* The App Server of v is gone and with it what it was about to do; its pending
\* requests are called back with an error.
Ends(v) ==
  /\ v \in ready /\ faults < MaxFaults
  /\ faults' = faults + 1
  /\ ready' = ready \ {v}
  /\ LET lost == {r \in BagToSet(sent) : r.to = v}
         cut == {h \in BagToSet(turns) : Maker(h) = v}
     IN  /\ sent' = [r \in BagToSet(sent) \ lost |-> sent[r]]
         /\ turns' = [h \in BagToSet(turns) \ cut |-> turns[h]]
         /\ busy' = BusyAfter(lost)
  /\ UNCHANGED <<registry, place, thread, pending, summaries, threads>>

ProviderDies(v) == Ends(v)

\* set_provider_api_key restarts the App Server of v.
ChangeKey(v) == ~(busy /\ thread # 0 /\ Maker(thread) = v) /\ Ends(v)

\* The desktop is started again on what the registry says, which may be half of
\* a switch: the project is written first, the task that is left after it.
Restart ==
  /\ faults < MaxFaults
  /\ faults' = faults + 1
  /\ ready' = {} /\ turns' = EmptyBag /\ sent' = EmptyBag
  /\ \E p \in IF rows = {} THEN {None} ELSE rows :
     \E t \in {None} \cup {x \in Tasks : x = savedTask /\ ProjectOf[x] = p} :
       /\ saved' = p /\ savedTask' = t
       /\ active' = p /\ context' = IF t = None THEN p ELSE t
       /\ pending' = IF p = None THEN 0 ELSE last[p]
  /\ cwd' = context'
  /\ draft' = None /\ thread' = 0 /\ summaries' = {} /\ busy' = FALSE
  /\ UNCHANGED <<rows, listed, last, threads>>

-----------------------------------------------------------------------------
Init ==
  /\ rows = Projects /\ saved \in Projects /\ savedTask = None
  /\ listed = [p \in Projects |-> {h \in 1 .. Len(Old) : Old[h].home = p}]
  /\ last \in {f \in [Projects -> 0 .. Len(Old)] : \A p \in Projects : f[p] \in listed[p] \cup {0}}
  /\ active = saved /\ context = saved /\ cwd = saved /\ draft = None
  /\ thread = 0 /\ pending = last[saved] /\ summaries = {} /\ busy = FALSE
  /\ ready = {} /\ sent = EmptyBag
  /\ threads = Old /\ turns = EmptyBag
  /\ faults = 0

Answered(r) ==
  \/ Listed(r) \/ ThreadStarted(r) \/ Resumed(r) \/ TurnAccepted(r)
  \/ Renamed(r) \/ Removed(r) \/ Refused(r)

Switch ==
  \/ \E p \in Projects : ActivateProject(p) \/ AddProject(p) \/ NewThread(p) \/ RemoveOther(p)
  \/ \E t \in Tasks : ActivateTask(t)
  \/ \E p \in Projects : \E h \in listed[p] : ResumeThread(p, h)
  \/ RemoveProject

Command ==
  \/ Switch \/ SendText
  \/ \E kind \in {"rename", "remove"}, h \in Thread : ThreadAction(kind, h)
  \/ \E v \in Providers : ChangeKey(v)

Next ==
  \/ Command
  \/ \E r \in BagToSet(sent) : Answered(r)
  \/ \E h \in BagToSet(turns) : TurnCompleted(h)
  \/ \E v \in Providers : ProviderReady(v) \/ ProviderDies(v)
  \/ Restart

Spec == Init /\ [][Next]_vars

-----------------------------------------------------------------------------
\* The types of the variables.
TypeOK ==
  /\ rows \subseteq Projects /\ saved \in rows \cup {None} /\ savedTask \in Tasks \cup {None}
  /\ listed \in [Projects -> SUBSET Thread] /\ last \in [Projects -> {0} \cup Thread]
  /\ active \in Projects \cup {None} /\ context \in Projects \cup Tasks \cup {None}
  /\ cwd \in Projects \cup Tasks \cup {None} /\ draft \in Projects \cup {None}
  /\ {thread, pending} \subseteq {0} \cup Thread /\ summaries \subseteq Thread
  /\ busy \in BOOLEAN
  /\ ready \subseteq Providers
  /\ IsABag(sent) /\ BagToSet(sent) \subseteq Requests
  /\ threads \in Seq([maker : Providers, home : Projects]) /\ Len(threads) <= MaxThreads
  /\ IsABag(turns) /\ BagToSet(turns) \subseteq Thread
  /\ faults \in 0 .. MaxFaults

\* One authority for the active project (README): the root of requests, the
\* context, the draft and what the registry restores all follow active_project_id.
OneAuthority ==
  /\ cwd = context
  /\ active = saved
  /\ IF active = None THEN rows = {} /\ context = None /\ savedTask = None
     ELSE /\ active \in rows
          /\ IF context \in Tasks THEN ProjectOf[context] = active /\ savedTask = context
                                  ELSE context = active /\ savedTask = None
          /\ draft # None => draft = active /\ thread = 0

\* No answer that comes late puts a thread where it does not belong: the current
\* thread, the index and the thread to be restored are of their own project.
ThreadsAtHome ==
  /\ thread # 0 => Home(thread) = active /\ context = active
  /\ \A p \in Projects :
       /\ \A h \in listed[p] : Home(h) = p
       /\ last[p] # 0 => Home(last[p]) = p

\* A turn or an operation reaches its thread in the App Server it was made by
\* and in the directory it was made for, whatever is selected or switched while
\* thread/start and the first turn are under way.
RoutedHome ==
  \A r \in BagToSet(sent) : r.thread # 0 => r.to = Maker(r.thread) /\ r.cwd = Home(r.thread)

\* The composer is off only while something is under way that will free it:
\* a message that is still to be answered in this generation, or a turn of the
\* current thread.  An App Server that ends in the middle of a turn leaves it off.
BusyIsFreed ==
  busy /\ faults = 0 =>
    \/ \E r \in BagToSet(sent) : r.fresh /\ r.kind \in {"start", "turn"}
    \/ BagIn(thread, turns)

=============================================================================
