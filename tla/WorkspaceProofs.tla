---------------------------- MODULE WorkspaceProofs ----------------------------
(***************************************************************************)
(* Safety of the workspace for any projects, tasks, providers and threads: *)
(* one authority for the active project, no answer that puts a thread or   *)
(* sends a turn where it does not belong, and a composer that is freed.    *)
(***************************************************************************)
EXTENDS Workspace, TLAPS

Threads == [maker : Providers, home : Projects]

\* A request as the proofs need it: no bound on the threads.
Message == [kind : Kinds, to : Providers, thread : Nat,
            cwd : Projects \cup Tasks \cup {None}, fresh : BOOLEAN]

\* Request r is for its thread in ts; one that will make a thread current in
\* the context c of the active project a is of that project.
AtHome(r, ts, a, c) ==
  /\ r \in Message
  /\ r.thread # 0 => /\ r.thread \in 1 .. Len(ts)
                     /\ r.to = ts[r.thread].maker
                     /\ r.cwd = ts[r.thread].home
  /\ r.kind = "start" => r.cwd \in Projects
  /\ r.kind = "start" /\ r.fresh => r.cwd = a /\ c = a
  /\ r.kind \notin {"list", "start"} => r.thread # 0
  /\ r.kind = "resume" => r.cwd = a /\ c = a

\* What the variables range over, as far as the proofs need it.
Typed ==
  /\ rows \subseteq Projects /\ ready \subseteq Providers
  /\ threads \in Seq(Threads)
  /\ listed \in [Projects -> SUBSET Thread]
  /\ last \in [Projects -> {0} \cup Thread]
  /\ thread \in {0} \cup Thread /\ pending \in {0} \cup Thread
  /\ summaries \subseteq Thread

SentHome == \A r \in BagToSet(sent) : AtHome(r, threads, active, context)

\* The inductive invariant.
WorkspaceInv == Typed /\ OneAuthority /\ ThreadsAtHome /\ SentHome

-----------------------------------------------------------------------------
(* Bags and requests.                                                      *)

\* What is in a sum of bags, and in a bag that one element was taken from.
LEMMA BagSum ==
  ASSUME NEW A, NEW B, NEW S
  PROVE  /\ BagToSet(SetToBag(S)) = S
         /\ BagToSet(A (+) SetToBag(S)) = BagToSet(A) \cup S
         /\ BagToSet(A (+) B) = BagToSet(A) \cup BagToSet(B)
BY DEF BagToSet, SetToBag, (+)

LEMMA BagLess ==
  ASSUME NEW A, NEW B
  PROVE  BagToSet(A (-) B) \subseteq BagToSet(A)
BY DEF BagToSet, (-)

\* A request that became out of date is otherwise what it was.
LEMMA Outdated ==
  ASSUME SentHome, NEW r \in BagToSet(NextGeneration(sent))
  PROVE  \A a, c : AtHome(r, threads, a, c)
<1>1. PICK x \in BagToSet(sent) : /\ x.kind \notin {"list", "resume"}
                                  /\ r = [x EXCEPT !.fresh = FALSE]
  BY DEF NextGeneration, BagToSet
<1>2. AtHome(x, threads, active, context) /\ x \in Message
  BY DEF SentHome, AtHome
<1>3. /\ r \in Message /\ r.kind = x.kind /\ r.to = x.to
      /\ r.thread = x.thread /\ r.cwd = x.cwd /\ r.fresh = FALSE
  BY <1>1, <1>2 DEF Message
<1> QED BY <1>1, <1>2, <1>3 DEF AtHome

\* A request for the threads of a directory.
LEMMA ListHome ==
  ASSUME NEW v \in Providers, NEW d \in Projects \cup Tasks \cup {None}, NEW a, NEW c
  PROVE  AtHome(List(v, d), threads, a, c)
<1>1. /\ List(v, d).kind = "list" /\ List(v, d).to = v /\ List(v, d).thread = 0
      /\ List(v, d).cwd = d /\ List(v, d).fresh = TRUE
  BY DEF List
<1>2. List(v, d) \in Message
  BY DEF List, Message, Kinds
<1> QED BY <1>1, <1>2 DEF AtHome

\* The requests a switch leaves under way.
LEMMA SetPathHome ==
  ASSUME Typed, SentHome, NEW d \in Projects \cup Tasks \cup {None}, NEW a, NEW c,
         NEW S, \A r \in S : AtHome(r, threads, a, c), SetPath(d, S)
  PROVE  \A r \in BagToSet(sent') : AtHome(r, threads, a, c)
<1>1. sent' = NextGeneration(sent) (+) SetToBag(Lists(d)) (+) SetToBag(S)
  BY DEF SetPath
<1>2. BagToSet(sent') = BagToSet(NextGeneration(sent)) \cup Lists(d) \cup S
  BY <1>1, BagSum
<1>3. ASSUME NEW r \in Lists(d) PROVE AtHome(r, threads, a, c)
  BY ListHome DEF Lists, Typed
<1> QED BY <1>2, <1>3, Outdated

\* A thread has a maker and a home.
LEMMA ThreadType ==
  ASSUME Typed, NEW h \in Thread
  PROVE  h \in Nat /\ h # 0 /\ Maker(h) \in Providers /\ Home(h) \in Projects
<1>1. Len(threads) \in Nat /\ threads \in [1 .. Len(threads) -> Threads]
  BY DEF Typed
<1>2. h \in 1 .. Len(threads)
  BY DEF Thread
<1>3. threads[h] \in Threads
  BY <1>1, <1>2
<1> QED BY <1>1, <1>2, <1>3 DEF Threads, Maker, Home

\* A request about thread h, in its directory.
LEMMA AboutHome ==
  ASSUME Typed, NEW h \in Thread, NEW kind \in Kinds \ {"start", "list"}, NEW a, NEW c,
         kind = "resume" => Home(h) = a /\ c = a
  PROVE  AtHome(About(kind, h, Home(h)), threads, a, c)
<1> DEFINE r == About(kind, h, Home(h))
<1>1. /\ h \in Nat /\ h # 0 /\ h \in 1 .. Len(threads)
      /\ Maker(h) \in Providers /\ Home(h) \in Projects
  BY ThreadType DEF Thread
<1>2. /\ r.kind = kind /\ r.to = Maker(h) /\ r.thread = h /\ r.cwd = Home(h) /\ r.fresh = TRUE
      /\ r \in Message
  BY <1>1 DEF About, Message, Kinds
<1> QED BY <1>1, <1>2 DEF AtHome, Maker, Home
-----------------------------------------------------------------------------
(* The inductive invariant.                                                *)

\* The index of a project holds its own threads.
IndexHome ==
  \A p \in Projects : /\ \A h \in listed[p] : Home(h) = p
                      /\ last[p] # 0 => Home(last[p]) = p

\* The initial states.
LEMMA InitWorkspaceInv == Init => WorkspaceInv
<1> SUFFICES ASSUME Init PROVE WorkspaceInv
  OBVIOUS
<1> USE WorkspaceAssumption
<1>1. /\ threads = Old /\ Old \in Seq(Threads) /\ Len(Old) \in Nat
      /\ Thread = 1 .. Len(Old) /\ \A h : Home(h) = Old[h].home
  BY DEF Init, Threads, Thread, Home
<1>2. Typed
  <2>1. /\ listed \in [Projects -> SUBSET Thread] /\ last \in [Projects -> {0} \cup Thread]
    BY <1>1 DEF Init
  <2>2. pending \in {0} \cup Thread
    BY <2>1 DEF Init
  <2> QED BY <1>1, <2>1, <2>2 DEF Init, Typed
<1>3. OneAuthority
  BY DEF Init, OneAuthority
<1>4. IndexHome
  BY <1>1 DEF Init, IndexHome
<1>5. ThreadsAtHome
  BY <1>4 DEF Init, ThreadsAtHome, IndexHome
<1>6. SentHome
  BY DEF Init, SentHome, EmptyBag, BagToSet, SetToBag
<1> QED BY <1>2, <1>3, <1>5, <1>6 DEF WorkspaceInv

\* Entering project p, with requests that are at home there.
LEMMA EnterStep ==
  ASSUME WorkspaceInv, NEW p \in Projects, NEW next \in {0} \cup Thread, NEW S,
         \A r \in S : AtHome(r, threads, p, p), Enter(p, next, S),
         p \in rows', rows' \subseteq Projects, draft' \in {None, p}, UNCHANGED servers,
         listed' \in [Projects -> SUBSET Thread], last' \in [Projects -> {0} \cup Thread],
         IndexHome'
  PROVE  WorkspaceInv'
<1> USE WorkspaceAssumption
<1>1. /\ saved' = p /\ savedTask' = None /\ active' = p /\ context' = p /\ pending' = next
      /\ cwd' = p /\ summaries' = {} /\ thread' = 0 /\ SetPath(p, S)
  BY DEF Enter, SetPath
<1>2. threads' = threads /\ ready' = ready /\ Thread' = Thread
  BY DEF servers, Thread
<1>3. Typed'
  BY <1>1, <1>2 DEF WorkspaceInv, Typed
<1>4. OneAuthority'
  BY <1>1 DEF OneAuthority
<1>5. ThreadsAtHome'
  BY <1>1 DEF ThreadsAtHome, IndexHome
<1>6. SentHome'
  BY <1>1, <1>2, SetPathHome DEF WorkspaceInv, SentHome
<1> QED BY <1>3, <1>4, <1>5, <1>6 DEF WorkspaceInv

\* Leaving a task for the main workspace of its project.
LEMMA EnterMainStep ==
  ASSUME WorkspaceInv, active # None, NEW S,
         \A r \in S : AtHome(r, threads, active, active), EnterMain(S),
         draft' \in {None, active}, UNCHANGED <<rows, listed, servers>>,
         last' \in [Projects -> {0} \cup Thread], IndexHome'
  PROVE  WorkspaceInv'
<1> USE WorkspaceAssumption
<1>1. /\ saved' = saved /\ savedTask' = None /\ active' = active /\ context' = active
      /\ pending' = pending /\ cwd' = active /\ summaries' = {} /\ thread' = 0
      /\ SetPath(active, S)
  BY DEF EnterMain, SetPath
<1>2. threads' = threads /\ ready' = ready /\ Thread' = Thread /\ rows' = rows /\ listed' = listed
  BY DEF servers, Thread
<1>3. active \in Projects /\ active \in rows
  BY DEF WorkspaceInv, OneAuthority, Typed
<1>4. Typed'
  BY <1>1, <1>2 DEF WorkspaceInv, Typed
<1>5. OneAuthority'
  BY <1>1, <1>2, <1>3 DEF WorkspaceInv, OneAuthority
<1>6. ThreadsAtHome'
  BY <1>1 DEF ThreadsAtHome, IndexHome
<1>7. SentHome'
  BY <1>1, <1>2, <1>3, SetPathHome DEF WorkspaceInv, SentHome
<1> QED BY <1>4, <1>5, <1>6, <1>7 DEF WorkspaceInv

\* The facts about the state that the steps use.
LEMMA Facts ==
  ASSUME WorkspaceInv
  PROVE  /\ rows \subseteq Projects /\ ready \subseteq Providers /\ IndexHome
         /\ listed \in [Projects -> SUBSET Thread] /\ last \in [Projects -> {0} \cup Thread]
         /\ cwd = context /\ active = saved
         /\ active # None => active \in rows
         /\ active = None => context = None /\ rows = {}
         /\ context \in Tasks => ProjectOf[context] = active
         /\ cwd \in Projects \cup Tasks \cup {None}
<1> USE WorkspaceAssumption
<1>1. IndexHome
  BY DEF WorkspaceInv, ThreadsAtHome, IndexHome
<1>2. /\ rows \subseteq Projects /\ ready \subseteq Providers
      /\ listed \in [Projects -> SUBSET Thread] /\ last \in [Projects -> {0} \cup Thread]
  BY DEF WorkspaceInv, Typed
<1>3. /\ cwd = context /\ active = saved
      /\ active # None => active \in rows
      /\ active = None => context = None /\ rows = {}
      /\ context \in Tasks => ProjectOf[context] = active
      /\ context \notin Tasks => context = active
  BY DEF WorkspaceInv, OneAuthority
<1> QED BY <1>1, <1>2, <1>3

\* Nothing but requests, turns and the flags of the router changes.
LEMMA SamePlace ==
  ASSUME WorkspaceInv, UNCHANGED <<rows, saved, savedTask, active, context, cwd, draft, thread, threads>>,
         listed' \in [Projects -> SUBSET Thread], last' \in [Projects -> {0} \cup Thread],
         IndexHome', ready' \subseteq Providers,
         pending' \in {0} \cup Thread, summaries' \subseteq Thread,
         NEW S, \A r \in S : AtHome(r, threads, active, context),
         BagToSet(sent') \subseteq BagToSet(sent) \cup S
  PROVE  WorkspaceInv'
<1>1. Thread' = Thread
  BY DEF Thread
<1>2. Typed'
  BY <1>1 DEF WorkspaceInv, Typed
<1>3. OneAuthority'
  BY DEF WorkspaceInv, OneAuthority
<1>4. ThreadsAtHome'
  BY DEF WorkspaceInv, ThreadsAtHome, IndexHome, Home
<1>5. SentHome'
  BY DEF WorkspaceInv, SentHome
<1> QED BY <1>2, <1>3, <1>4, <1>5 DEF WorkspaceInv

\* The same with an index that stays as well.
LEMMA SameIndex ==
  ASSUME WorkspaceInv, UNCHANGED <<registry, place, thread, pending, threads>>,
         ready' \subseteq Providers, summaries' = summaries,
         NEW S, \A r \in S : AtHome(r, threads, active, context),
         BagToSet(sent') \subseteq BagToSet(sent) \cup S
  PROVE  WorkspaceInv'
<1>1. /\ UNCHANGED <<rows, saved, savedTask, listed, last>>
      /\ UNCHANGED <<active, context, cwd, draft, thread, pending, threads>>
  BY DEF registry, place
<1>2. IndexHome'
  BY <1>1, Facts DEF IndexHome, Home
<1>3. /\ listed \in [Projects -> SUBSET Thread] /\ last \in [Projects -> {0} \cup Thread]
      /\ pending \in {0} \cup Thread /\ summaries \subseteq Thread
  BY DEF WorkspaceInv, Typed
<1> QED BY <1>1, <1>2, <1>3, SamePlace

-----------------------------------------------------------------------------
(* Switching.                                                              *)

LEMMA ActivateProjectStep ==
  ASSUME WorkspaceInv, NEW p \in Projects, ActivateProject(p)
  PROVE  WorkspaceInv'
<1>1. /\ p \in rows /\ Enter(p, last[p], {}) /\ draft' = None
      /\ UNCHANGED <<rows, listed, last, servers, faults>>
  BY DEF ActivateProject
<1>2. /\ p \in rows' /\ rows' \subseteq Projects /\ last[p] \in {0} \cup Thread
      /\ listed' \in [Projects -> SUBSET Thread] /\ last' \in [Projects -> {0} \cup Thread]
  BY <1>1, Facts
<1>3. IndexHome'
  BY <1>1, Facts DEF IndexHome, Home, servers
<1>4. UNCHANGED servers /\ draft' \in {None, p}
  BY <1>1
<1> DEFINE S == {}
<1>5. Enter(p, last[p], S) /\ \A r \in S : AtHome(r, threads, p, p)
  BY <1>1
<1> HIDE DEF S
<1> QED BY <1>2, <1>3, <1>4, <1>5, EnterStep

LEMMA AddProjectStep ==
  ASSUME WorkspaceInv, NEW p \in Projects, AddProject(p)
  PROVE  WorkspaceInv'
<1>1. /\ rows' = rows \cup {p} /\ Enter(p, 0, {}) /\ draft' = None
      /\ UNCHANGED <<listed, last, servers, faults>>
  BY DEF AddProject
<1>2. /\ p \in rows' /\ rows' \subseteq Projects /\ 0 \in {0} \cup Thread
      /\ listed' \in [Projects -> SUBSET Thread] /\ last' \in [Projects -> {0} \cup Thread]
  BY <1>1, Facts
<1>3. IndexHome'
  BY <1>1, Facts DEF IndexHome, Home, servers
<1> QED BY <1>1, <1>2, <1>3, EnterStep

LEMMA ActivateTaskStep ==
  ASSUME WorkspaceInv, NEW t \in Tasks, ActivateTask(t)
  PROVE  WorkspaceInv'
<1> USE WorkspaceAssumption
<1> DEFINE p == ProjectOf[t]
<1>1. /\ p \in rows /\ p \in Projects /\ p # None
      /\ saved' = p /\ savedTask' = t /\ active' = p /\ context' = t /\ cwd' = t
      /\ thread' = 0 /\ sent' = NextGeneration(sent)
      /\ UNCHANGED <<rows, listed, last, servers>>
      /\ active # p => pending' = last[p] /\ summaries' = {} /\ draft' = None
      /\ active = p => UNCHANGED <<pending, summaries, draft>>
  BY DEF ActivateTask
<1>2. threads' = threads /\ ready' = ready /\ Thread' = Thread
  BY <1>1 DEF servers, Thread
<1>3. Typed'
  BY <1>1, <1>2 DEF WorkspaceInv, Typed
<1>4. OneAuthority'
  BY <1>1 DEF WorkspaceInv, OneAuthority
<1>5. ThreadsAtHome'
  BY <1>1, <1>2 DEF WorkspaceInv, ThreadsAtHome, Home
<1>6. SentHome'
  BY <1>1, <1>2, Outdated DEF WorkspaceInv, SentHome
<1> QED BY <1>3, <1>4, <1>5, <1>6 DEF WorkspaceInv

\* The index without project p is still one of threads at home.
LEMMA RemovedIndex ==
  ASSUME WorkspaceInv, NEW p, UNCHANGED threads,
         listed' = [listed EXCEPT ![p] = {}], last' = [last EXCEPT ![p] = 0]
  PROVE  /\ listed' \in [Projects -> SUBSET Thread] /\ last' \in [Projects -> {0} \cup Thread]
         /\ IndexHome'
BY Facts DEF IndexHome, Home

LEMMA RemoveProjectStep ==
  ASSUME WorkspaceInv, RemoveProject
  PROVE  WorkspaceInv'
<1> USE WorkspaceAssumption
<1>1. /\ active # None /\ rows' = rows \ {active}
      /\ listed' = [listed EXCEPT ![active] = {}] /\ last' = [last EXCEPT ![active] = 0]
      /\ UNCHANGED servers
  BY DEF RemoveProject
<1>2. threads' = threads /\ ready' = ready /\ Thread' = Thread
  BY <1>1 DEF servers, Thread
<1>3. /\ listed' \in [Projects -> SUBSET Thread] /\ last' \in [Projects -> {0} \cup Thread]
      /\ IndexHome'
  BY <1>1, <1>2, RemovedIndex
<1>4. CASE Remaining # {}
  <2>1. PICK p \in Remaining : Enter(p, last[p], {}) /\ draft' = None
    BY <1>4 DEF RemoveProject
  <2>2. p \in Projects /\ p \in rows' /\ rows' \subseteq Projects /\ last[p] \in {0} \cup Thread
    BY <1>1, Facts DEF Remaining
  <2> QED BY <1>1, <1>3, <2>1, <2>2, EnterStep, Facts
<1>5. CASE Remaining = {}
  <2>1. /\ saved' = None /\ savedTask' = None /\ active' = None /\ context' = None
        /\ pending' = 0 /\ SetPath(None, {})
    BY <1>5 DEF RemoveProject
  <2>2. cwd' = None /\ thread' = 0 /\ summaries' = {} /\ rows' = {}
    BY <1>1, <1>5, <2>1 DEF SetPath, Remaining
  <2>3. Typed'
    BY <1>2, <1>3, <2>1, <2>2 DEF WorkspaceInv, Typed
  <2>4. OneAuthority' /\ ThreadsAtHome'
    BY <1>3, <2>1, <2>2 DEF OneAuthority, ThreadsAtHome, IndexHome
  <2>5. SentHome'
    BY <1>2, <2>1, SetPathHome DEF WorkspaceInv, SentHome
  <2> QED BY <2>3, <2>4, <2>5 DEF WorkspaceInv
<1> QED BY <1>4, <1>5

LEMMA RemoveOtherStep ==
  ASSUME WorkspaceInv, NEW p \in Projects, RemoveOther(p)
  PROVE  WorkspaceInv'
<1> USE WorkspaceAssumption
<1>1. /\ p \in rows \ {active} /\ rows' = rows \ {p}
      /\ listed' = [listed EXCEPT ![p] = {}] /\ last' = [last EXCEPT ![p] = 0]
      /\ UNCHANGED <<saved, savedTask, active, context, cwd, draft>>
      /\ UNCHANGED <<thread, pending, summaries, ready, threads, sent>>
  BY DEF RemoveOther, place, router, servers
<1>2. /\ listed' \in [Projects -> SUBSET Thread] /\ last' \in [Projects -> {0} \cup Thread]
      /\ IndexHome'
  BY <1>1, RemovedIndex
<1>3. Typed'
  BY <1>1, <1>2 DEF WorkspaceInv, Typed, Thread
<1>4. OneAuthority'
  BY <1>1 DEF WorkspaceInv, OneAuthority
<1>5. ThreadsAtHome'
  BY <1>1, <1>2 DEF WorkspaceInv, ThreadsAtHome, IndexHome, Home
<1>6. SentHome'
  BY <1>1 DEF WorkspaceInv, SentHome
<1> QED BY <1>3, <1>4, <1>5, <1>6 DEF WorkspaceInv

-----------------------------------------------------------------------------
(* The user's operations on Threads.                                       *)

LEMMA NewThreadStep ==
  ASSUME WorkspaceInv, NEW p \in Projects, NewThread(p)
  PROVE  WorkspaceInv'
<1> USE WorkspaceAssumption
<1>1. /\ p \in rows /\ last' = [last EXCEPT ![p] = 0] /\ draft' = p
      /\ UNCHANGED <<rows, listed, servers, faults>>
  BY DEF NewThread
<1>2. threads' = threads /\ Thread' = Thread /\ p # None
  BY <1>1 DEF servers, Thread
<1>3. /\ listed' \in [Projects -> SUBSET Thread] /\ last' \in [Projects -> {0} \cup Thread]
      /\ p \in rows' /\ rows' \subseteq Projects /\ draft' \in {None, p}
      /\ last[p] \in {0} \cup Thread /\ UNCHANGED servers
  BY <1>1, Facts
<1>4. IndexHome'
  BY <1>1, <1>2, Facts DEF IndexHome, Home
<1>5. CASE active # p
  <2>1. Enter(p, last[p], {})
    BY <1>5 DEF NewThread
  <2> QED BY <1>3, <1>4, <2>1, EnterStep
<1>6. CASE active = p /\ context # p
  <2>1. EnterMain({})
    BY <1>6 DEF NewThread
  <2> QED BY <1>1, <1>2, <1>3, <1>4, <1>6, <2>1, EnterMainStep
<1>7. CASE active = p /\ context = p
  <2>1. /\ thread' = 0
        /\ UNCHANGED <<saved, savedTask, active, context, cwd, pending, summaries, sent>>
        /\ ready' = ready
    BY <1>1, <1>7 DEF NewThread, servers
  <2>2. Typed'
    BY <1>1, <1>2, <1>3, <2>1 DEF WorkspaceInv, Typed
  <2>3. OneAuthority'
    BY <1>1, <1>7, <2>1 DEF WorkspaceInv, OneAuthority
  <2>4. ThreadsAtHome'
    BY <1>4, <2>1 DEF ThreadsAtHome, IndexHome
  <2>5. SentHome'
    BY <1>2, <2>1 DEF WorkspaceInv, SentHome
  <2> QED BY <2>2, <2>3, <2>4, <2>5 DEF WorkspaceInv
<1> QED BY <1>5, <1>6, <1>7

LEMMA SendTextStep ==
  ASSUME WorkspaceInv, SendText
  PROVE  WorkspaceInv'
<1> USE WorkspaceAssumption
<1>1. /\ Consistent /\ context = active
      /\ UNCHANGED <<registry, place, thread, pending, summaries, servers, faults>>
  BY DEF SendText
<1>2. active \in Projects /\ cwd = active
  BY <1>1, Facts DEF Consistent
<1>3. CASE thread = 0
  <2>1. PICK v \in ready : sent' = sent (+) SetToBag({Opening(v, cwd)})
    BY <1>3 DEF SendText
  <2>2. v \in Providers /\ Opening(v, cwd) \in Message
    BY <1>2, Facts DEF Opening, Message, Kinds
  <2>3. /\ Opening(v, cwd).kind = "start" /\ Opening(v, cwd).thread = 0
        /\ Opening(v, cwd).cwd = cwd
    BY DEF Opening
  <2> DEFINE S == {Opening(v, cwd)}
  <2>4. \A r \in S : AtHome(r, threads, active, context)
    BY <1>1, <1>2, <2>2, <2>3 DEF AtHome
  <2>5. BagToSet(sent') \subseteq BagToSet(sent) \cup S
    BY <2>1, BagSum
  <2>6. /\ UNCHANGED <<registry, place, thread, pending, threads>>
        /\ ready' \subseteq Providers /\ summaries' = summaries
    BY <1>1, Facts DEF servers
  <2> HIDE DEF S
  <2> QED BY <2>4, <2>5, <2>6, SameIndex
<1>4. CASE thread # 0
  <2>1. sent' = sent (+) SetToBag({About("turn", thread, cwd)})
    BY <1>4 DEF SendText
  <2>2. thread \in Thread /\ Home(thread) = cwd
    BY <1>2, <1>4 DEF WorkspaceInv, Typed, ThreadsAtHome
  <2>3. AtHome(About("turn", thread, cwd), threads, active, context)
    <3>1. "turn" \in Kinds \ {"start", "list"} /\ "turn" # "resume"
      BY DEF Kinds
    <3> QED BY <2>2, <3>1, AboutHome DEF WorkspaceInv
  <2> DEFINE S == {About("turn", thread, cwd)}
  <2>4. BagToSet(sent') \subseteq BagToSet(sent) \cup S
    BY <2>1, BagSum
  <2>5. \A r \in S : AtHome(r, threads, active, context)
    BY <2>3
  <2>6. /\ UNCHANGED <<registry, place, thread, pending, threads>>
        /\ ready' \subseteq Providers /\ summaries' = summaries
    BY <1>1, Facts DEF servers
  <2> HIDE DEF S
  <2> QED BY <2>4, <2>5, <2>6, SameIndex
<1> QED BY <1>3, <1>4

LEMMA ResumeThreadStep ==
  ASSUME WorkspaceInv, NEW p \in Projects, NEW h \in listed[p], ResumeThread(p, h)
  PROVE  WorkspaceInv'
<1> USE WorkspaceAssumption
<1> DEFINE resume == {r \in {About("resume", h, p)} : r.to \in ready}
<1>1. h \in Thread /\ Home(h) = p /\ "resume" \in Kinds \ {"start", "list"}
  BY Facts DEF IndexHome, Kinds
<1>2. AtHome(About("resume", h, p), threads, p, p)
  BY <1>1, AboutHome DEF WorkspaceInv
<1>3. \A r \in resume : AtHome(r, threads, p, p)
  BY <1>2
<1>4. /\ UNCHANGED <<rows, listed, last, servers, faults>>
      /\ threads' = threads /\ Thread' = Thread /\ ready' = ready
  BY DEF ResumeThread, servers, Thread
<1>5. /\ listed' \in [Projects -> SUBSET Thread] /\ last' \in [Projects -> {0} \cup Thread]
      /\ IndexHome'
  BY <1>4, Facts DEF IndexHome, Home
<1> HIDE DEF resume
<1>6. CASE active # p
  <2>1. /\ Enter(p, IF resume = {} THEN h ELSE 0, resume) /\ draft' = None
        /\ p \in rows
    BY <1>6 DEF ResumeThread, resume
  <2>2. /\ p \in rows' /\ rows' \subseteq Projects /\ draft' \in {None, p} /\ UNCHANGED servers
        /\ (IF resume = {} THEN h ELSE 0) \in {0} \cup Thread
    BY <1>1, <1>4, <2>1, Facts
  <2> QED BY <1>3, <1>5, <2>1, <2>2, EnterStep
<1>7. CASE active = p /\ context # p
  <2>1. EnterMain(resume) /\ UNCHANGED draft
    BY <1>7 DEF ResumeThread, resume
  <2>2. draft' \in {None, active} /\ active # None
    BY <1>7, <2>1 DEF WorkspaceInv, OneAuthority
  <2> QED BY <1>3, <1>4, <1>5, <1>7, <2>1, <2>2, EnterMainStep
<1>8. CASE active = p /\ context = p
  <2>1. /\ sent' = sent (+) SetToBag(resume)
        /\ UNCHANGED <<saved, savedTask, active, context, cwd, draft, thread, pending, summaries>>
    BY <1>8 DEF ResumeThread, resume
  <2>2. BagToSet(sent') \subseteq BagToSet(sent) \cup resume
    BY <2>1, BagSum
  <2>3. /\ UNCHANGED <<registry, place, thread, pending, threads>>
        /\ ready' \subseteq Providers /\ summaries' = summaries
    BY <1>4, <2>1, Facts DEF registry, place
  <2> QED BY <1>3, <1>8, <2>2, <2>3, SameIndex
<1> QED BY <1>6, <1>7, <1>8

LEMMA ThreadActionStep ==
  ASSUME WorkspaceInv, NEW kind \in {"rename", "remove"}, NEW h \in Thread, ThreadAction(kind, h)
  PROVE  WorkspaceInv'
<1>1. UNCHANGED <<registry, place, thread, pending, summaries, servers, faults>>
  BY DEF ThreadAction
<1>2. /\ UNCHANGED <<registry, place, thread, pending, threads>>
      /\ ready' \subseteq Providers /\ summaries' = summaries
  BY <1>1, Facts DEF servers
<1>3. CASE Home(h) = cwd /\ sent' = sent (+) SetToBag({About(kind, h, cwd)})
  <2>1. kind \in Kinds \ {"start", "list"} /\ kind # "resume"
    BY DEF Kinds
  <2> DEFINE S == {About(kind, h, cwd)}
  <2>2. \A r \in S : AtHome(r, threads, active, context)
    BY <1>3, <2>1, AboutHome DEF WorkspaceInv
  <2>3. BagToSet(sent') \subseteq BagToSet(sent) \cup S
    BY <1>3, BagSum
  <2> HIDE DEF S
  <2> QED BY <1>2, <2>2, <2>3, SameIndex
<1>4. CASE UNCHANGED sent
  <2> DEFINE S == {}
  <2>1. /\ BagToSet(sent') \subseteq BagToSet(sent) \cup S
        /\ \A r \in S : AtHome(r, threads, active, context)
    BY <1>4
  <2> HIDE DEF S
  <2> QED BY <1>2, <2>1, SameIndex
<1> QED BY <1>3, <1>4 DEF ThreadAction

-----------------------------------------------------------------------------
(* Answers.                                                                *)

\* What is under way after an answer to r and the requests in S.
LEMMA ReplySent ==
  ASSUME NEW r, NEW S, Reply(r, S)
  PROVE  BagToSet(sent') \subseteq BagToSet(sent) \cup S
BY BagSum, BagLess DEF Reply

\* The threads may grow at the end; what is known of the old ones stays.
Grown ==
  /\ threads' \in Seq(Threads) /\ Thread \subseteq Thread'
  /\ \A h \in Thread : threads'[h] = threads[h]

LEMMA UnchangedGrown ==
  ASSUME WorkspaceInv, UNCHANGED threads
  PROVE  Grown
BY DEF WorkspaceInv, Typed, Grown, Thread

LEMMA AppendGrown ==
  ASSUME WorkspaceInv, NEW new \in Threads, threads' = Append(threads, new)
  PROVE  /\ Grown
         /\ Len(threads) + 1 \in Thread' /\ threads'[Len(threads) + 1] = new
         /\ Len(threads) + 1 \in Nat \ {0}
<1>1. threads \in Seq(Threads) /\ Len(threads) \in Nat
  BY DEF WorkspaceInv, Typed
<1>2. /\ threads' \in Seq(Threads) /\ Len(threads') = Len(threads) + 1
      /\ threads'[Len(threads) + 1] = new
      /\ \A i \in 1 .. Len(threads) : threads'[i] = threads[i]
  BY <1>1
<1> QED BY <1>1, <1>2 DEF Grown, Thread

\* A request stays at home when the threads grow.
LEMMA GrownHome ==
  ASSUME Grown, NEW r, NEW a, NEW c, AtHome(r, threads, a, c)
  PROVE  AtHome(r, threads', a, c)
BY DEF Grown, AtHome, Thread

\* Telling the workspace the history: its index is of its own threads, and the
\* Thread it restores is one of them.
LEMMA HistoryStep ==
  ASSUME WorkspaceInv, Grown, NEW S \in SUBSET Thread', NEW r, NEW S1, NEW stays,
         History(S, r, S1, stays)
  PROVE  /\ listed' \in [Projects -> SUBSET Thread'] /\ pending' \in {0} \cup Thread'
         /\ summaries' = S
         /\ \A p \in Projects : \A h \in listed'[p] : threads'[h].home = p
         /\ \A x \in BagToSet(sent') :
              AtHome(x, threads', active, context) \/ x \in S1
<1> USE WorkspaceAssumption
<1>1. /\ summaries' = S
      /\ listed' = IF active = None THEN listed
                   ELSE [listed EXCEPT ![active] = Normalized(threads', S)]
      /\ pending' \in {0, pending}
  BY DEF History
<1>2. Normalized(threads', S) \subseteq Thread'
      /\ \A h \in Normalized(threads', S) : threads'[h].home = active
  BY DEF Normalized
<1>3. /\ listed \in [Projects -> SUBSET Thread'] /\ pending \in {0} \cup Thread
      /\ Thread \subseteq Thread'
      /\ \A p \in Projects : \A h \in listed[p] : threads'[h].home = p
  BY Facts DEF WorkspaceInv, Typed, Grown, IndexHome, Home
<1>4. listed' \in [Projects -> SUBSET Thread'] /\ pending' \in {0} \cup Thread'
  BY <1>1, <1>2, <1>3
<1>5. \A p \in Projects : \A h \in listed'[p] : threads'[h].home = p
  BY <1>1, <1>2, <1>3
<1> DEFINE restored == IF Restores(S) /\ MayResume(pending)
                         THEN {About("resume", pending, cwd)} ELSE {}
<1>6. ASSUME NEW x \in restored PROVE AtHome(x, threads', active, context)
  <2>1. x = About("resume", pending, cwd) /\ Restores(S) /\ MayResume(pending)
    BY <1>6
  <2>2. pending \in Thread /\ threads'[pending].home = active
    BY <1>2, <1>3, <2>1 DEF Restores
  <2>3. Home(pending) = active /\ cwd = active /\ context = active
    BY <2>1, <2>2, Facts DEF Grown, Home, MayResume
  <2>4. "resume" \in Kinds \ {"start", "list"}
    BY DEF Kinds
  <2>5. AtHome(About("resume", pending, cwd), threads, active, context)
    BY <2>2, <2>3, <2>4, AboutHome DEF WorkspaceInv
  <2> QED BY <2>1, <2>5, GrownHome
<1>7. \A x \in BagToSet(sent) : AtHome(x, threads', active, context)
  BY GrownHome DEF WorkspaceInv, SentHome
<1>8. BagToSet(sent') \subseteq BagToSet(sent) \cup (S1 \cup restored)
  BY ReplySent DEF History
<1> QED BY <1>1, <1>4, <1>5, <1>6, <1>7, <1>8

\* A step of the router that tells the history and leaves the threads alone.
LEMMA ToldStep ==
  ASSUME WorkspaceInv, NEW S \in SUBSET Thread, NEW r, NEW stays,
         History(S, r, {}, stays), UNCHANGED <<rows, saved, savedTask, last, place, servers>>,
         thread' \in {0, thread}
  PROVE  WorkspaceInv'
<1> USE WorkspaceAssumption
<1>1. /\ UNCHANGED <<rows, saved, savedTask, last, active, context, cwd, draft>>
      /\ threads' = threads /\ ready' = ready /\ Thread' = Thread
  BY DEF place, servers, Thread
<1>2. Grown
  BY <1>1, UnchangedGrown
<1>3. /\ listed' \in [Projects -> SUBSET Thread'] /\ pending' \in {0} \cup Thread'
      /\ summaries' = S
      /\ \A p \in Projects : \A h \in listed'[p] : threads'[h].home = p
      /\ \A x \in BagToSet(sent') : AtHome(x, threads', active, context)
  BY <1>1, <1>2, HistoryStep
<1>4. Typed'
  BY <1>1, <1>3 DEF WorkspaceInv, Typed
<1>5. OneAuthority'
  BY <1>1 DEF WorkspaceInv, OneAuthority
<1>6. ThreadsAtHome'
  BY <1>1, <1>3 DEF WorkspaceInv, ThreadsAtHome, Home
<1>7. SentHome'
  BY <1>1, <1>3 DEF SentHome
<1> QED BY <1>4, <1>5, <1>6, <1>7 DEF WorkspaceInv

\* An answer that changes nothing of the place, the index and the threads.
LEMMA QuietStep ==
  ASSUME WorkspaceInv, NEW r, Reply(r, {}),
         UNCHANGED <<registry, place, thread, pending, summaries, ready, threads>>
  PROVE  WorkspaceInv'
<1> DEFINE S == {}
<1>1. /\ BagToSet(sent') \subseteq BagToSet(sent) \cup S
      /\ \A x \in S : AtHome(x, threads, active, context)
  BY ReplySent
<1>2. /\ UNCHANGED <<registry, place, thread, pending, threads>>
      /\ ready' \subseteq Providers /\ summaries' = summaries
  BY Facts
<1> HIDE DEF S
<1> QED BY <1>1, <1>2, SameIndex

LEMMA ListedStep ==
  ASSUME WorkspaceInv, NEW r \in BagToSet(sent), Listed(r)
  PROVE  WorkspaceInv'
<1> DEFINE found == {h \in Thread : Maker(h) = r.to /\ Home(h) = r.cwd}
<1>1. /\ History(summaries \cup found, r, {}, busy)
      /\ UNCHANGED <<rows, saved, savedTask, last, place, servers>> /\ thread' = thread
  BY DEF Listed
<1>2. summaries \cup found \in SUBSET Thread
  BY DEF WorkspaceInv, Typed
<1> HIDE DEF found
<1> QED BY <1>1, <1>2, ToldStep

LEMMA RenamedStep ==
  ASSUME WorkspaceInv, NEW r \in BagToSet(sent), Renamed(r) \/ Removed(r)
  PROVE  WorkspaceInv'
<1>1. summaries \subseteq Thread
  BY DEF WorkspaceInv, Typed
<1>2. CASE Renamed(r)
  <2>1. /\ r.kind = "rename" /\ History(summaries \cup {r.thread}, r, {}, busy)
        /\ UNCHANGED <<rows, saved, savedTask, last, place, servers>> /\ thread' = thread
    BY <1>2 DEF Renamed
  <2>2. r.thread \in Thread
    BY <2>1 DEF WorkspaceInv, SentHome, AtHome, Thread
  <2>3. summaries \cup {r.thread} \in SUBSET Thread
    BY <1>1, <2>2
  <2> QED BY <2>1, <2>3, ToldStep
<1>3. CASE Removed(r)
  <2>1. /\ History(summaries \ {r.thread}, r, {}, busy /\ thread # r.thread)
        /\ UNCHANGED <<rows, saved, savedTask, last, place, servers>> /\ thread' \in {0, thread}
    BY <1>3 DEF Removed
  <2>2. summaries \ {r.thread} \in SUBSET Thread
    BY <1>1
  <2> QED BY <2>1, <2>2, ToldStep
<1> QED BY <1>2, <1>3

LEMMA ThreadStartedStep ==
  ASSUME WorkspaceInv, NEW r \in BagToSet(sent), ThreadStarted(r)
  PROVE  WorkspaceInv'
<1> USE WorkspaceAssumption
<1> DEFINE h == Len(threads) + 1
           turn == [kind |-> "turn", to |-> r.to, thread |-> h, cwd |-> cwd, fresh |-> TRUE]
           new == [maker |-> r.to, home |-> r.cwd]
<1>1. /\ r.kind = "start" /\ threads' = Append(threads, new)
      /\ UNCHANGED <<rows, saved, savedTask, active, context, cwd, ready>>
  BY DEF ThreadStarted
<1>2. AtHome(r, threads, active, context) /\ r.to \in Providers /\ r.cwd \in Projects
  BY <1>1 DEF WorkspaceInv, SentHome, AtHome, Message
<1>3. new \in Threads
  BY <1>2 DEF Threads
<1>4. Grown /\ h \in Thread' /\ threads'[h] = new /\ h \in Nat \ {0}
  BY <1>1, <1>3, AppendGrown
<1>5. /\ threads'[h].maker = r.to /\ threads'[h].home = r.cwd
  BY <1>4
<1>6. /\ threads' \in Seq(Threads) /\ Thread \subseteq Thread'
      /\ \A x \in Thread : threads'[x].home = Home(x)
  BY <1>4 DEF Grown, Home
<1> HIDE DEF h, new
<1>7. CASE r.fresh
  <2>1. Current(h) /\ History(summaries \cup {h}, r, {turn}, busy)
    BY <1>7 DEF ThreadStarted, h
  <2>2. r.cwd = active /\ context = active /\ cwd = active /\ active \in Projects
    BY <1>1, <1>2, <1>7, Facts DEF AtHome
  <2>3. summaries \cup {h} \in SUBSET Thread'
    BY <1>4, <1>6 DEF WorkspaceInv, Typed
  <2>4. AtHome(turn, threads', active, context)
    <3>1. /\ turn.kind = "turn" /\ turn.to = r.to /\ turn.thread = h /\ turn.cwd = cwd
      OBVIOUS
    <3>2. turn \in Message
      BY <1>2, <1>4, <2>2 DEF Message, Kinds
    <3> HIDE DEF turn
    <3> QED BY <1>4, <1>5, <2>2, <3>1, <3>2 DEF AtHome, Thread
  <2> HIDE DEF turn
  <2> DEFINE S == summaries \cup {h}
             S1 == {turn}
  <2>5. /\ listed' \in [Projects -> SUBSET Thread'] /\ pending' \in {0} \cup Thread'
        /\ summaries' = S
        /\ \A p \in Projects : \A x \in listed'[p] : threads'[x].home = p
        /\ \A x \in BagToSet(sent') : AtHome(x, threads', active, context) \/ x \in S1
    <3>1. History(S, r, S1, busy) /\ S \in SUBSET Thread'
      BY <2>1, <2>3
    <3> HIDE DEF S, S1
    <3> QED BY <1>4, <3>1, HistoryStep
  <2>6. thread' = h /\ draft' = None /\ last' = [last EXCEPT ![active] = h]
    BY <2>1 DEF Current
  <2>7. Typed'
    BY <1>1, <1>4, <1>6, <2>3, <2>5, <2>6 DEF WorkspaceInv, Typed
  <2>8. OneAuthority'
    BY <1>1, <2>6 DEF WorkspaceInv, OneAuthority
  <2>9. ThreadsAtHome'
    BY <1>1, <1>5, <1>6, <2>2, <2>5, <2>6 DEF WorkspaceInv, Typed, ThreadsAtHome, Home
  <2>10. SentHome'
    BY <1>1, <2>4, <2>5 DEF SentHome
  <2> QED BY <2>7, <2>8, <2>9, <2>10 DEF WorkspaceInv
<1>8. CASE ~r.fresh
  <2>1. /\ Reply(r, {}) /\ UNCHANGED <<listed, last, draft>>
        /\ UNCHANGED <<thread, pending, summaries>>
    BY <1>8 DEF ThreadStarted, router
  <2>2. Typed'
    BY <1>1, <1>6, <2>1 DEF WorkspaceInv, Typed
  <2>3. OneAuthority'
    BY <1>1, <2>1 DEF WorkspaceInv, OneAuthority
  <2>4. ThreadsAtHome'
    BY <1>1, <1>6, <2>1 DEF WorkspaceInv, Typed, ThreadsAtHome, Home
  <2>5. SentHome'
    BY <1>1, <1>4, <2>1, ReplySent, GrownHome DEF WorkspaceInv, SentHome
  <2> QED BY <2>2, <2>3, <2>4, <2>5 DEF WorkspaceInv
<1> QED BY <1>7, <1>8

LEMMA ResumedStep ==
  ASSUME WorkspaceInv, NEW r \in BagToSet(sent), Resumed(r)
  PROVE  WorkspaceInv'
<1> USE WorkspaceAssumption
<1>1. /\ r.kind = "resume" /\ Reply(r, {})
      /\ thread' = r.thread /\ draft' = None /\ last' = [last EXCEPT ![active] = r.thread]
      /\ listed' = [listed EXCEPT ![active] = @ \cup {r.thread}]
      /\ UNCHANGED <<rows, saved, savedTask, active, context, cwd, pending, summaries, servers>>
  BY DEF Resumed, Current
<1>2. threads' = threads /\ ready' = ready /\ Thread' = Thread
  BY <1>1 DEF servers, Thread
<1>3. r.thread \in Thread /\ Home(r.thread) = active /\ context = active
  BY <1>1 DEF WorkspaceInv, SentHome, AtHome, Thread, Home
<1>4. Typed'
  BY <1>1, <1>2, <1>3 DEF WorkspaceInv, Typed
<1>5. OneAuthority'
  BY <1>1 DEF WorkspaceInv, OneAuthority
<1>6. ThreadsAtHome'
  BY <1>1, <1>2, <1>3 DEF WorkspaceInv, Typed, ThreadsAtHome, Home
<1>7. SentHome'
  BY <1>1, <1>2, ReplySent DEF WorkspaceInv, SentHome
<1> QED BY <1>4, <1>5, <1>6, <1>7 DEF WorkspaceInv

LEMMA AnsweredStep ==
  ASSUME WorkspaceInv, NEW r \in BagToSet(sent), Answered(r)
  PROVE  WorkspaceInv'
<1>1. CASE TurnAccepted(r)
  <2>1. Reply(r, {}) /\ UNCHANGED <<registry, place, thread, pending, summaries, ready, threads>>
    BY <1>1 DEF TurnAccepted, router
  <2> QED BY <2>1, QuietStep
<1>2. CASE Refused(r)
  <2>1. Reply(r, {}) /\ UNCHANGED <<registry, place, thread, pending, summaries, ready, threads>>
    BY <1>2 DEF Refused, servers
  <2> QED BY <2>1, QuietStep
<1> QED
  BY <1>1, <1>2, ListedStep, ThreadStartedStep, ResumedStep, RenamedStep DEF Answered

-----------------------------------------------------------------------------
(* App Servers, turns and the desktop.                                     *)

LEMMA TurnCompletedStep ==
  ASSUME WorkspaceInv, NEW h, TurnCompleted(h)
  PROVE  WorkspaceInv'
<1> DEFINE S == {}
<1>1. /\ UNCHANGED <<registry, place, thread, pending, threads>>
      /\ ready' \subseteq Providers /\ summaries' = summaries
  BY Facts DEF TurnCompleted
<1>2. /\ BagToSet(sent') \subseteq BagToSet(sent) \cup S
      /\ \A r \in S : AtHome(r, threads, active, context)
  BY DEF TurnCompleted
<1> HIDE DEF S
<1> QED BY <1>1, <1>2, SameIndex

LEMMA ProviderReadyStep ==
  ASSUME WorkspaceInv, NEW v \in Providers, ProviderReady(v)
  PROVE  WorkspaceInv'
<1> DEFINE d == IF context = None THEN cwd ELSE active
           S == {List(v, d)}
<1>1. /\ UNCHANGED <<registry, place, thread, pending, threads>>
      /\ ready' \subseteq Providers /\ summaries' = summaries
  BY Facts DEF ProviderReady, Restored, place, router
<1>2. d \in Projects \cup Tasks \cup {None}
  BY Facts
<1>3. sent' = sent (+) SetToBag(S)
  BY DEF ProviderReady
<1>4. \A r \in S : AtHome(r, threads, active, context)
  BY <1>2, ListHome
<1> HIDE DEF S
<1>5. BagToSet(sent') \subseteq BagToSet(sent) \cup S
  BY <1>3, BagSum
<1> QED BY <1>1, <1>4, <1>5, SameIndex

LEMMA EndsStep ==
  ASSUME WorkspaceInv, NEW v \in Providers, Ends(v)
  PROVE  WorkspaceInv'
<1> DEFINE S == {}
<1>1. /\ UNCHANGED <<registry, place, thread, pending, threads>>
      /\ ready' \subseteq Providers /\ summaries' = summaries
  BY Facts DEF Ends
<1>2. /\ BagToSet(sent') \subseteq BagToSet(sent) \cup S
      /\ \A r \in S : AtHome(r, threads, active, context)
  BY DEF Ends, BagToSet
<1> HIDE DEF S
<1> QED BY <1>1, <1>2, SameIndex

LEMMA RestartStep ==
  ASSUME WorkspaceInv, Restart
  PROVE  WorkspaceInv'
<1> USE WorkspaceAssumption
<1>1. PICK p \in IF rows = {} THEN {None} ELSE rows :
      \E t \in {None} \cup {x \in Tasks : x = savedTask /\ ProjectOf[x] = p} :
        /\ saved' = p /\ savedTask' = t
        /\ active' = p /\ context' = IF t = None THEN p ELSE t
        /\ pending' = IF p = None THEN 0 ELSE last[p]
  BY DEF Restart
<1>2. PICK t \in {None} \cup {x \in Tasks : x = savedTask /\ ProjectOf[x] = p} :
        /\ saved' = p /\ savedTask' = t
        /\ active' = p /\ context' = IF t = None THEN p ELSE t
        /\ pending' = IF p = None THEN 0 ELSE last[p]
  BY <1>1
<1>3. /\ ready' = {} /\ sent' = EmptyBag /\ cwd' = context'
      /\ draft' = None /\ thread' = 0 /\ summaries' = {}
      /\ UNCHANGED <<rows, listed, last, threads>> /\ Thread' = Thread
  BY DEF Restart, Thread
<1>4. /\ p = None => rows = {}
      /\ p # None => p \in rows /\ p \in Projects
  BY <1>1, Facts
<1>5. Typed'
  BY <1>2, <1>3, <1>4 DEF WorkspaceInv, Typed
<1>6. OneAuthority'
  BY <1>2, <1>3, <1>4 DEF OneAuthority
<1>7. ThreadsAtHome'
  BY <1>3 DEF WorkspaceInv, ThreadsAtHome, Home
<1>8. SentHome'
  BY <1>3 DEF SentHome, EmptyBag, BagToSet, SetToBag
<1> QED BY <1>5, <1>6, <1>7, <1>8 DEF WorkspaceInv

-----------------------------------------------------------------------------
(* The theorems.                                                           *)

\* Every step keeps the invariant.
LEMMA NextWorkspaceInv == WorkspaceInv /\ [Next]_vars => WorkspaceInv'
<1> SUFFICES ASSUME WorkspaceInv, [Next]_vars PROVE WorkspaceInv'
  OBVIOUS
<1>1. CASE Switch
  BY <1>1, ActivateProjectStep, AddProjectStep, NewThreadStep, RemoveOtherStep,
     ActivateTaskStep, ResumeThreadStep, RemoveProjectStep DEF Switch
<1>2. CASE SendText
  BY <1>2, SendTextStep
<1>3. ASSUME NEW kind \in {"rename", "remove"}, NEW h \in Thread, ThreadAction(kind, h)
      PROVE  WorkspaceInv'
  BY <1>3, ThreadActionStep
<1>4. ASSUME NEW v \in Providers, ChangeKey(v) \/ ProviderDies(v)
      PROVE  WorkspaceInv'
  BY <1>4, EndsStep DEF ChangeKey, ProviderDies
<1>5. ASSUME NEW r \in BagToSet(sent), Answered(r)
      PROVE  WorkspaceInv'
  BY <1>5, AnsweredStep
<1>6. ASSUME NEW h \in BagToSet(turns), TurnCompleted(h)
      PROVE  WorkspaceInv'
  BY <1>6, TurnCompletedStep
<1>7. ASSUME NEW v \in Providers, ProviderReady(v)
      PROVE  WorkspaceInv'
  BY <1>7, ProviderReadyStep
<1>8. CASE Restart
  BY <1>8, RestartStep
<1>9. CASE UNCHANGED vars
  BY <1>9 DEF vars, registry, place, router, servers, WorkspaceInv, Typed, OneAuthority,
     ThreadsAtHome, SentHome, Thread, Home
<1> QED
  BY <1>1, <1>2, <1>3, <1>4, <1>5, <1>6, <1>7, <1>8, <1>9 DEF Next, Command

\* The root of requests, the context, the draft and the registry follow
\* active_project_id through every switch, answer, crash and restart.
THEOREM SingleAuthority == Spec => []OneAuthority
<1>1. WorkspaceInv => OneAuthority
  BY DEF WorkspaceInv
<1> QED BY InitWorkspaceInv, NextWorkspaceInv, <1>1, PTL DEF Spec

\* The current Thread, the last one and the index of a project are its own,
\* in whatever order the answers come.
THEOREM NoThreadAstray == Spec => []ThreadsAtHome
<1>1. WorkspaceInv => ThreadsAtHome
  BY DEF WorkspaceInv
<1> QED BY InitWorkspaceInv, NextWorkspaceInv, <1>1, PTL DEF Spec

\* A turn or an operation goes to the App Server of its thread and works in the
\* directory of that thread.
THEOREM NoTurnAstray == Spec => []RoutedHome
<1>1. WorkspaceInv => RoutedHome
  BY DEF WorkspaceInv, SentHome, AtHome, RoutedHome, Maker, Home
<1> QED BY InitWorkspaceInv, NextWorkspaceInv, <1>1, PTL DEF Spec

-----------------------------------------------------------------------------
(* The other types, and the composer.                                      *)

\* What the types say beside the invariant.
Counted ==
  /\ draft \in Projects \cup {None} /\ busy \in BOOLEAN
  /\ IsABag(sent)
  /\ Len(threads) <= MaxThreads
  /\ IsABag(turns) /\ BagToSet(turns) \subseteq Thread
  /\ faults \in 0 .. MaxFaults

\* Request r will free the composer: a message that is to become a new Thread,
\* or one that is to become a turn of the current Thread.
Frees(r) == r.fresh = TRUE /\ (r.kind = "start" \/ (r.kind = "turn" /\ r.thread = thread))

\* BusyIsFreed, with the turn that was asked for one of the current Thread.
Freed ==
  busy /\ faults = 0 => (\E r \in BagToSet(sent) : Frees(r)) \/ BagIn(thread, turns)

ComposerInv == Counted /\ Freed

\* A step under which what will free the composer stays as it is.
Awaits ==
  /\ busy' => busy
  /\ thread' = thread
  /\ \A r \in BagToSet(sent) : r.kind \in {"start", "turn"} => r \in BagToSet(sent')
  /\ BagToSet(turns) \subseteq BagToSet(turns')

\* Bags stay bags.
LEMMA BagTypes ==
  ASSUME NEW A, IsABag(A), NEW S
  PROVE  /\ IsABag(SetToBag(S))
         /\ IsABag(A (+) SetToBag(S))
         /\ IsABag(A (-) SetToBag(S))
<1>1. IsABag(SetToBag(S))
  BY DEF IsABag, SetToBag
<1>2. IsABag(A (+) SetToBag(S))
  BY DEF IsABag, SetToBag, (+)
<1>3. IsABag(A (-) SetToBag(S))
  BY DEF IsABag, SetToBag, (-)
<1> QED BY <1>1, <1>2, <1>3

\* All but one element stay in a bag that it is taken from.
LEMMA BagRest ==
  ASSUME NEW A, IsABag(A), NEW e
  PROVE  BagToSet(A) \ {e} \subseteq BagToSet(A (-) SetToBag({e}))
BY DEF IsABag, BagToSet, SetToBag, (-)

\* The requests in S are made.
LEMMA Asked ==
  ASSUME IsABag(sent), NEW S, sent' = sent (+) SetToBag(S)
  PROVE  IsABag(sent') /\ BagToSet(sent') = BagToSet(sent) \cup S
<1>1. IsABag(sent')
  BY BagTypes
<1>2. BagToSet(sent (+) SetToBag(S)) = BagToSet(sent) \cup S
  BY BagSum
<1> QED BY <1>1, <1>2

\* An answer to r leaves the other requests under way, and makes those in S.
LEMMA ReplyKeeps ==
  ASSUME IsABag(sent), NEW r, NEW S, Reply(r, S)
  PROVE  /\ IsABag(sent')
         /\ (BagToSet(sent) \ {r}) \cup S \subseteq BagToSet(sent')
<1> DEFINE rest == sent (-) SetToBag({r})
<1>1. sent' = rest (+) SetToBag(S) /\ IsABag(rest)
  BY BagTypes DEF Reply
<1>2. BagToSet(sent) \ {r} \subseteq BagToSet(rest)
  BY BagRest
<1> HIDE DEF rest
<1>3. BagToSet(sent') = BagToSet(rest) \cup S
  BY <1>1, BagSum
<1>4. IsABag(sent')
  BY <1>1, BagTypes
<1> QED BY <1>2, <1>3, <1>4

\* What a switch leaves under way is a bag.
LEMMA OutdatedBag ==
  ASSUME SentHome, IsABag(sent)
  PROVE  IsABag(NextGeneration(sent))
<1> DEFINE copies(r) == IF BagIn(r, sent) THEN sent[r] ELSE 0
           B == NextGeneration(sent)
<1>1. \A r : copies(r) \in Nat /\ (BagIn(r, sent) => copies(r) > 0)
  BY DEF IsABag, BagIn, BagToSet
<1>2. ASSUME NEW r \in DOMAIN B
      PROVE  B[r] = copies(r) + copies([r EXCEPT !.fresh = TRUE])
  BY <1>2 DEF NextGeneration
<1>3. ASSUME NEW r \in DOMAIN B
      PROVE  BagIn(r, sent) \/ BagIn([r EXCEPT !.fresh = TRUE], sent)
  <2>1. PICK x \in BagToSet(sent) : r = [x EXCEPT !.fresh = FALSE]
    BY <1>3 DEF NextGeneration
  <2>2. x \in Message
    BY DEF SentHome, AtHome
  <2>3. x.fresh = FALSE => r = x
    BY <2>1, <2>2 DEF Message
  <2>4. x.fresh = TRUE => [r EXCEPT !.fresh = TRUE] = x
    BY <2>1, <2>2 DEF Message
  <2>5. x.fresh \in BOOLEAN
    BY <2>2 DEF Message
  <2> QED BY <2>3, <2>4, <2>5 DEF BagIn
<1>4. B = [r \in DOMAIN B |-> B[r]]
  BY DEF NextGeneration
<1> HIDE DEF B
<1>5. \A r \in DOMAIN B : B[r] \in {n \in Nat : n > 0}
  <2> SUFFICES ASSUME NEW r \in DOMAIN B PROVE B[r] \in {n \in Nat : n > 0}
    OBVIOUS
  <2> DEFINE x == copies(r)
             y == copies([r EXCEPT !.fresh = TRUE])
  <2>1. x \in Nat /\ y \in Nat /\ (x > 0 \/ y > 0) /\ B[r] = x + y
    BY <1>1, <1>2, <1>3
  <2> HIDE DEF x, y
  <2> QED BY <2>1
<1> QED BY <1>4, <1>5 DEF IsABag, B

\* A switch frees the composer.
LEMMA SetPathComposer ==
  ASSUME SentHome, IsABag(sent), NEW d, NEW S, SetPath(d, S)
  PROVE  IsABag(sent') /\ busy' = FALSE
<1>1. sent' = NextGeneration(sent) (+) SetToBag(Lists(d)) (+) SetToBag(S) /\ busy' = FALSE
  BY DEF SetPath
<1> QED BY <1>1, OutdatedBag, BagTypes

\* The commands of the user.  Each frees the composer, leaves alone what will,
\* or is a message.
LEMMA CommandComposer ==
  ASSUME WorkspaceInv, Counted, Switch \/ SendText
         \/ \E kind \in {"rename", "remove"}, h \in Thread : ThreadAction(kind, h)
  PROVE  /\ draft' \in Projects \cup {None} /\ busy' \in BOOLEAN /\ IsABag(sent')
         /\ UNCHANGED <<threads, turns, faults>>
         /\ \/ busy' = FALSE \/ Awaits
            \/ thread' = thread /\ \E r \in BagToSet(sent') : Frees(r)
<1> USE DEF servers, place, router
<1>0. SentHome /\ IsABag(sent) /\ draft \in Projects \cup {None} /\ busy \in BOOLEAN
  BY DEF WorkspaceInv, Counted
<1>1. ASSUME NEW d, NEW S, SetPath(d, S)
      PROVE  IsABag(sent') /\ busy' = FALSE
  BY <1>0, <1>1, SetPathComposer
<1>2. ASSUME NEW p \in Projects, ActivateProject(p) \/ AddProject(p)
      PROVE  /\ draft' = None /\ \E d, S : SetPath(d, S)
             /\ UNCHANGED <<threads, turns, faults>>
  BY <1>2 DEF ActivateProject, AddProject, Enter
<1>3. CASE \E p \in Projects : ActivateProject(p) \/ AddProject(p)
  BY <1>1, <1>2, <1>3
<1>4. CASE RemoveProject
  <2>1. UNCHANGED <<threads, turns, faults>>
    BY <1>4 DEF RemoveProject
  <2>2. /\ \E d, S : SetPath(d, S)
        /\ draft' \in {None, draft}
    BY <1>4 DEF RemoveProject, Enter
  <2> QED BY <1>0, <1>1, <2>1, <2>2
<1>5. ASSUME NEW p \in Projects, RemoveOther(p)
      PROVE  UNCHANGED <<thread, busy, sent, draft, threads, turns, faults>>
  BY <1>5 DEF RemoveOther
<1>6. CASE \E p \in Projects : RemoveOther(p)
  BY <1>0, <1>5, <1>6 DEF Awaits
<1>7. ASSUME NEW p \in Projects, NewThread(p)
      PROVE  /\ draft' = p /\ UNCHANGED <<threads, turns, faults>>
             /\ \/ \E d, S : SetPath(d, S)
                \/ busy' = FALSE /\ sent' = sent
  BY <1>7 DEF NewThread, Enter, EnterMain
<1>8. CASE \E p \in Projects : NewThread(p)
  BY <1>0, <1>1, <1>7, <1>8
<1>9. ASSUME NEW t \in Tasks, ActivateTask(t)
      PROVE  /\ draft' \in {None, draft} /\ UNCHANGED <<threads, turns, faults>>
             /\ busy' = FALSE /\ sent' = NextGeneration(sent)
  BY <1>9 DEF ActivateTask
<1>10. CASE \E t \in Tasks : ActivateTask(t)
  BY <1>0, <1>9, <1>10, OutdatedBag
<1>11. ASSUME NEW p \in Projects, NEW h \in listed[p], ResumeThread(p, h)
       PROVE  /\ draft' \in {None, draft} /\ UNCHANGED <<threads, turns, faults>>
              /\ \/ \E d, S : SetPath(d, S)
                 \/ \E S : /\ sent' = sent (+) SetToBag(S) /\ busy' = (busy /\ S # {})
                           /\ thread' = thread
  BY <1>11 DEF ResumeThread, Enter, EnterMain
<1>12. CASE \E p \in Projects : \E h \in listed[p] : ResumeThread(p, h)
  <2> PICK p \in Projects : \E h \in listed[p] : ResumeThread(p, h)
    BY <1>12
  <2>1. PICK h \in listed[p] : ResumeThread(p, h)
    OBVIOUS
  <2>2. CASE \E d, S : SetPath(d, S)
    BY <1>0, <1>1, <1>11, <2>1, <2>2
  <2>3. CASE \E S : /\ sent' = sent (+) SetToBag(S) /\ busy' = (busy /\ S # {})
                    /\ thread' = thread
    <3>1. PICK S : /\ sent' = sent (+) SetToBag(S) /\ busy' = (busy /\ S # {})
                   /\ thread' = thread
      BY <2>3
    <3>2. IsABag(sent') /\ BagToSet(sent) \subseteq BagToSet(sent')
      BY <1>0, <3>1, Asked
    <3>3. busy' \in BOOLEAN /\ (busy' => busy)
      BY <3>1
    <3>4. draft' \in {None, draft} /\ UNCHANGED <<threads, turns, faults>>
      BY <1>11, <2>1
    <3>5. Awaits
      BY <3>1, <3>2, <3>3, <3>4 DEF Awaits
    <3> QED BY <1>0, <3>2, <3>3, <3>4, <3>5
  <2> QED BY <1>11, <2>1, <2>2, <2>3
<1>13. CASE SendText
  <2>1. PICK r : /\ sent' = sent (+) SetToBag({r}) /\ Frees(r)
    <3>1. CASE thread = 0
      <4>1. PICK v \in ready : sent' = sent (+) SetToBag({Opening(v, cwd)})
        BY <1>13, <3>1 DEF SendText
      <4>2. Opening(v, cwd).fresh = TRUE /\ Opening(v, cwd).kind = "start"
        BY DEF Opening
      <4>3. Frees(Opening(v, cwd))
        BY <4>2 DEF Frees
      <4> QED BY <4>1, <4>3
    <3>2. CASE thread # 0
      <4>1. sent' = sent (+) SetToBag({About("turn", thread, cwd)})
        BY <1>13, <3>2 DEF SendText
      <4>2. Frees(About("turn", thread, cwd))
        BY DEF About, Frees
      <4> QED BY <4>1, <4>2
    <3> QED BY <3>1, <3>2
  <2>2. IsABag(sent') /\ r \in BagToSet(sent')
    BY <1>0, <2>1, Asked
  <2>3. /\ busy' = TRUE /\ UNCHANGED <<draft, thread, threads, turns, faults>>
    BY <1>13 DEF SendText
  <2> QED BY <1>0, <2>1, <2>2, <2>3
<1>14. ASSUME NEW kind \in {"rename", "remove"}, NEW h \in Thread, ThreadAction(kind, h)
       PROVE  /\ UNCHANGED <<draft, thread, threads, turns, faults>>
              /\ \/ \E S : sent' = sent (+) SetToBag(S) /\ busy' = busy
                 \/ sent' = sent /\ busy' = FALSE
  BY <1>14 DEF ThreadAction
<1>15. CASE \E kind \in {"rename", "remove"}, h \in Thread : ThreadAction(kind, h)
  <2>1. /\ UNCHANGED <<draft, thread, threads, turns, faults>>
        /\ \/ \E S : sent' = sent (+) SetToBag(S) /\ busy' = busy
           \/ sent' = sent /\ busy' = FALSE
    BY <1>14, <1>15
  <2>2. CASE \E S : sent' = sent (+) SetToBag(S) /\ busy' = busy
    <3>1. IsABag(sent') /\ BagToSet(sent) \subseteq BagToSet(sent') /\ busy' = busy
      BY <1>0, <2>2, Asked
    <3>2. Awaits
      BY <2>1, <3>1 DEF Awaits
    <3> QED BY <1>0, <2>1, <3>1, <3>2
  <2> QED BY <1>0, <2>1, <2>2
<1> QED BY <1>3, <1>4, <1>6, <1>8, <1>10, <1>12, <1>13, <1>15 DEF Switch

\* The composer stays to be freed.
LEMMA FreedStill ==
  ASSUME Freed, Awaits, faults' = faults
  PROVE  Freed'
<1>1. \A r \in BagToSet(sent) : Frees(r) => (Frees(r)' /\ r \in BagToSet(sent'))
  BY DEF Frees, Awaits
<1>2. BagIn(thread, turns) => BagIn(thread, turns)'
  BY DEF BagIn, Awaits
<1> QED BY <1>1, <1>2 DEF Freed, Awaits

\* Telling the workspace the history makes no more of busy than the router did.
LEMMA HistoryComposer ==
  ASSUME IsABag(sent), NEW S, NEW r, NEW S1, NEW stays, History(S, r, S1, stays)
  PROVE  /\ IsABag(sent') /\ busy' \in BOOLEAN /\ (busy' => stays)
         /\ (BagToSet(sent) \ {r}) \cup S1 \subseteq BagToSet(sent')
<1>1. busy' = (stays /\ (Restores(S) => MayResume(pending)))
  BY DEF History
<1>2. PICK X : Reply(r, S1 \cup X)
  BY DEF History
<1>3. IsABag(sent') /\ (BagToSet(sent) \ {r}) \cup (S1 \cup X) \subseteq BagToSet(sent')
  BY <1>2, ReplyKeeps
<1>4. busy' \in BOOLEAN /\ (busy' => stays)
  BY <1>1
<1> QED BY <1>3, <1>4

\* An answer in which the router tells the history and leaves the threads alone.
LEMMA ToldComposer ==
  ASSUME Counted, Freed, NEW S, NEW r, NEW stays, History(S, r, {}, stays), stays => busy,
         r.kind \notin {"start", "turn"}, UNCHANGED <<draft, threads, turns, faults>>,
         busy' => thread' = thread
  PROVE  ComposerInv'
<1>1. /\ IsABag(sent') /\ busy' \in BOOLEAN /\ (busy' => busy)
      /\ BagToSet(sent) \ {r} \subseteq BagToSet(sent')
  BY HistoryComposer DEF Counted
<1>2. Counted'
  BY <1>1 DEF Counted, Thread
<1>3. CASE busy'
  <2>1. Awaits
    BY <1>1, <1>3 DEF Awaits
  <2> QED BY <1>2, <2>1, FreedStill DEF ComposerInv
<1>4. CASE ~busy'
  BY <1>2, <1>4 DEF ComposerInv, Freed
<1> QED BY <1>3, <1>4

\* thread/start is answered: if in time, the turn asked for is of the new Thread.
LEMMA ThreadStartedComposer ==
  ASSUME WorkspaceInv, Counted, Freed, NEW r \in BagToSet(sent), ThreadStarted(r)
  PROVE  ComposerInv'
<1> USE WorkspaceAssumption
<1> DEFINE h == Len(threads) + 1
           new == [maker |-> r.to, home |-> r.cwd]
           turn == [kind |-> "turn", to |-> r.to, thread |-> h, cwd |-> cwd, fresh |-> TRUE]
<1>1. /\ r.kind = "start" /\ h <= MaxThreads /\ threads' = Append(threads, new)
      /\ turns' = turns /\ faults' = faults
  BY DEF ThreadStarted
<1>2. threads \in Seq(Threads) /\ new \in Threads
  BY <1>1 DEF WorkspaceInv, Typed, SentHome, AtHome, Message, Threads
<1> HIDE DEF new
<1>3. Len(threads') = h /\ Len(threads) \in Nat /\ Thread \subseteq Thread'
  BY <1>1, <1>2 DEF Thread
<1>4. ASSUME draft' \in Projects \cup {None}, busy' \in BOOLEAN, IsABag(sent')
      PROVE  Counted'
  BY <1>1, <1>3, <1>4 DEF Counted
<1>5. CASE r.fresh
  <2>1. History(summaries \cup {h}, r, {turn}, busy) /\ thread' = h /\ draft' = None
    BY <1>5 DEF ThreadStarted, Current
  <2>2. turn.kind = "turn" /\ turn.fresh = TRUE /\ turn.thread = h
    OBVIOUS
  <2> HIDE DEF turn, h
  <2>3. IsABag(sent') /\ busy' \in BOOLEAN /\ turn \in BagToSet(sent')
    BY <2>1, HistoryComposer DEF Counted
  <2>4. \E x \in BagToSet(sent') : x.fresh = TRUE /\ x.kind = "turn" /\ x.thread = thread'
    BY <2>1, <2>2, <2>3
  <2>5. Freed'
    BY <2>4 DEF Freed, Frees
  <2> QED BY <1>4, <2>1, <2>3, <2>5 DEF ComposerInv
<1>6. CASE ~r.fresh
  <2>1. Reply(r, {}) /\ UNCHANGED <<draft, thread, busy>>
    BY <1>6 DEF ThreadStarted, router
  <2>2. IsABag(sent') /\ BagToSet(sent) \ {r} \subseteq BagToSet(sent')
    BY <2>1, ReplyKeeps DEF Counted
  <2>3. Counted'
    BY <1>4, <2>1, <2>2 DEF Counted
  <2>4. ASSUME NEW x \in BagToSet(sent), Frees(x)
        PROVE  x \in BagToSet(sent') /\ Frees(x)'
    BY <1>6, <2>1, <2>2, <2>4 DEF Frees
  <2>5. Freed'
    BY <1>1, <2>1, <2>4 DEF Freed, BagIn
  <2> QED BY <2>3, <2>5 DEF ComposerInv
<1> QED BY <1>5, <1>6

\* turn/start is answered: the turn that was asked for runs.
LEMMA TurnAcceptedComposer ==
  ASSUME WorkspaceInv, Counted, Freed, NEW r \in BagToSet(sent), TurnAccepted(r)
  PROVE  ComposerInv'
<1>1. /\ r.kind = "turn" /\ turns' = turns (+) SetToBag({r.thread}) /\ Reply(r, {})
      /\ UNCHANGED <<draft, thread, busy, threads, faults>>
  BY DEF TurnAccepted, place, router
<1>2. IsABag(sent') /\ BagToSet(sent) \ {r} \subseteq BagToSet(sent')
  BY <1>1, ReplyKeeps DEF Counted
<1>3. IsABag(turns') /\ BagToSet(turns') = BagToSet(turns) \cup {r.thread}
  <2>1. IsABag(turns')
    BY <1>1, BagTypes DEF Counted
  <2>2. BagToSet(turns (+) SetToBag({r.thread})) = BagToSet(turns) \cup {r.thread}
    BY BagSum
  <2> QED BY <1>1, <2>1, <2>2
<1>4. r.thread \in Thread
  BY <1>1 DEF WorkspaceInv, SentHome, AtHome, Thread
<1>5. Counted'
  BY <1>1, <1>2, <1>3, <1>4 DEF Counted, Thread
<1>6. ASSUME NEW x \in BagToSet(sent), Frees(x)
      PROVE  (x \in BagToSet(sent') /\ Frees(x)') \/ BagIn(thread, turns)'
  BY <1>1, <1>2, <1>3, <1>6 DEF Frees, BagIn
<1>7. Freed'
  BY <1>1, <1>3, <1>6 DEF Freed, BagIn
<1> QED BY <1>5, <1>7 DEF ComposerInv

LEMMA AnsweredComposer ==
  ASSUME WorkspaceInv, Counted, Freed, NEW r \in BagToSet(sent), Answered(r)
  PROVE  ComposerInv'
<1> USE DEF servers, place
<1>1. CASE Listed(r)
  <2>1. PICK S : History(S, r, {}, busy)
    BY <1>1 DEF Listed
  <2>2. r.kind = "list" /\ UNCHANGED <<draft, thread, threads, turns, faults>>
    BY <1>1 DEF Listed
  <2> QED BY <2>1, <2>2, ToldComposer
<1>2. CASE Renamed(r)
  <2>1. PICK S : History(S, r, {}, busy)
    BY <1>2 DEF Renamed
  <2>2. r.kind = "rename" /\ UNCHANGED <<draft, thread, threads, turns, faults>>
    BY <1>2 DEF Renamed
  <2> QED BY <2>1, <2>2, ToldComposer
<1>3. CASE Removed(r)
  <2>1. PICK S : History(S, r, {}, busy /\ thread # r.thread)
    BY <1>3 DEF Removed
  <2>2. /\ r.kind = "remove" /\ UNCHANGED <<draft, threads, turns, faults>>
        /\ thread # r.thread => thread' = thread
    BY <1>3 DEF Removed
  <2>3. busy' => thread # r.thread
    BY <2>1 DEF History
  <2> QED BY <2>1, <2>2, <2>3, ToldComposer
<1>4. CASE Resumed(r)
  <2>1. /\ busy' = FALSE /\ draft' = None /\ Reply(r, {})
        /\ UNCHANGED <<threads, turns, faults>>
    BY <1>4 DEF Resumed, Current
  <2>2. IsABag(sent')
    BY <2>1, ReplyKeeps DEF Counted
  <2> QED BY <2>1, <2>2 DEF ComposerInv, Counted, Freed, Thread
<1>5. CASE Refused(r)
  <2>1. /\ Reply(r, {}) /\ busy' = BusyAfter({r})
        /\ UNCHANGED <<draft, thread, threads, turns, faults>>
    BY <1>5 DEF Refused
  <2>2. IsABag(sent') /\ BagToSet(sent) \ {r} \subseteq BagToSet(sent')
    BY <2>1, ReplyKeeps DEF Counted
  <2>3. busy' \in BOOLEAN /\ (busy' => busy /\ ~r.fresh)
    BY <2>1 DEF BusyAfter
  <2>4. Counted'
    BY <2>1, <2>2, <2>3 DEF Counted, Thread
  <2>5. ASSUME NEW x \in BagToSet(sent), Frees(x), busy'
        PROVE  x \in BagToSet(sent') /\ Frees(x)'
    BY <2>1, <2>2, <2>3, <2>5 DEF Frees
  <2>6. Freed'
    BY <2>1, <2>3, <2>5 DEF Freed, BagIn
  <2> QED BY <2>4, <2>6 DEF ComposerInv
<1> QED
  BY <1>1, <1>2, <1>3, <1>4, <1>5, ThreadStartedComposer, TurnAcceptedComposer DEF Answered

\* A turn of another Thread that completes leaves one of this Thread running.
LEMMA TurnCompletedComposer ==
  ASSUME Counted, Freed, NEW h \in BagToSet(turns), TurnCompleted(h)
  PROVE  ComposerInv'
<1>1. /\ turns' = turns (-) SetToBag({h}) /\ busy' = (busy /\ thread # h)
      /\ UNCHANGED <<draft, thread, sent, threads, faults>>
  BY DEF TurnCompleted, place
<1>2. IsABag(turns') /\ BagToSet(turns') \subseteq BagToSet(turns)
  BY <1>1, BagTypes, BagLess DEF Counted
<1>3. BagToSet(turns) \ {h} \subseteq BagToSet(turns')
  BY <1>1, BagRest DEF Counted
<1>4. Counted'
  BY <1>1, <1>2 DEF Counted, Thread
<1>5. Freed'
  BY <1>1, <1>3 DEF Freed, Frees, BagIn
<1> QED BY <1>4, <1>5 DEF ComposerInv

\* App Servers and the desktop.
LEMMA ServerComposer ==
  ASSUME Counted, Freed, Restart \/ \E v \in Providers : ProviderReady(v) \/ Ends(v)
  PROVE  ComposerInv'
<1> USE WorkspaceAssumption
<1>1. ASSUME NEW v \in Providers, ProviderReady(v)
      PROVE  ComposerInv'
  <2>1. PICK S : sent' = sent (+) SetToBag(S)
    BY <1>1 DEF ProviderReady
  <2>2. UNCHANGED <<draft, thread, busy, threads, turns, faults>>
    BY <1>1 DEF ProviderReady, router
  <2>3. IsABag(sent') /\ BagToSet(sent) \subseteq BagToSet(sent')
    BY <2>1, Asked DEF Counted
  <2>4. Awaits
    BY <2>2, <2>3 DEF Awaits
  <2>5. Counted'
    BY <2>2, <2>3 DEF Counted, Thread
  <2> QED BY <2>2, <2>4, <2>5, FreedStill DEF ComposerInv
<1>2. ASSUME NEW v \in Providers, Ends(v)
      PROVE  ComposerInv'
  <2>1. /\ faults < MaxFaults /\ faults' = faults + 1 /\ busy' \in BOOLEAN
        /\ draft' = draft /\ threads' = threads
    BY <1>2 DEF Ends, BusyAfter, place
  <2>2. PICK S : /\ sent' = [r \in BagToSet(sent) \ S |-> sent[r]]
    BY <1>2 DEF Ends
  <2>3. PICK S2 : turns' = [h \in BagToSet(turns) \ S2 |-> turns[h]]
    BY <1>2 DEF Ends
  <2>4. /\ IsABag(sent') /\ IsABag(turns') /\ BagToSet(turns') \subseteq BagToSet(turns)
    BY <2>2, <2>3 DEF Counted, IsABag, BagToSet
  <2> QED BY <2>1, <2>4 DEF ComposerInv, Counted, Freed, Thread
<1>3. CASE Restart
  <2>1. /\ faults < MaxFaults /\ faults' = faults + 1 /\ busy' = FALSE /\ draft' = None
        /\ threads' = threads /\ sent' = EmptyBag /\ turns' = EmptyBag
    BY <1>3 DEF Restart
  <2>2. IsABag(EmptyBag) /\ BagToSet(EmptyBag) = {}
    BY DEF EmptyBag, SetToBag, BagToSet, IsABag
  <2>3. Counted'
    <3>1. faults' \in 0 .. MaxFaults
      BY <2>1 DEF Counted
    <3>2. Len(threads') <= MaxThreads
      BY <2>1 DEF Counted
    <3> QED BY <2>1, <2>2, <3>1, <3>2 DEF Counted
  <2> QED BY <2>1, <2>3 DEF ComposerInv, Freed
<1> QED BY <1>1, <1>2, <1>3

\* The invariant of the composer, given the one of the workspace.
LEMMA InitComposerInv == Init => ComposerInv
<1> SUFFICES ASSUME Init PROVE ComposerInv
  OBVIOUS
<1> USE WorkspaceAssumption
<1>1. IsABag(EmptyBag) /\ BagToSet(EmptyBag) = {}
  BY DEF EmptyBag, SetToBag, BagToSet, IsABag
<1>2. saved \in Projects /\ draft = None /\ busy = FALSE /\ sent = EmptyBag /\ turns = EmptyBag
      /\ threads = Old /\ faults = 0
  BY DEF Init
<1>3. 0 \in 0 .. MaxFaults /\ Len(Old) <= MaxThreads
  OBVIOUS
<1> QED BY <1>1, <1>2, <1>3 DEF ComposerInv, Counted, Freed

LEMMA NextComposerInv ==
  ASSUME WorkspaceInv, ComposerInv, [Next]_vars
  PROVE  ComposerInv'
<1>0. Counted /\ Freed
  BY DEF ComposerInv
<1>1. CASE \/ Switch \/ SendText
           \/ \E kind \in {"rename", "remove"}, h \in Thread : ThreadAction(kind, h)
  <2>1. /\ draft' \in Projects \cup {None} /\ busy' \in BOOLEAN /\ IsABag(sent')
        /\ UNCHANGED <<threads, turns, faults>>
        /\ \/ busy' = FALSE \/ Awaits
           \/ thread' = thread /\ \E r \in BagToSet(sent') : Frees(r)
    BY <1>0, <1>1, CommandComposer
  <2>2. Counted'
    BY <1>0, <2>1 DEF Counted, Thread
  <2>3. CASE busy' = FALSE
    BY <2>2, <2>3 DEF ComposerInv, Freed
  <2>4. CASE Awaits
    BY <1>0, <2>1, <2>2, <2>4, FreedStill DEF ComposerInv
  <2>5. CASE thread' = thread /\ \E r \in BagToSet(sent') : Frees(r)
    BY <2>2, <2>5 DEF ComposerInv, Freed, Frees
  <2> QED BY <2>1, <2>3, <2>4, <2>5
<1>2. CASE \E v \in Providers : ChangeKey(v)
  BY <1>0, <1>2, ServerComposer DEF ChangeKey
<1>3. CASE \E r \in BagToSet(sent) : Answered(r)
  BY <1>0, <1>3, AnsweredComposer
<1>4. CASE \E h \in BagToSet(turns) : TurnCompleted(h)
  BY <1>0, <1>4, TurnCompletedComposer
<1>5. CASE Restart \/ \E v \in Providers : ProviderReady(v) \/ ProviderDies(v)
  BY <1>0, <1>5, ServerComposer DEF ProviderDies
<1>6. CASE UNCHANGED vars
  BY <1>0, <1>6 DEF vars, place, router, servers, ComposerInv, Counted, Freed, Frees, Thread
<1> QED
  BY <1>1, <1>2, <1>3, <1>4, <1>5, <1>6 DEF Next, Command

\* The two invariants hold together.
LEMMA Invariants == Spec => [](WorkspaceInv /\ ComposerInv)
<1>1. WorkspaceInv /\ ComposerInv /\ [Next]_vars => (WorkspaceInv /\ ComposerInv)'
  BY NextWorkspaceInv, NextComposerInv
<1>2. Init => WorkspaceInv /\ ComposerInv
  BY InitWorkspaceInv, InitComposerInv
<1> QED BY <1>1, <1>2, PTL DEF Spec

\* The composer is off only while a message of this generation is to be answered
\* or a turn of the current Thread runs, as long as no App Server has ended.
THEOREM ComposerIsFreed == Spec => []BusyIsFreed
<1>1. ComposerInv => BusyIsFreed
  BY DEF ComposerInv, Freed, Frees, BusyIsFreed
<1> QED BY <1>1, Invariants, PTL

\* The variables keep their types: projects, tasks and threads that are
\* referred to exist, requests and turns are bags of what they should be.
THEOREM WorkspaceTyped == Spec => []TypeOK
<1> USE WorkspaceAssumption
<1>1. ASSUME WorkspaceInv, ComposerInv PROVE TypeOK
  <2>1. /\ Typed /\ OneAuthority /\ SentHome /\ Counted
    BY <1>1 DEF WorkspaceInv, ComposerInv
  <2>2. /\ saved \in rows \cup {None} /\ savedTask \in Tasks \cup {None}
        /\ active \in Projects \cup {None} /\ context \in Projects \cup Tasks \cup {None}
        /\ cwd \in Projects \cup Tasks \cup {None}
    BY <2>1 DEF Typed, OneAuthority
  <2>3. ASSUME NEW r \in BagToSet(sent) PROVE r \in Requests
    <3>1. r \in Message /\ (r.thread # 0 => r.thread \in 1 .. Len(threads))
      BY <2>1 DEF SentHome, AtHome
    <3>2. r.thread \in 0 .. MaxThreads
      BY <2>1, <3>1 DEF Counted, Typed, Message
    <3> QED BY <3>1, <3>2 DEF Message, Requests
  <2> QED BY <2>1, <2>2, <2>3 DEF TypeOK, Typed, Counted, Threads
<1>2. WorkspaceInv /\ ComposerInv => TypeOK
  BY <1>1
<1> QED BY <1>2, Invariants, PTL

===============================================================================
