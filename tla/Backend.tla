------------------------------ MODULE Backend -------------------------------
(***************************************************************************)
(* One AppServerBackend with its JsonRpcClient, JsonLineFramer and         *)
(* AppServerProcess: the life of the app-server process over starts,       *)
(* failures, crashes and restarts, and the table of requests whose answers *)
(* the callbacks of the desktop wait for.                                  *)
(*                                                                         *)
(* QProcess delivers its signals from the event loop, and from inside      *)
(* stop(), which waits for the process to finish: stopping tells which.    *)
(* Data goes in two ways as lines, of which only the responses matter here *)
(* and which a read may cut in two.                                        *)
(***************************************************************************)
EXTENDS Integers

CONSTANTS
  MaxCommands,  (* bounds the calls of start(), stop() and restart()         *)
  MaxCalls,     (* bounds the requests beside those of the start-up          *)
  Mishaps       (* which of the outside failures below may happen            *)

(***************************************************************************)
(* "unstartable" the codex executable cannot be started                    *)
(* "crash"       the process ends by itself                                *)
(* "rejected"    initialize is answered with an error                      *)
(* "cut"         a response arrives in two reads                           *)
(* "unkillable"  the process outlives the kill of stop() for a while       *)
(* "deaf"        the process closes its input, so that a write fails       *)
(***************************************************************************)
ASSUME BackendAssumption ==
  /\ MaxCommands \in Nat /\ MaxCalls \in Nat
  /\ Mishaps \subseteq {"unstartable", "crash", "rejected", "cut", "unkillable", "deaf"}

\* Nothing in the buffer, and half a line of a former process.
Empty == 0
Stale == -1

VARIABLES
  process,     (* "off", "starting", "on", "deaf", or "closing" by stop()     *)
  stopping,    (* "no", or which method waits in stop(): "stop", "restart"    *)
  ready,       (* _ready                                                      *)
  restarting,  (* _restarting                                                 *)
  scheduled,   (* single-shot timers will call _complete_restart              *)
  nextId,      (* _next_id                                                    *)
  pending,     (* ids in _pending                                             *)
  replies,     (* replies[i]: how often the callback of request i was called, *)
               (* for every request i made so far                             *)
  hello,       (* id of the initialize request of this process, or 0          *)
  atServer,    (* requests the process has read and not answered              *)
  buffer,      (* _buffer: Empty, Stale, or the id whose response is cut      *)
  commands, calls   (* counts of the two bounds                               *)

table == <<nextId, pending, replies>>
control == <<process, stopping, ready, restarting, scheduled>>
stream == <<hello, atServer, buffer>>
bounds == <<commands, calls>>
vars == <<table, control, stream, bounds>>

Init ==
  /\ process = "off" /\ stopping = "no"
  /\ ready = FALSE /\ restarting = FALSE /\ scheduled = FALSE
  /\ nextId = 1 /\ pending = {} /\ replies = <<>>
  /\ hello = 0 /\ atServer = {} /\ buffer = Empty
  /\ commands = 0 /\ calls = 0

EventLoop == stopping = "no"
Command == EventLoop /\ commands < MaxCommands /\ commands' = commands + 1 /\ UNCHANGED calls

\* is_running: QProcess is in its state Running.
IsRunning == process \in {"on", "deaf", "closing"}

\* The requests made so far, and what becomes of replies when the callbacks of
\* those in S are called and n more requests are made.
Made == 1 .. nextId - 1

Answered(S, n) ==
  [i \in 1 .. nextId + n - 1 |->
     (IF i \in Made THEN replies[i] ELSE 0) + (IF i \in S THEN 1 ELSE 0)]

-----------------------------------------------------------------------------
(* Requests.                                                               *)

\* A plausible slip: the id is taken after the increment.
NewIdsLate(n) == nextId + 1 .. nextId + n

\* The ids of the next n requests.
NewIds(n) == nextId .. nextId + n - 1

(***************************************************************************)
(* The table and the server after the call-backs of the requests in done   *)
(* and then n new calls of request(): what is written to a process whose   *)
(* input is closed is lost without an error, what is written to none fails *)
(* and calls back at once.                                                 *)
(***************************************************************************)
Requested(n, done) ==
  /\ nextId' = nextId + n
  /\ pending' = (pending \ done) \cup (IF IsRunning THEN NewIds(n) ELSE {})
  /\ replies' = Answered(done \cup (IF IsRunning THEN {} ELSE NewIds(n)), n)
  /\ atServer' = (atServer \ done) \cup (IF process = "on" THEN NewIds(n) ELSE {})

\* A request of the router or the workspace, all of which look at is_ready.
Call ==
  /\ EventLoop /\ ready /\ calls < MaxCalls
  /\ Requested(1, {})
  /\ calls' = calls + 1
  /\ UNCHANGED <<control, hello, buffer, commands>>

-----------------------------------------------------------------------------
(* What QProcess reports.                                                  *)

\* started: _initialize sends the first request.  The timers, which are of 0 ms,
\* fire before the event loop comes to the report of a start.
Started ==
  /\ process = "starting" /\ (EventLoop => ~scheduled)
  /\ process' = IF EventLoop THEN "on" ELSE "closing"
  /\ nextId' = nextId + 1
  /\ pending' = pending \cup {nextId} /\ replies' = Answered({}, 1)
  /\ hello' = nextId
  /\ atServer' = IF EventLoop THEN {nextId} ELSE {}
  /\ UNCHANGED <<buffer, stopping, ready, restarting, scheduled, bounds>>

\* A plausible slip: the pending requests are left to themselves.
TransportLostSilently == ready' = FALSE /\ UNCHANGED table

\* A plausible slip: the requests called back stay in the table.
TransportLostTwice ==
  ready' = FALSE /\ replies' = Answered(pending, 0) /\ UNCHANGED <<nextId, pending>>

\* A plausible slip: the backend goes on as ready.
TransportLostReady ==
  pending' = {} /\ replies' = Answered(pending, 0) /\ UNCHANGED <<nextId, ready>>

\* What _process_stopped and _process_failed have in common.
TransportLost ==
  /\ ready' = FALSE
  /\ pending' = {} /\ replies' = Answered(pending, 0)
  /\ UNCHANGED nextId

\* errorOccurred(FailedToStart)
StartFailed ==
  /\ process = "starting" /\ "unstartable" \in Mishaps
  /\ process' = "off" /\ stopping' = "no"
  /\ TransportLost
  /\ UNCHANGED <<restarting, scheduled, stream, bounds>>

\* A plausible slip: only a backend that was ready is started again.
ScheduleIfReady == scheduled' = (scheduled \/ (restarting /\ ready))

\* The timer set by _process_stopped.  restart() sets a second one when the
\* process ends within its stop(); the two fire together, the second in vain.
Schedule == scheduled' = (scheduled \/ restarting)

\* finished, after errorOccurred(Crashed) if it was a crash.  The callbacks of
\* the pending requests may start the backend again (start_agent_task).
Finished ==
  /\ \/ process = "closing"
     \/ process = "on" /\ "crash" \in Mishaps
     \/ process = "deaf"
  /\ TransportLost
  /\ Schedule
  /\ stopping' = "no"
  /\ hello' = 0 /\ atServer' = {}
  /\ buffer' = IF buffer = Empty THEN Empty ELSE Stale
  /\ \/ process' = "off" /\ UNCHANGED commands
     \/ /\ pending # {} /\ commands < MaxCommands
        /\ process' = "starting" /\ commands' = commands + 1
  /\ UNCHANGED <<restarting, calls>>

\* errorOccurred(WriteError): the process lives, but the backend gives it up.
WriteFailed ==
  /\ process = "on" /\ "deaf" \in Mishaps
  /\ process' = "deaf"
  /\ TransportLost
  /\ UNCHANGED <<stopping, restarting, scheduled, stream, bounds>>

\* waitForFinished after kill() times out.
StopGivesUp ==
  /\ ~EventLoop /\ process = "closing" /\ "unkillable" \in Mishaps
  /\ stopping' = "no"
  /\ UNCHANGED <<table, process, ready, restarting, scheduled, stream, bounds>>

-----------------------------------------------------------------------------
(* Responses, as the framer gets them.                                     *)

\* The first part of the response to request i.
Head(i) ==
  /\ IsRunning /\ i \in atServer /\ buffer = Empty /\ "cut" \in Mishaps
  /\ buffer' = i
  /\ UNCHANGED <<table, control, hello, atServer, bounds>>

\* The (rest of the) response to request i.  It ends the line that what a
\* former process left has begun: then neither is a message.
Line(i) ==
  /\ IsRunning /\ i \in atServer /\ buffer \in {Empty, Stale, i}
  /\ buffer' = Empty

Malformed(i) ==
  /\ Line(i) /\ buffer = Stale
  /\ atServer' = atServer \ {i}
  /\ UNCHANGED <<table, control, hello, bounds>>

\* A plausible slip: responses are looked at only once the backend is ready.
DispatchedIfReady(i) == Line(i) /\ buffer # Stale /\ i \in pending /\ ready

\* _dispatch finds the request.
Dispatched(i) == Line(i) /\ buffer # Stale /\ i \in pending

\* _initialized without an error: thread/list by the router, then account/read
\* and model/list.
Initialized(i) ==
  /\ Dispatched(i) /\ i = hello
  /\ ready' = TRUE
  /\ Requested(3, {i})
  /\ UNCHANGED <<process, stopping, restarting, scheduled, hello, bounds>>

InitializeRejected(i) ==
  /\ Dispatched(i) /\ i = hello /\ "rejected" \in Mishaps
  /\ Requested(0, {i})
  /\ UNCHANGED <<control, hello, bounds>>

\* _dispatch does not: the request was given up with the transport.
Unknown(i) ==
  /\ Line(i) /\ buffer # Stale /\ i \notin pending
  /\ atServer' = atServer \ {i}
  /\ UNCHANGED <<table, control, hello, bounds>>

Response(i) ==
  /\ Dispatched(i) /\ i # hello
  /\ Requested(0, {i})
  /\ UNCHANGED <<control, hello, bounds>>

-----------------------------------------------------------------------------
(* Commands.                                                               *)

\* AppServerProcess.start does nothing unless the process is off.
Begun == process' = IF process = "off" THEN "starting" ELSE process

\* start(), by the application, a task, or restart() of what is not running.
Start ==
  /\ Command
  /\ Begun
  /\ UNCHANGED <<table, stopping, ready, restarting, scheduled, stream>>

Stop ==
  /\ Command /\ process # "off"
  /\ stopping' = "stop"
  /\ process' = IF IsRunning THEN "closing" ELSE process
  /\ UNCHANGED <<table, ready, restarting, scheduled, stream>>

\* restart() of a running backend, for a new API key.
Restart ==
  /\ Command /\ IsRunning
  /\ ready' = FALSE /\ restarting' = TRUE
  /\ stopping' = "restart" /\ process' = "closing"
  /\ UNCHANGED <<table, scheduled, stream>>

CompleteRestart ==
  /\ EventLoop /\ scheduled
  /\ scheduled' = FALSE
  /\ restarting' = FALSE
  /\ IF restarting THEN Begun ELSE UNCHANGED process
  /\ UNCHANGED <<table, stopping, ready, stream, bounds>>

-----------------------------------------------------------------------------
Answers(i) == Malformed(i) \/ Initialized(i) \/ InitializeRejected(i) \/ Response(i)
              \/ Unknown(i)

Next ==
  \/ Call \/ Started \/ StartFailed \/ Finished \/ WriteFailed \/ StopGivesUp
  \/ \E i \in atServer : Head(i) \/ Answers(i)
  \/ Start \/ Stop \/ Restart \/ CompleteRestart

Spec == Init /\ [][Next]_vars

(***************************************************************************)
(* Qt reports what has happened to the process and runs its timers; the    *)
(* process answers every request it has read, and ends when stop() makes   *)
(* it.                                                                     *)
(***************************************************************************)
Fairness ==
  /\ WF_vars(Started \/ StartFailed)
  /\ WF_vars(process = "closing" /\ Finished)
  /\ WF_vars(CompleteRestart)
  /\ WF_vars(\E i \in atServer : Answers(i))

FairSpec == Spec /\ Fairness

-----------------------------------------------------------------------------
\* The types of the variables.
TypeOK ==
  /\ process \in {"off", "starting", "on", "deaf", "closing"}
  /\ stopping \in {"no", "stop", "restart"}
  /\ ready \in BOOLEAN /\ restarting \in BOOLEAN /\ scheduled \in BOOLEAN
  /\ nextId \in Nat \ {0}
  /\ pending \subseteq Made /\ atServer \subseteq Made
  /\ replies \in [Made -> Nat]
  /\ hello \in Made \cup {0}
  /\ buffer \in {Empty, Stale} \cup Made
  /\ commands \in 0 .. MaxCommands /\ calls \in 0 .. MaxCalls

\* Of all requests ever made each is in the table and its callback was not
\* called, or it has left the table and its callback was called once, over
\* crashes, restarts and late responses ("Resolve outstanding requests when the
\* transport disappears", rpc.py).
ExactlyOnce == \A i \in Made : replies[i] = IF i \in pending THEN 0 ELSE 1

\* No request waits for a process that is not there, and no response is still
\* to come from one.
NoneWithoutTransport == ~IsRunning => pending = {} /\ atServer = {}

\* A ready backend has a process, and this very process, not a former one, has
\* answered initialize.
ReadyIsInitialized ==
  ready => IsRunning /\ hello # 0 /\ hello \notin (pending \cup atServer)

\* Every command makes for at most one start-up, with four requests.
Ids == 1 .. 4 * MaxCommands + MaxCalls

\* Every request is called back at last.
AllAnswered == \A i \in Ids : (i \in pending) ~> (i \notin pending)

\* The same as long as no process dies in the middle of a line.
AnsweredUnlessCut == [](buffer # Stale) => AllAnswered

\* A call of restart() comes to a new start of the process.
RestartCompletes == stopping = "restart" ~> process = "starting"
=============================================================================
