---------------------------- MODULE BackendProofs ----------------------------
(***************************************************************************)
(* Theorems about Backend for every number of commands and requests and    *)
(* every set of mishaps.                                                   *)
(***************************************************************************)
EXTENDS Backend, TLAPS

-----------------------------------------------------------------------------
(* Lemmas about the table of requests.                                     *)

\* The types of the table alone.
TableOK ==
  /\ nextId \in Nat \ {0}
  /\ pending \subseteq Made /\ atServer \subseteq Made
  /\ replies \in [Made -> Nat]

\* What Answered returns: one more call for every request in S, none for the
\* new ones that are not in it.
LEMMA AnsweredIs ==
  ASSUME TableOK, NEW n \in Nat, NEW S
  PROVE  /\ Answered(S, n) \in [1 .. nextId + n - 1 -> Nat]
         /\ \A i \in 1 .. nextId + n - 1 :
              Answered(S, n)[i] = (IF i \in Made THEN replies[i] ELSE 0)
                                    + (IF i \in S THEN 1 ELSE 0)
BY DEF Answered, TableOK, Made

\* Requests keep the table typed and each request called back once, and leave
\* the responses of earlier requests alone.
LEMMA RequestedKeeps ==
  ASSUME TableOK, ExactlyOnce, NEW n \in Nat,
         NEW done \in SUBSET pending, Requested(n, done)
  PROVE  TableOK' /\ ExactlyOnce' /\ Made \subseteq Made'
<1> DEFINE failed == IF IsRunning THEN {} ELSE NewIds(n)
<1>1. /\ nextId' = nextId + n
      /\ pending' = (pending \ done) \cup (IF IsRunning THEN NewIds(n) ELSE {})
      /\ replies' = Answered(done \cup failed, n)
      /\ atServer' = (atServer \ done) \cup (IF process = "on" THEN NewIds(n) ELSE {})
  BY DEF Requested
<1>2. Made' = Made \cup NewIds(n) /\ Made \cap NewIds(n) = {}
  BY <1>1 DEF Made, NewIds, TableOK
<1>3. Made' = 1 .. nextId + n - 1
  <2>1. nextId' = nextId + n
    BY <1>1
  <2>2. Made' = 1 .. nextId' - 1
    BY DEF Made
  <2>3. nextId \in Nat
    BY DEF TableOK
  <2> QED
    BY <2>1, <2>2, <2>3
<1>4. /\ replies' \in [Made' -> Nat]
      /\ \A i \in Made' :
           replies'[i] = (IF i \in Made THEN replies[i] ELSE 0)
                            + (IF i \in done \cup failed THEN 1 ELSE 0)
  BY <1>1, <1>3, AnsweredIs
<1>5. TableOK'
  <2>1. nextId' \in Nat \ {0}
    BY <1>1 DEF TableOK
  <2>2. pending' \subseteq Made' /\ atServer' \subseteq Made'
    BY <1>1, <1>2 DEF TableOK
  <2> QED
    BY <2>1, <2>2, <1>4 DEF TableOK
<1>6. ExactlyOnce'
  <2> SUFFICES ASSUME NEW i \in Made'
               PROVE  replies'[i] = IF i \in pending' THEN 0 ELSE 1
    BY DEF ExactlyOnce
  <2>1. CASE i \in Made
    <3>1. replies[i] = IF i \in pending THEN 0 ELSE 1
      BY <2>1 DEF ExactlyOnce
    <3>2. i \notin NewIds(n)
      BY <2>1, <1>2
    <3>3. i \in pending' <=> i \in pending \ done
      BY <1>1, <3>2
    <3>4. i \in done \cup failed <=> i \in done
      BY <3>2
    <3> QED
      BY <3>1, <3>3, <3>4, <1>4, <2>1
  <2>2. CASE i \notin Made
    <3>1. i \in NewIds(n) /\ i \notin pending
      BY <2>2, <1>2 DEF TableOK
    <3>2. i \in pending' <=> IsRunning
      BY <1>1, <3>1
    <3>3. i \in done \cup failed <=> ~IsRunning
      BY <3>1
    <3> QED
      BY <3>2, <3>3, <1>4, <2>2
  <2> QED
    BY <2>1, <2>2
<1> QED
  BY <1>2, <1>5, <1>6

\* So does the loss of the transport, which leaves no request in the table.
LEMMA TransportLostKeeps ==
  ASSUME TableOK, ExactlyOnce, TransportLost, atServer' \subseteq atServer
  PROVE  TableOK' /\ ExactlyOnce' /\ Made' = Made
<1>1. nextId' = nextId /\ pending' = {} /\ replies' = Answered(pending, 0)
  BY DEF TransportLost
<1>2. Made' = Made /\ Made = 1 .. nextId + 0 - 1
  BY <1>1 DEF Made, TableOK
<1>3. /\ replies' \in [Made -> Nat]
      /\ \A i \in Made : replies'[i] = replies[i] + (IF i \in pending THEN 1 ELSE 0)
  BY <1>1, <1>2, AnsweredIs
<1>4. TableOK'
  BY <1>1, <1>2, <1>3 DEF TableOK
<1>5. ASSUME NEW i \in Made
      PROVE  replies'[i] = 1
  <2>1. replies[i] = IF i \in pending THEN 0 ELSE 1
    BY DEF ExactlyOnce
  <2> QED
    BY <2>1, <1>3
<1>6. ExactlyOnce'
  BY <1>1, <1>2, <1>5 DEF ExactlyOnce
<1> QED
  BY <1>2, <1>4, <1>6

-----------------------------------------------------------------------------
(* The inductive invariant: the four invariants of the runs together.  That a *)
(* ready backend has a process is why nobody calls request() on none, and that *)
(* no process leaves requests behind is why a new process starts with none.    *)
Inv == TypeOK /\ ExactlyOnce /\ NoneWithoutTransport /\ ReadyIsInitialized

LEMMA TypeOfTable == ASSUME TypeOK PROVE TableOK
BY DEF TypeOK, TableOK

LEMMA InitInv == Init => Inv
<1> SUFFICES ASSUME Init PROVE Inv
  OBVIOUS
<1> USE DEF Init
<1>1. Made = {}
  BY DEF Made
<1>2. replies \in [Made -> Nat]
  BY <1>1
<1>3. commands \in 0 .. MaxCommands /\ calls \in 0 .. MaxCalls
  BY BackendAssumption
<1>4. TypeOK
  <2>1. pending \subseteq Made /\ atServer \subseteq Made /\ nextId \in Nat \ {0}
    OBVIOUS
  <2>2. hello \in Made \cup {0} /\ buffer \in {Empty, Stale} \cup Made
    OBVIOUS
  <2> QED
    BY <1>2, <1>3, <2>1, <2>2 DEF TypeOK
<1> QED
  BY <1>1, <1>4 DEF Inv, ExactlyOnce, NoneWithoutTransport, ReadyIsInitialized, IsRunning

\* The counts of the two bounds stay within them.
LEMMA BoundsKept ==
  ASSUME TypeOK, Next
  PROVE  commands' \in 0 .. MaxCommands /\ calls' \in 0 .. MaxCalls
<1>1. commands \in 0 .. MaxCommands /\ calls \in 0 .. MaxCalls
  BY DEF TypeOK
<1>2. CASE UNCHANGED bounds
  BY <1>1, <1>2 DEF bounds
<1>3. CASE UNCHANGED calls /\ commands < MaxCommands /\ commands' = commands + 1
  BY <1>1, <1>3, BackendAssumption
<1>4. CASE UNCHANGED commands /\ calls < MaxCalls /\ calls' = calls + 1
  BY <1>1, <1>4, BackendAssumption
<1>5. CASE Call \/ Start \/ Stop \/ Restart
  BY <1>3, <1>4, <1>5 DEF Call, Start, Stop, Restart, Command
<1>6. CASE Finished
  BY <1>2, <1>3, <1>6 DEF Finished, bounds
<1>7. CASE Started \/ StartFailed \/ WriteFailed \/ StopGivesUp \/ CompleteRestart
  BY <1>2, <1>7 DEF Started, StartFailed, WriteFailed, StopGivesUp, CompleteRestart
<1>8. CASE \E i \in atServer : Head(i) \/ Answers(i)
  BY <1>2, <1>8 DEF Head, Answers, Malformed, Initialized, InitializeRejected, Response,
                    Unknown
<1> QED
  BY <1>5, <1>6, <1>7, <1>8 DEF Next

\* What does not touch the table keeps what is said about it.
LEMMA TableUntouched ==
  ASSUME TypeOK, ExactlyOnce, UNCHANGED table, atServer' \subseteq atServer
  PROVE  TableOK' /\ ExactlyOnce' /\ Made' = Made
BY TypeOfTable DEF TableOK, ExactlyOnce, Made, table

-----------------------------------------------------------------------------
(* One lemma for each group of actions.                                    *)

LEMMA CallInv == ASSUME Inv, Next, Call PROVE Inv'
<1> USE DEF Inv
<1>1. ready /\ IsRunning /\ hello # 0 /\ hello \notin (pending \cup atServer)
  BY DEF Call, ReadyIsInitialized
<1>2. Requested(1, {}) /\ UNCHANGED <<control, hello, buffer>>
  BY DEF Call
<1>3. TableOK' /\ ExactlyOnce' /\ Made \subseteq Made'
  BY <1>2, TypeOfTable, RequestedKeeps
<1>4. TypeOK'
  BY <1>2, <1>3, BoundsKept DEF TypeOK, TableOK, control
<1>5. IsRunning'
  BY <1>1, <1>2 DEF IsRunning, control
<1>6. hello \notin NewIds(1)
  BY <1>1 DEF TypeOK, Made, NewIds
<1>7. ReadyIsInitialized'
  BY <1>1, <1>2, <1>5, <1>6 DEF ReadyIsInitialized, Requested
<1> QED
  BY <1>3, <1>4, <1>5, <1>7 DEF NoneWithoutTransport

LEMMA StartedInv == ASSUME Inv, Next, Started PROVE Inv'
<1> USE DEF Inv
<1>1. ~IsRunning /\ ~ready /\ pending = {}
  BY DEF Started, IsRunning, NoneWithoutTransport, ReadyIsInitialized
<1>2. /\ nextId' = nextId + 1 /\ pending' = {nextId} /\ replies' = Answered({}, 1)
      /\ hello' = nextId /\ atServer' \subseteq {nextId}
      /\ process' \in {"on", "closing"}
      /\ UNCHANGED <<buffer, stopping, ready, restarting, scheduled>>
  BY <1>1 DEF Started
<1>3. Made' = Made \cup {nextId} /\ nextId \notin Made /\ Made' = 1 .. nextId + 1 - 1
  BY <1>2 DEF Made, TypeOK
<1>4. /\ replies' \in [Made' -> Nat]
      /\ \A i \in Made' : replies'[i] = IF i \in Made THEN replies[i] ELSE 0
  <2>1. TableOK /\ 1 \in Nat
    BY TypeOfTable
  <2>2. /\ Answered({}, 1) \in [1 .. nextId + 1 - 1 -> Nat]
        /\ \A i \in 1 .. nextId + 1 - 1 :
             Answered({}, 1)[i] = (IF i \in Made THEN replies[i] ELSE 0)
                                     + (IF i \in {} THEN 1 ELSE 0)
    BY <2>1, AnsweredIs
  <2>3. \A i \in Made : replies[i] \in Nat
    BY <2>1 DEF TableOK
  <2>4. \A i \in Made' : replies'[i] = IF i \in Made THEN replies[i] ELSE 0
    BY <2>2, <2>3, <1>2, <1>3
  <2>5. replies' \in [Made' -> Nat]
    BY <2>2, <1>2, <1>3
  <2> QED
    BY <2>4, <2>5
<1>5. TypeOK'
  BY <1>2, <1>3, <1>4, BoundsKept DEF TypeOK
<1>6. ExactlyOnce'
  BY <1>1, <1>2, <1>3, <1>4 DEF ExactlyOnce
<1> QED
  BY <1>1, <1>2, <1>5, <1>6 DEF NoneWithoutTransport, ReadyIsInitialized, IsRunning

LEMMA LossInv == ASSUME Inv, Next, StartFailed \/ Finished \/ WriteFailed PROVE Inv'
<1> USE DEF Inv
<1>1. /\ TransportLost /\ atServer' \subseteq atServer /\ hello' \in {hello, 0}
      /\ buffer' \in {buffer, Empty, Stale}
      /\ process' \in {"off", "starting", "deaf"} /\ stopping' \in {stopping, "no"}
      /\ UNCHANGED restarting /\ scheduled' \in {scheduled, scheduled \/ restarting}
  BY DEF StartFailed, Finished, WriteFailed, Schedule, stream
<1>2. TableOK' /\ ExactlyOnce' /\ Made' = Made
  BY <1>1, TypeOfTable, TransportLostKeeps
<1>3. ready' = FALSE /\ pending' = {}
  BY DEF StartFailed, Finished, WriteFailed, TransportLost
<1>4. TypeOK'
  BY <1>1, <1>2, <1>3, BoundsKept DEF TypeOK, TableOK
<1>5. NoneWithoutTransport'
  <2>1. CASE StartFailed
    BY <2>1, <1>3 DEF StartFailed, NoneWithoutTransport, IsRunning, stream
  <2>2. CASE Finished
    BY <2>2, <1>3 DEF Finished, NoneWithoutTransport
  <2>3. CASE WriteFailed
    BY <2>3 DEF WriteFailed, NoneWithoutTransport, IsRunning
  <2> QED
    BY <2>1, <2>2, <2>3
<1> QED
  BY <1>2, <1>3, <1>4, <1>5 DEF ReadyIsInitialized

\* What neither touches the table nor makes the backend ready, and does not end
\* the process.
LEMMA QuietInv ==
  ASSUME Inv, Next, UNCHANGED <<table, hello>>, atServer' \subseteq atServer,
         buffer' \in {Empty, Stale} \cup Made, ready' => ready,
         process' \in {"off", "starting", "on", "deaf", "closing"},
         IsRunning' <=> IsRunning,
         stopping' \in {"no", "stop", "restart"}, ready' \in BOOLEAN,
         restarting' \in BOOLEAN, scheduled' \in BOOLEAN
  PROVE  Inv'
<1> USE DEF Inv
<1>1. TableOK' /\ ExactlyOnce' /\ Made' = Made
  BY TableUntouched
<1>2. TypeOK'
  BY <1>1, BoundsKept DEF TypeOK, TableOK
<1> QED
  BY <1>1, <1>2 DEF NoneWithoutTransport, ReadyIsInitialized, table

LEMMA CommandInv ==
  ASSUME Inv, Next, Start \/ Stop \/ Restart \/ CompleteRestart \/ StopGivesUp
  PROVE  Inv'
<1>1. TypeOK
  BY DEF Inv
<1>2. CASE Start
  BY <1>1, <1>2, QuietInv DEF Start, Begun, TypeOK, stream, IsRunning
<1>3. CASE Stop
  BY <1>1, <1>3, QuietInv DEF Stop, TypeOK, stream, IsRunning
<1>4. CASE Restart
  BY <1>1, <1>4, QuietInv DEF Restart, TypeOK, stream, IsRunning
<1>5. CASE CompleteRestart
  BY <1>1, <1>5, QuietInv DEF CompleteRestart, Begun, TypeOK, stream, IsRunning
<1>6. CASE StopGivesUp
  BY <1>1, <1>6, QuietInv DEF StopGivesUp, TypeOK, stream, IsRunning
<1> QED
  BY <1>2, <1>3, <1>4, <1>5, <1>6

LEMMA ResponseInv ==
  ASSUME Inv, Next, NEW i \in atServer, Head(i) \/ Answers(i)
  PROVE  Inv'
<1> USE DEF Inv
<1>1. i \in Made
  BY DEF TypeOK
<1>2. CASE Head(i)
  BY <1>1, <1>2, QuietInv DEF Head, TypeOK, control, IsRunning
<1>3. CASE Malformed(i) \/ Unknown(i)
  BY <1>1, <1>3, QuietInv DEF Malformed, Unknown, Line, TypeOK, control, IsRunning
<1>4. CASE Initialized(i) \/ InitializeRejected(i) \/ Response(i)
  <2>1. PICK n \in {0, 3} : Requested(n, {i}) /\ (n = 3 => i = hello)
                            /\ (n = 0 => UNCHANGED ready)
    BY <1>4 DEF Initialized, InitializeRejected, Response, control
  <2>2. /\ IsRunning /\ i \in pending /\ buffer' = Empty
        /\ UNCHANGED <<process, stopping, restarting, scheduled, hello>>
        /\ ready' \in BOOLEAN
    BY <1>4 DEF Initialized, InitializeRejected, Response, Dispatched, Line, control, TypeOK
  <2>3. n \in Nat /\ {i} \in SUBSET pending
    BY <2>2
  <2>4. TableOK' /\ ExactlyOnce' /\ Made \subseteq Made'
    BY <2>1, <2>3, TypeOfTable, RequestedKeeps
  <2>5. TypeOK'
    BY <2>2, <2>4, BoundsKept DEF TypeOK, TableOK
  <2>6. IsRunning'
    BY <2>2 DEF IsRunning
  <2>7. pending' \cup atServer' \subseteq ((pending \cup atServer) \ {i}) \cup NewIds(n)
    BY <2>1 DEF Requested
  <2>8. ReadyIsInitialized'
    <3>1. CASE n = 3
      <4>1. i = hello /\ hello # 0 /\ hello \notin NewIds(n)
        BY <3>1, <2>1, <1>1 DEF Made, NewIds, TypeOK
      <4> QED
        BY <4>1, <2>2, <2>6, <2>7 DEF ReadyIsInitialized
    <3>2. CASE n = 0
      <4>1. NewIds(n) = {}
        BY <3>2 DEF NewIds, TypeOK
      <4> QED
        BY <4>1, <3>2, <2>1, <2>2, <2>6, <2>7 DEF ReadyIsInitialized
    <3> QED
      BY <3>1, <3>2
  <2> QED
    BY <2>4, <2>5, <2>6, <2>8 DEF NoneWithoutTransport
<1> QED
  BY <1>2, <1>3, <1>4 DEF Answers

-----------------------------------------------------------------------------
LEMMA NextInv == Inv /\ [Next]_vars => Inv'
<1> SUFFICES ASSUME Inv, [Next]_vars PROVE Inv'
  OBVIOUS
<1>1. CASE Next
  <2>1. CASE Call
    BY <1>1, <2>1, CallInv
  <2>2. CASE Started
    BY <1>1, <2>2, StartedInv
  <2>3. CASE StartFailed \/ Finished \/ WriteFailed
    BY <1>1, <2>3, LossInv
  <2>4. CASE Start \/ Stop \/ Restart \/ CompleteRestart \/ StopGivesUp
    BY <1>1, <2>4, CommandInv
  <2>5. CASE \E i \in atServer : Head(i) \/ Answers(i)
    BY <1>1, <2>5, ResponseInv
  <2> QED
    BY <1>1, <2>1, <2>2, <2>3, <2>4, <2>5 DEF Next
<1>2. CASE UNCHANGED vars
  BY <1>2 DEF Inv, TypeOK, ExactlyOnce, NoneWithoutTransport, ReadyIsInitialized, Made,
              IsRunning, vars, table, control, stream, bounds
<1> QED
  BY <1>1, <1>2

LEMMA InvHolds == Spec => []Inv
<1>1. Init => Inv
  BY InitInv
<1>2. Inv /\ [Next]_vars => Inv'
  BY NextInv
<1> QED
  BY <1>1, <1>2, PTL DEF Spec

\* Every variable of the backend keeps its type: the table, the responses still to
\* come and the buffer speak only of requests that were made.
THEOREM BackendTyped == Spec => []TypeOK
<1>1. Inv => TypeOK
  BY DEF Inv
<1> QED
  BY <1>1, InvHolds, PTL

\* Over any sequence of starts, crashes, restarts and late responses, every
\* request that rpc.py ever made has been called back once or waits in its table.
THEOREM CalledBackOnce == Spec => []ExactlyOnce
<1>1. Inv => ExactlyOnce
  BY DEF Inv
<1> QED
  BY <1>1, InvHolds, PTL

\* When the process is gone, fail_pending has left no request waiting for it.
THEOREM NoneLeftWaiting == Spec => []NoneWithoutTransport
<1>1. Inv => NoneWithoutTransport
  BY DEF Inv
<1> QED
  BY <1>1, InvHolds, PTL

\* is_ready is true only of a process that runs and has itself answered
\* initialize.
THEOREM ReadyMeansInitialized == Spec => []ReadyIsInitialized
<1>1. Inv => ReadyIsInitialized
  BY DEF Inv
<1> QED
  BY <1>1, InvHolds, PTL
=============================================================================
