--------------------------- MODULE ShutdownProofs ---------------------------
(***************************************************************************)
(* After a signal the pool outlives the handlers, for any number of        *)
(* requests, pages and runners; and no row is queued twice.                *)
(***************************************************************************)
EXTENDS Shutdown, FiniteSetTheorems, TLAPS

(* Only run changes the first four; the rest are what handlers do. *)
Shape ==
    /\ pool \in BOOLEAN /\ failed \in BOOLEAN /\ timedOut \in BOOLEAN
    /\ request \in [Requests -> {"new", "busy", "done", "error"}]
    /\ connected \subseteq Runners
    /\ acquire \in [Runners -> {"none", "scan", "wait", "send"}]

(* run is behind GracefulStop, behind Shutdown. *)
RpcsOver == main \in {"stopReaper", "closePool", "return", "exited"}
HttpOver == main = "grpc" \/ RpcsOver

(* The pool is closed last; no statement fails before; and what a server   *)
(* was waited for does not come back.                                      *)
StopInv ==
    /\ Shape
    /\ ~pool => main \in {"return", "exited"}
    /\ pool => \A q \in Requests : request[q] # "error"
    /\ ~failed /\ HttpOver /\ ~timedOut =>
           \A q \in Requests : request[q] \in {"new", "done"}
    /\ ~failed /\ RpcsOver =>
           connected = {} /\ \A r \in Runners : acquire[r] = "none"

(* A server that has just started has nothing to wait for. *)
LEMMA StopInit == Init => StopInv
BY DEF Init, StopInv, Shape, HttpOver, RpcsOver

(* A handler of a request or a page. *)
LEMMA HttpKeepsInv ==
    ASSUME StopInv,
           \/ \E q \in Requests : Arrive(q) \/ Serve(q)
           \/ \E g \in Pages : OpenPage(g) \/ ClosePage(g)
    PROVE  StopInv'
<1>1. ASSUME NEW q \in Requests, Arrive(q) PROVE StopInv'
  BY <1>1 DEF StopInv, Shape, HttpOver, RpcsOver, Arrive, HttpAccepts, Quiet
<1>2. ASSUME NEW q \in Requests, Statement(q) PROVE StopInv'
  BY <1>2 DEF StopInv, Shape, HttpOver, RpcsOver, Statement, Quiet
<1>3. ASSUME NEW q \in Requests, StatementFails(q) PROVE StopInv'
  BY <1>3 DEF StopInv, Shape, HttpOver, RpcsOver, StatementFails, Quiet
<1>4. ASSUME NEW g \in Pages, OpenPage(g) \/ ClosePage(g) PROVE StopInv'
  BY <1>4 DEF StopInv, Shape, HttpOver, RpcsOver, OpenPage, ClosePage, Quiet
<1> QED BY <1>1, <1>2, <1>3, <1>4 DEF Serve

(* A stream of a runner, or the reaper. *)
LEMMA RpcKeepsInv ==
    ASSUME StopInv,
           \/ RequeueExpired
           \/ \E r \in Runners : Connect(r) \/ Disconnect(r) \/ Acquire(r)
                                 \/ ServeStream(r)
    PROVE  StopInv'
<1>1. CASE RequeueExpired
  BY <1>1 DEF StopInv, Shape, HttpOver, RpcsOver, RequeueExpired, Quiet
<1>2. ASSUME NEW r \in Runners, Connect(r) \/ Disconnect(r) PROVE StopInv'
  BY <1>2 DEF StopInv, Shape, HttpOver, RpcsOver, Connect, Disconnect,
              GrpcAccepts, Quiet
<1>3. ASSUME NEW r \in Runners, Acquire(r) PROVE StopInv'
  BY <1>3 DEF StopInv, Shape, HttpOver, RpcsOver, Acquire, GrpcAccepts, Quiet
<1>4. ASSUME NEW r \in Runners, Scan(r) \/ Rescan(r) PROVE StopInv'
  BY <1>4 DEF StopInv, Shape, HttpOver, RpcsOver, Scan, Rescan, Quiet
<1>5. ASSUME NEW r \in Runners, Send(r) \/ Return(r) PROVE StopInv'
  BY <1>5 DEF StopInv, Shape, HttpOver, RpcsOver, Send, Return, Quiet
<1> QED BY <1>1, <1>2, <1>3, <1>4, <1>5 DEF ServeStream

(* run itself. *)
LEMMA RunKeepsInv ==
    ASSUME StopInv, Signal \/ ListenerFails \/ Stop
    PROVE  StopInv'
<1> USE DEF StopInv, Shape, HttpOver, RpcsOver, handlerVars
<1>1. CASE Signal BY <1>1 DEF Signal
<1>2. CASE ListenerFails BY <1>2 DEF ListenerFails
<1>3. CASE HttpShutdown BY <1>3 DEF HttpShutdown, HttpBusy
<1>4. CASE GracefulStop BY <1>4 DEF GracefulStop
<1>5. CASE StopReaper BY <1>5 DEF StopReaper
<1>6. CASE ClosePool BY <1>6 DEF ClosePool
<1>7. CASE Exit BY <1>7 DEF Exit
<1> QED BY <1>1, <1>2, <1>3, <1>4, <1>5, <1>6, <1>7 DEF Stop

(* After a signal no RPC is cut off, and no request is that was answered   *)
(* within shutdownTimeout (the order of Shutdown, GracefulStop and the     *)
(* deferred Close in run).                                                 *)
THEOREM ShutdownInOrder == Spec => []PoolOutlivesHandlers
<1>1. StopInv /\ [Next]_vars => StopInv'
  <2> SUFFICES ASSUME StopInv, [Next]_vars PROVE StopInv'
    OBVIOUS
  <2>1. CASE UNCHANGED vars
    BY <2>1 DEF StopInv, Shape, HttpOver, RpcsOver, vars, handlerVars
  <2>2. CASE Terminated
    BY <2>2, <2>1 DEF Terminated
  <2> QED BY <2>1, <2>2, HttpKeepsInv, RpcKeepsInv, RunKeepsInv DEF Next
<1>2. StopInv => PoolOutlivesHandlers
  BY DEF StopInv, Shape, HttpOver, RpcsOver, PoolOutlivesHandlers
<1> QED BY StopInit, <1>1, <1>2, PTL DEF Spec
-----------------------------------------------------------------------------
(* Rows.  A request that was answered has planned one; from then on it is  *)
(* queued, held by a stream that has yet to send it, lost, or with a       *)
(* runner.                                                                 *)

Sending == {r \in Runners : acquire[r] = "send"}
Answered == {q \in Requests : request[q] = "done"}

(* TypeOK but for its bound on the rows. *)
HandlersTyped ==
    /\ main \in {"select", "http", "grpc", "stopReaper", "closePool", "return",
                 "exited"}
    /\ reaping \in BOOLEAN
    /\ pages \subseteq Pages
    /\ left \in [Requests -> Nat]
    /\ \A q \in Requests :
        IF request[q] = "busy" THEN left[q] \in 1 .. Statements
        ELSE request[q] \in {"new", "done", "error"} /\ left[q] = 0
    /\ queued \in Nat /\ lost \in Nat

(* No more rows are queued, held and lost than requests were answered.     *)
(* Sending is finite although Runners need not be: streams take one row    *)
(* at a time.                                                              *)
RowsKept ==
    /\ Shape
    /\ HandlersTyped
    /\ IsFiniteSet(Sending)
    /\ queued + lost + Cardinality(Sending) <= Cardinality(Answered)

(* What RowsKept says implies the bound of TypeOK. *)
LEMMA RowsBounded == RowsKept => TypeOK
<1> SUFFICES ASSUME RowsKept PROVE TypeOK
  OBVIOUS
<1>1. IsFiniteSet(Requests) /\ Answered \subseteq Requests
  BY ShutdownConstants DEF Answered
<1>2. /\ Cardinality(Answered) \in Nat /\ Cardinality(Requests) \in Nat
      /\ Cardinality(Answered) <= Cardinality(Requests)
  BY <1>1, FS_Subset, FS_CardinalityType
<1>3. Cardinality(Sending) \in Nat
  BY FS_CardinalityType DEF RowsKept
<1>4. queued \in 0 .. MaxRows /\ lost \in 0 .. MaxRows
  BY <1>2, <1>3 DEF RowsKept, HandlersTyped, MaxRows
<1> QED BY <1>4 DEF TypeOK, RowsKept, HandlersTyped, Shape

(* Nothing is planned yet. *)
LEMMA RowsInit == Init => RowsKept
<1> SUFFICES ASSUME Init PROVE RowsKept
  OBVIOUS
<1>1. Sending = {} /\ Answered = {}
  BY DEF Init, Sending, Answered
<1>2. IsFiniteSet({}) /\ Cardinality({}) = 0
  BY FS_EmptySet
<1>3. Shape /\ HandlersTyped
  BY DEF Init, Shape, HandlersTyped
<1>4. queued + lost + 0 <= 0
  BY DEF Init
<1> QED BY <1>1, <1>2, <1>3, <1>4 DEF RowsKept

(* A step that answers no request and leaves the rows where they are. *)
LEMMA RowsStay ==
    ASSUME RowsKept, Shape', HandlersTyped', Sending' = Sending,
           Answered' = Answered, queued' + lost' = queued + lost
    PROVE  RowsKept'
<1>1. Cardinality(Sending) \in Nat
  BY FS_CardinalityType DEF RowsKept
<1> QED BY <1>1 DEF RowsKept, HandlersTyped

(* The last statement of a request adds the one row it has planned; the    *)
(* others, and the ones that fail, add none.                               *)
LEMMA RequestsKeepRows ==
    ASSUME RowsKept, NEW q \in Requests, Arrive(q) \/ Serve(q)
    PROVE  RowsKept'
<1> USE DEF Shape, HandlersTyped, Quiet
<1>1. CASE Arrive(q)
  <2>1. Shape' /\ HandlersTyped'
    BY <1>1, ShutdownConstants DEF RowsKept, Arrive
  <2>2. Sending' = Sending /\ Answered' = Answered /\ queued' + lost' = queued + lost
    BY <1>1 DEF RowsKept, Arrive, Sending, Answered
  <2> QED BY <2>1, <2>2, RowsStay
<1>2. CASE StatementFails(q)
  <2>1. Shape' /\ HandlersTyped'
    BY <1>2 DEF RowsKept, StatementFails
  <2>2. Sending' = Sending /\ Answered' = Answered /\ queued' + lost' = queued + lost
    BY <1>2 DEF RowsKept, StatementFails, Sending, Answered
  <2> QED BY <2>1, <2>2, RowsStay
<1>3. CASE Statement(q) /\ left[q] # 1
  <2>1. Shape' /\ HandlersTyped'
    BY <1>3, ShutdownConstants DEF RowsKept, Statement
  <2>2. Sending' = Sending /\ Answered' = Answered /\ queued' + lost' = queued + lost
    BY <1>3 DEF RowsKept, Statement, Sending, Answered
  <2> QED BY <2>1, <2>2, RowsStay
<1>4. CASE Statement(q) /\ left[q] = 1
  <2>1. Shape' /\ HandlersTyped'
    BY <1>4, ShutdownConstants DEF RowsKept, Statement
  <2>2. Sending' = Sending /\ queued' = queued + 1 /\ lost' = lost
    BY <1>4 DEF RowsKept, Statement, Sending
  <2>3. Answered' = Answered \cup {q} /\ q \notin Answered
    BY <1>4 DEF RowsKept, Statement, Answered
  <2>4. IsFiniteSet(Answered)
    BY ShutdownConstants, FS_Subset DEF Answered
  <2>5. Cardinality(Answered') = Cardinality(Answered) + 1
    BY <2>3, <2>4, FS_AddElement
  <2>6. Cardinality(Sending) \in Nat /\ Cardinality(Answered) \in Nat
    BY <2>4, FS_CardinalityType DEF RowsKept
  <2> QED BY <2>1, <2>2, <2>5, <2>6 DEF RowsKept
<1> QED BY <1>1, <1>2, <1>3, <1>4 DEF Serve

(* A stream takes a queued row, hands it over or loses it. *)
LEMMA StreamsKeepRows ==
    ASSUME RowsKept, NEW r \in Runners, ServeStream(r) \/ Acquire(r)
    PROVE  RowsKept'
<1> USE DEF Shape, HandlersTyped, Quiet
<1>1. /\ Cardinality(Sending) \in Nat
      /\ Answered \subseteq Requests
      /\ Cardinality(Answered) \in Nat
  BY ShutdownConstants, FS_Subset, FS_CardinalityType DEF RowsKept, Answered
<1>2. CASE Acquire(r) \/ Rescan(r) \/ (Scan(r) /\ queued = 0)
           \/ (Return(r) /\ acquire[r] # "send")
  <2>1. Shape' /\ HandlersTyped'
    BY <1>2 DEF RowsKept, Acquire, Rescan, Scan, Return
  <2>2. Sending' = Sending /\ Answered' = Answered /\ queued' + lost' = queued + lost
    BY <1>2 DEF RowsKept, Acquire, Rescan, Scan, Return, Sending, Answered
  <2> QED BY <2>1, <2>2, RowsStay
<1>3. CASE Scan(r) /\ queued # 0
  <2>1. Shape' /\ HandlersTyped' /\ queued' = queued - 1 /\ lost' = lost
    BY <1>3 DEF RowsKept, Scan
  <2>2. Sending' = Sending \cup {r} /\ r \notin Sending /\ Answered' = Answered
    BY <1>3 DEF RowsKept, Scan, Sending, Answered
  <2>3. IsFiniteSet(Sending') /\ Cardinality(Sending') = Cardinality(Sending) + 1
    BY <2>2, FS_AddElement DEF RowsKept
  <2> QED BY <1>1, <2>1, <2>2, <2>3 DEF RowsKept
<1>4. CASE Send(r) \/ (Return(r) /\ acquire[r] = "send")
  <2>1. Shape' /\ HandlersTyped' /\ queued' = queued /\ lost' \in {lost, lost + 1}
    BY <1>4 DEF RowsKept, Send, Return
  <2>2. Sending' = Sending \ {r} /\ r \in Sending /\ Answered' = Answered
    BY <1>4 DEF RowsKept, Send, Return, Sending, Answered
  <2>3. IsFiniteSet(Sending') /\ Cardinality(Sending') = Cardinality(Sending) - 1
    BY <2>2, FS_RemoveElement DEF RowsKept
  <2> QED BY <1>1, <2>1, <2>2, <2>3 DEF RowsKept
<1> QED BY <1>2, <1>3, <1>4 DEF ServeStream

(* The reaper moves the lost rows back; all else leaves them alone. *)
LEMMA OthersKeepRows ==
    ASSUME RowsKept,
           \/ RequeueExpired \/ Signal \/ ListenerFails \/ Stop \/ UNCHANGED vars
           \/ \E g \in Pages : OpenPage(g) \/ ClosePage(g)
           \/ \E r \in Runners : Connect(r) \/ Disconnect(r)
    PROVE  RowsKept'
<1> USE DEF Shape, HandlersTyped, Quiet, handlerVars, vars
<1>1. CASE RequeueExpired
  <2>1. Shape' /\ HandlersTyped' /\ queued' + lost' = queued + lost
    BY <1>1 DEF RowsKept, RequeueExpired
  <2>2. Sending' = Sending /\ Answered' = Answered
    BY <1>1 DEF RequeueExpired, Sending, Answered
  <2> QED BY <2>1, <2>2, RowsStay
<1>2. CASE Signal \/ ListenerFails \/ Stop \/ UNCHANGED vars
  <2>1. Shape' /\ HandlersTyped' /\ queued' + lost' = queued + lost
    BY <1>2 DEF RowsKept, Signal, ListenerFails, Stop, HttpShutdown, HttpBusy,
                GracefulStop, StopReaper, ClosePool, Exit
  <2>2. Sending' = Sending /\ Answered' = Answered
    BY <1>2 DEF Signal, ListenerFails, Stop, HttpShutdown, GracefulStop,
                StopReaper, ClosePool, Exit, Sending, Answered
  <2> QED BY <2>1, <2>2, RowsStay
<1>3. ASSUME NEW g \in Pages, OpenPage(g) \/ ClosePage(g) PROVE RowsKept'
  <2>1. Shape' /\ HandlersTyped' /\ queued' + lost' = queued + lost
    BY <1>3 DEF RowsKept, OpenPage, ClosePage
  <2>2. Sending' = Sending /\ Answered' = Answered
    BY <1>3 DEF OpenPage, ClosePage, Sending, Answered
  <2> QED BY <2>1, <2>2, RowsStay
<1>4. ASSUME NEW r \in Runners, Connect(r) \/ Disconnect(r) PROVE RowsKept'
  <2>1. Shape' /\ HandlersTyped' /\ queued' + lost' = queued + lost
    BY <1>4 DEF RowsKept, Connect, Disconnect
  <2>2. Sending' = Sending /\ Answered' = Answered
    BY <1>4 DEF Connect, Disconnect, Sending, Answered
  <2> QED BY <2>1, <2>2, RowsStay
<1> QED BY <1>1, <1>2, <1>3, <1>4

(* Types, and with them that no row is queued or lost twice, whatever      *)
(* streams break off and however often StartJobReaper ticks: there are     *)
(* never more of either than requests.                                     *)
THEOREM TypeCorrect == Spec => []TypeOK
<1>1. RowsKept /\ [Next]_vars => RowsKept'
  <2> SUFFICES ASSUME RowsKept, [Next]_vars PROVE RowsKept'
    OBVIOUS
  <2> QED BY RequestsKeepRows, StreamsKeepRows, OthersKeepRows
          DEF Next, Terminated
<1> QED BY RowsInit, <1>1, RowsBounded, PTL DEF Spec
=============================================================================
