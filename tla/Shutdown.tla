------------------------------ MODULE Shutdown ------------------------------
(***************************************************************************)
(* run of cmd/drassi-server/main.go: the HTTP and the gRPC server, the     *)
(* pool and the reapers, from the signal or the failure of a listener to   *)
(* the end of the process.                                                 *)
(*                                                                         *)
(* A handler is reduced to the statements it has yet to run: a request     *)
(* plans one row with Statements of them, a log stream (a page) and a      *)
(* Heartbeat stream run until the other side leaves, an AcquireJob stream  *)
(* of one slot takes a row and sends it (module Wakeup has its wait).      *)
(* Statements are atomic, so that dbPool.Close has none to wait for.       *)
(***************************************************************************)
EXTENDS Naturals, FiniteSets

CONSTANTS
    Requests,   \* POST /api/runs or a webhook
    Statements, \* statements of a request
    Pages,      \* GET /jobs/{id}/logs
    Runners

ASSUME ShutdownConstants == Statements \in Nat \ {0} /\ IsFiniteSet(Requests)

VARIABLES
    main,       \* run: next step
    failed,     \* a listener has failed
    timedOut,   \* httpServer.Shutdown gave up
    pool,       \* the pool is open
    reaping,    \* reaperCtx is not cancelled
    request,    \* state of the handler of each request
    left,       \* the statements it has left
    pages,      \* log streams being served
    connected,  \* runners connected, each by a Heartbeat stream
    acquire,    \* AcquireJob handler of each runner: next step
    queued,     \* queued rows
    lost        \* leased rows whose lease was not sent

handlerVars == <<request, left, pages, connected, acquire, queued, lost>>
vars == <<main, failed, timedOut, pool, reaping, handlerVars>>

Init ==
    /\ main = "select"
    /\ failed = FALSE /\ timedOut = FALSE
    /\ pool = TRUE /\ reaping = TRUE
    /\ request = [q \in Requests |-> "new"]
    /\ left = [q \in Requests |-> 0]
    /\ pages = {} /\ connected = {}
    /\ acquire = [r \in Runners |-> "none"]
    /\ queued = 0
    /\ lost = 0

MaxRows == Cardinality(Requests)
-----------------------------------------------------------------------------
(* HTTP handlers. *)

Quiet == UNCHANGED <<main, failed, timedOut, pool, reaping>>

(* Shutdown has not been called, nor has the process ended. *)
HttpAccepts == main = "select" \/ (failed /\ main # "exited")

Arrive(q) ==
    /\ HttpAccepts
    /\ request[q] = "new"
    /\ request' = [request EXCEPT ![q] = "busy"]
    /\ left' = [left EXCEPT ![q] = Statements]
    /\ Quiet /\ UNCHANGED <<pages, connected, acquire, queued, lost>>

Statement(q) ==
    /\ request[q] = "busy"
    /\ pool
    /\ left' = [left EXCEPT ![q] = @ - 1]
    /\ IF left[q] = 1
       THEN request' = [request EXCEPT ![q] = "done"] /\ queued' = queued + 1
       ELSE UNCHANGED <<request, queued>>
    /\ Quiet /\ UNCHANGED <<pages, connected, acquire, lost>>

StatementFails(q) ==
    /\ request[q] = "busy"
    /\ ~pool
    /\ request' = [request EXCEPT ![q] = "error"]
    /\ left' = [left EXCEPT ![q] = 0]
    /\ Quiet /\ UNCHANGED <<pages, connected, acquire, queued, lost>>

OpenPage(g) ==
    /\ HttpAccepts
    /\ g \notin pages
    /\ pages' = pages \cup {g}
    /\ Quiet /\ UNCHANGED <<request, left, connected, acquire, queued, lost>>

(* The browser leaves, or the job is over. *)
ClosePage(g) ==
    /\ g \in pages
    /\ pages' = pages \ {g}
    /\ Quiet /\ UNCHANGED <<request, left, connected, acquire, queued, lost>>
-----------------------------------------------------------------------------
(* RPC handlers. *)

(* GracefulStop has not been called. *)
GrpcAccepts == main \in {"select", "http"} \/ failed

Connect(r) ==
    /\ GrpcAccepts
    /\ r \notin connected
    /\ connected' = connected \cup {r}
    /\ Quiet /\ UNCHANGED <<request, left, pages, acquire, queued, lost>>

Disconnect(r) ==
    /\ r \in connected
    /\ connected' = connected \ {r}
    /\ Quiet /\ UNCHANGED <<request, left, pages, acquire, queued, lost>>

(* AcquireJob; without the pool the runner is not found. *)
Acquire(r) ==
    /\ GrpcAccepts /\ pool
    /\ r \in connected
    /\ acquire[r] = "none"
    /\ acquire' = [acquire EXCEPT ![r] = "scan"]
    /\ Quiet /\ UNCHANGED <<request, left, pages, connected, queued, lost>>

Scan(r) ==
    /\ acquire[r] = "scan"
    /\ pool /\ r \in connected
    /\ \/ queued > 0 /\ queued' = queued - 1 /\ acquire' = [acquire EXCEPT ![r] = "send"]
       \/ queued = 0 /\ acquire' = [acquire EXCEPT ![r] = "wait"] /\ UNCHANGED queued
    /\ Quiet /\ UNCHANGED <<request, left, pages, connected, lost>>

(* Woken or timed out. *)
Rescan(r) ==
    /\ acquire[r] = "wait"
    /\ acquire' = [acquire EXCEPT ![r] = "scan"]
    /\ Quiet /\ UNCHANGED <<request, left, pages, connected, queued, lost>>

Send(r) ==
    /\ acquire[r] = "send"
    /\ pool /\ r \in connected
    /\ acquire' = [acquire EXCEPT ![r] = "none"]
    /\ Quiet /\ UNCHANGED <<request, left, pages, connected, queued, lost>>

(* ctx is done or a statement fails.  A lease that was not sent waits for  *)
(* its deadline.                                                           *)
Return(r) ==
    /\ \/ acquire[r] # "none" /\ r \notin connected
       \/ acquire[r] \in {"scan", "send"} /\ ~pool
    /\ acquire' = [acquire EXCEPT ![r] = "none"]
    /\ lost' = IF acquire[r] = "send" THEN lost + 1 ELSE lost
    /\ Quiet /\ UNCHANGED <<request, left, pages, connected, queued>>

(* Defect: a requeued row still counts as expired. *)
RequeueAgain ==
    /\ reaping /\ pool
    /\ lost > 0
    /\ queued' = queued + lost
    /\ Quiet /\ UNCHANGED <<request, left, pages, connected, acquire, lost>>

(* StartJobReaper requeues it. *)
RequeueExpired ==
    /\ reaping /\ pool
    /\ lost > 0
    /\ lost' = 0
    /\ queued' = queued + lost
    /\ Quiet /\ UNCHANGED <<request, left, pages, connected, acquire>>
-----------------------------------------------------------------------------
(* run. *)

Signal ==
    /\ main = "select"
    /\ main' = "http"
    /\ UNCHANGED <<failed, timedOut, pool, reaping, handlerVars>>

(* ListenAndServe or Serve returns an error: run returns it, through the   *)
(* deferred calls.  Before Shutdown neither returns without one.           *)
ListenerFails ==
    /\ main = "select"
    /\ failed' = TRUE
    /\ main' = "stopReaper"
    /\ UNCHANGED <<timedOut, pool, reaping, handlerVars>>

HttpBusy == pages # {} \/ \E q \in Requests : request[q] = "busy"

(* Defect: Shutdown is given a context without a deadline. *)
ShutdownWaits ==
    /\ main = "http"
    /\ ~HttpBusy
    /\ main' = "grpc"
    /\ UNCHANGED <<failed, timedOut, pool, reaping, handlerVars>>

(* httpServer.Shutdown waits for the requests it has, but not longer than  *)
(* shutdownTimeout, and does not end them.                                 *)
HttpShutdown ==
    /\ main = "http"
    /\ main' = "grpc"
    /\ timedOut' = HttpBusy
    /\ UNCHANGED <<failed, pool, reaping, handlerVars>>

(* Defect: Stop is called, which waits for no call. *)
GrpcStop ==
    /\ main = "grpc"
    /\ main' = "stopReaper"
    /\ UNCHANGED <<failed, timedOut, pool, reaping, handlerVars>>

(* grpcServer.GracefulStop waits for the calls it has and ends none. *)
GracefulStop ==
    /\ main = "grpc"
    /\ connected = {} /\ \A r \in Runners : acquire[r] = "none"
    /\ main' = "stopReaper"
    /\ UNCHANGED <<failed, timedOut, pool, reaping, handlerVars>>

(* The deferred calls, the last one first. *)
StopReaper ==
    /\ main = "stopReaper"
    /\ main' = "closePool"
    /\ reaping' = FALSE
    /\ UNCHANGED <<failed, timedOut, pool, handlerVars>>

ClosePool ==
    /\ main = "closePool"
    /\ main' = "return"
    /\ pool' = FALSE
    /\ UNCHANGED <<failed, timedOut, reaping, handlerVars>>

(* The process ends, with every goroutine that is left. *)
Exit ==
    /\ main = "return"
    /\ main' = "exited"
    /\ UNCHANGED <<failed, timedOut, pool, reaping, handlerVars>>
-----------------------------------------------------------------------------
Serve(q) == main # "exited" /\ (Statement(q) \/ StatementFails(q))
ServeStream(r) == main # "exited" /\ (Scan(r) \/ Rescan(r) \/ Send(r) \/ Return(r))
Stop == HttpShutdown \/ GracefulStop \/ StopReaper \/ ClosePool \/ Exit

Terminated == main = "exited" /\ UNCHANGED vars

Next ==
    \/ Signal \/ ListenerFails \/ Stop \/ Terminated
    \/ \E q \in Requests : Arrive(q) \/ Serve(q)
    \/ \E r \in Runners : ServeStream(r)
    \/ /\ main # "exited"
       /\ \/ RequeueExpired
          \/ \E g \in Pages : OpenPage(g) \/ ClosePage(g)
          \/ \E r \in Runners : Connect(r) \/ Disconnect(r) \/ Acquire(r)

Spec == Init /\ [][Next]_vars

(* Handlers and run go on while they can; nothing makes a runner or a      *)
(* browser leave.                                                          *)
FairSpec ==
    /\ Spec
    /\ WF_vars(Stop)
    /\ \A q \in Requests : WF_vars(Serve(q))
    /\ \A r \in Runners : WF_vars(ServeStream(r))
-----------------------------------------------------------------------------
TypeOK ==
    /\ main \in {"select", "http", "grpc", "stopReaper", "closePool", "return",
                 "exited"}
    /\ {failed, timedOut, pool, reaping} \subseteq BOOLEAN
    /\ \A q \in Requests :
        IF request[q] = "busy" THEN left[q] \in 1 .. Statements
        ELSE request[q] \in {"new", "done", "error"} /\ left[q] = 0
    /\ pages \subseteq Pages /\ connected \subseteq Runners
    /\ acquire \in [Runners -> {"none", "scan", "wait", "send"}]
    /\ queued \in 0 .. MaxRows /\ lost \in 0 .. MaxRows

(* After a signal no RPC is cut off and no request is that was answered    *)
(* within shutdownTimeout: each finds the pool open to its end, and no     *)
(* lease stays behind unsent by a runner that stayed (the order of         *)
(* Shutdown, GracefulStop and the deferred Close in run).                  *)
PoolOutlivesHandlers ==
    ~pool /\ ~failed =>
        /\ \A r \in Runners : acquire[r] = "none" /\ r \notin connected
        /\ timedOut \/ \A q \in Requests : request[q] \in {"new", "done"}

(* A signal ends the process once the runners have left, whatever requests *)
(* and pages are open (shutdownTimeout in run).  While one stays,          *)
(* GracefulStop waits for its streams.                                     *)
ShutdownEnds == <>[](connected = {}) => (main = "http" ~> main = "exited")
=============================================================================
