------------------------------- MODULE Wakeup -------------------------------
(***************************************************************************)
(* From POST /api/runs to a runner: runsCreateHandler                      *)
(* (internal/api/runs.go) plans rows and notifies; StartJobReaper requeues *)
(* rows and notifies; the AcquireJob streams wait for either, with a timer *)
(* behind it (internal/dispatch/queue.go).                                 *)
(*                                                                         *)
(* A row is any job without needs: gating and the end of jobs are in       *)
(* module Dispatch.  A commit is its position in the history of the        *)
(* branch, a workflow file the commit it was read at.                      *)
(***************************************************************************)
EXTENDS Naturals, SequencesExt

CONSTANTS
    Posts,      \* POST /api/runs requests
    Rows,       \* jobs rows
    RowsOf,     \* the rows each request plans
    Runners,
    FreeSlots,  \* free_slots of every AcquireJob
    Reaper, NoRow, NoRun,
    MaxPushes,  \* bound: commits pushed to the branch
    MaxPolls,   \* bound: backstop timers that fire with nothing queued
    MaxLapses,  \* bound: RequeueExpired calls that find a row
    MaxDrops,   \* bound: runners that break off a stream
    MaxFaults   \* bound: failed requests and statements

ASSUME WakeupConstants ==
    /\ IsFiniteSet(Posts)
    /\ RowsOf \in [Posts -> SUBSET Rows]
    /\ \A p, q \in Posts : p # q => RowsOf[p] \cap RowsOf[q] = {}
    /\ FreeSlots \in Nat \ {0}
    /\ MaxPushes \in Nat /\ MaxPolls \in Nat /\ MaxLapses \in Nat
    /\ MaxDrops \in Nat /\ MaxFaults \in Nat
    /\ Reaper \notin Posts /\ NoRow \notin Rows

VARIABLES
    head,       \* the commit the branch points to
    post,       \* handler of each POST: next step, or its answer
    sha, yaml,  \* its local variables
    left,       \* planned rows it has not inserted
    run,        \* the workflow_runs row it created
    row,        \* jobs.status; "sent" once the lease is with the runner
    stream,     \* AcquireJob handler of each runner: next step
    job,        \* the row it has leased
    slots,      \* leases it may still send
    ch,         \* the channel its select waits for, 0 if it is not there
    gone,       \* the handlers whose runner has broken off
    subs,       \* jobQueueNotifier.subs
    taken,      \* the channels each notify() has yet to close
    closed,     \* closed channels
    reaper,     \* StartJobReaper: next step
    count       \* what the bounds count

postVars == <<post, sha, yaml, left, run>>
streamVars == <<stream, job, slots, ch, gone>>
queueVars == <<subs, taken, closed, reaper>>
vars == <<head, postVars, row, streamVars, queueVars, count>>

Notifiers == Posts \cup {Reaper}

Init ==
    /\ head = 0
    /\ post = [p \in Posts |-> "new"]
    /\ sha = [p \in Posts |-> 0] /\ yaml = [p \in Posts |-> 0]
    /\ left = [p \in Posts |-> {}]
    /\ run = [p \in Posts |-> NoRun]
    /\ row = [j \in Rows |-> "none"]
    /\ stream = [r \in Runners |-> "closed"]
    /\ job = [r \in Runners |-> NoRow]
    /\ slots = [r \in Runners |-> 0]
    /\ ch = [r \in Runners |-> 0]
    /\ gone = {}
    /\ subs = <<>> /\ closed = {}
    /\ taken = [n \in Notifiers |-> <<>>]
    /\ reaper = "tick"
    /\ count = [polls |-> 0, lapses |-> 0, drops |-> 0, faults |-> 0]

Counted(what, max) ==
    /\ count[what] < max
    /\ count' = [count EXCEPT ![what] = @ + 1]
-----------------------------------------------------------------------------
(* POST /api/runs. *)

Goto(p, next) == post' = [post EXCEPT ![p] = next]

(* The answer is written; the local variables are gone. *)
Answer(p, with) ==
    /\ Goto(p, with)
    /\ sha' = [sha EXCEPT ![p] = 0]
    /\ yaml' = [yaml EXCEPT ![p] = 0]
    /\ left' = [left EXCEPT ![p] = {}]

(* A push to the branch; only one between two requests for it matters. *)
Push ==
    /\ head < MaxPushes
    /\ \E p \in Posts : post[p] = "fetch"
    /\ head' = head + 1
    /\ UNCHANGED <<postVars, row, streamVars, queueVars, count>>

(* The body is decoded and validated. *)
Validate(p) ==
    /\ post[p] = "new"
    /\ \/ Goto(p, "resolve") /\ UNCHANGED <<sha, yaml, left>>
       \/ Answer(p, "bad")
    /\ UNCHANGED <<head, run, row, streamVars, queueVars, count>>

ResolveRef(p) ==
    /\ post[p] = "resolve"
    /\ sha' = [sha EXCEPT ![p] = head]
    /\ Goto(p, "fetch")
    /\ UNCHANGED <<head, yaml, left, run, row, streamVars, queueVars, count>>

(* Defect: the file is fetched at the ref. *)
FetchAtRef(p) ==
    /\ post[p] = "fetch"
    /\ yaml' = [yaml EXCEPT ![p] = head]
    /\ Goto(p, "create")
    /\ UNCHANGED <<head, sha, left, run, row, streamVars, queueVars, count>>

FetchWorkflow(p) ==
    /\ post[p] = "fetch"
    /\ yaml' = [yaml EXCEPT ![p] = sha[p]]
    /\ Goto(p, "create")
    /\ UNCHANGED <<head, sha, left, run, row, streamVars, queueVars, count>>

(* Defect: whatever Plan returns is blamed on the workflow. *)
UpstreamErrorBad(p) ==
    /\ post[p] \in {"resolve", "fetch", "create", "rows"}
    /\ Answer(p, "bad")
    /\ Counted("faults", MaxFaults)
    /\ UNCHANGED <<head, run, row, streamVars, queueVars>>

(* runsHandleUpstreamError: ErrNotFound of the client and                  *)
(* ErrInvalidWorkflow are the caller's fault, everything else is not.  A   *)
(* Plan that fails at a CreateJob leaves its rows behind, with the last    *)
(* one if only the reply of the INSERT was lost, and Notify is not called. *)
UpstreamError(p) ==
    /\ post[p] \in {"resolve", "fetch", "create", "rows"}
    /\ \/ post[p] # "rows" /\ Answer(p, "bad") /\ UNCHANGED row
       \/ Answer(p, "error") /\ UNCHANGED row
       \/ /\ post[p] = "rows" /\ Answer(p, "error")
          /\ \E j \in left[p] : row' = [row EXCEPT ![j] = "queued"]
    /\ Counted("faults", MaxFaults)
    /\ UNCHANGED <<head, run, streamVars, queueVars>>

(* Plan: CreateRun, then CreateJob for every row. *)
CreateRun(p) ==
    /\ post[p] = "create"
    /\ run' = [run EXCEPT ![p] = [sha |-> sha[p], yaml |-> yaml[p]]]
    /\ left' = [left EXCEPT ![p] = RowsOf[p]]
    /\ Goto(p, "rows")
    /\ UNCHANGED <<head, sha, yaml, row, streamVars, queueVars, count>>

CreateJob(p) ==
    /\ post[p] = "rows"
    /\ \E j \in left[p] :
        /\ row' = [row EXCEPT ![j] = "queued"]
        /\ left' = [left EXCEPT ![p] = @ \ {j}]
        /\ Goto(p, IF left[p] = {j} THEN "notify" ELSE "rows")
    /\ UNCHANGED <<head, sha, yaml, run, streamVars, queueVars, count>>
-----------------------------------------------------------------------------
(* jobQueueNotifier.  A channel is <<r, k>>, made by a wait() for runner r. *)

(* Defect: the list is read but not cleared. *)
TakeKeeping(n) == taken' = [taken EXCEPT ![n] = subs] /\ UNCHANGED subs

(* Defect: one waiter is woken. *)
TakeOne(n) ==
    /\ taken' = [taken EXCEPT ![n] = IF subs = <<>> THEN <<>> ELSE <<Head(subs)>>]
    /\ subs' = <<>>

(* notify(), under the lock. *)
Take(n) == taken' = [taken EXCEPT ![n] = subs] /\ subs' = <<>>

Held == {<<r, ch[r]>> : r \in Runners}

(* notify() closes the channels after it has released the lock.  One that  *)
(* no select holds any more is closed to no effect.                        *)
Close(n) ==
    /\ taken[n] # <<>>
    /\ closed' = closed \cup ({Head(taken[n])} \cap Held)
    /\ taken' = [taken EXCEPT ![n] = Tail(@)]

Notify(p) ==
    /\ post[p] = "notify"
    /\ Take(p)
    /\ Goto(p, "closing")
    /\ UNCHANGED <<head, sha, yaml, left, run, row, streamVars, closed, reaper, count>>

NotifyClose(p) ==
    /\ post[p] = "closing"
    /\ Close(p)
    /\ UNCHANGED <<head, postVars, row, streamVars, subs, reaper, count>>

Created(p) ==
    /\ post[p] = "closing"
    /\ taken[p] = <<>>
    /\ Answer(p, "created")
    /\ UNCHANGED <<head, run, row, streamVars, queueVars, count>>

(* StartJobReaper. *)
RequeueExpired ==
    /\ reaper = "tick"
    /\ \E S \in SUBSET {j \in Rows : row[j] \in {"leased", "sent"}} :
        /\ S # {}
        /\ row' = [j \in Rows |-> IF j \in S THEN "queued" ELSE row[j]]
    /\ Counted("lapses", MaxLapses)
    /\ reaper' = "notify"
    /\ UNCHANGED <<head, postVars, streamVars, subs, taken, closed>>

ReaperNotify ==
    /\ reaper = "notify"
    /\ Take(Reaper)
    /\ reaper' = "closing"
    /\ UNCHANGED <<head, postVars, row, streamVars, closed, count>>

ReaperClose ==
    /\ reaper = "closing"
    /\ \/ Close(Reaper) /\ UNCHANGED reaper
       \/ taken[Reaper] = <<>> /\ reaper' = "tick" /\ UNCHANGED <<taken, closed>>
    /\ UNCHANGED <<head, postVars, row, streamVars, subs, count>>
-----------------------------------------------------------------------------
(* AcquireJob of runner r. *)

(* The runner calls, again after its slots were used or its stream broke.  *)
Connect(r) ==
    /\ stream[r] = "closed"
    /\ stream' = [stream EXCEPT ![r] = "scan"]
    /\ slots' = [slots EXCEPT ![r] = FreeSlots]
    /\ UNCHANGED <<head, postVars, row, job, ch, gone, queueVars, count>>

Disconnect(r) ==
    /\ stream[r] # "closed" /\ r \notin gone
    /\ gone' = gone \cup {r}
    /\ Counted("drops", MaxDrops)
    /\ UNCHANGED <<head, postVars, row, stream, job, slots, ch, queueVars>>

(* acquireOneQueuedJob. *)
Scan(r) ==
    /\ stream[r] = "scan" /\ r \notin gone
    /\ \/ \E j \in Rows :
            /\ row[j] = "queued"
            /\ row' = [row EXCEPT ![j] = "leased"]
            /\ job' = [job EXCEPT ![r] = j]
            /\ stream' = [stream EXCEPT ![r] = "send"]
       \/ /\ \A j \in Rows : row[j] # "queued"
          /\ stream' = [stream EXCEPT ![r] = "wait"]
          /\ UNCHANGED <<row, job>>
    /\ UNCHANGED <<head, postVars, slots, ch, gone, queueVars, count>>

(* The channels that notify() will close. *)
Pending == ToSet(subs) \cup UNION {ToSet(taken[n]) : n \in Notifiers}

(* A name for a new channel: one that nobody can refer to any more. *)
NewChannel(r) ==
    CHOOSE k \in 1 .. Cardinality(Pending) + 1 : <<r, k>> \notin Pending

(* The select evaluates s.queue.wait() and starts the timer. *)
Wait(r) ==
    /\ stream[r] = "wait"
    /\ ch' = [ch EXCEPT ![r] = NewChannel(r)]
    /\ subs' = Append(subs, <<r, NewChannel(r)>>)
    /\ stream' = [stream EXCEPT ![r] = "select"]
    /\ UNCHANGED <<head, postVars, row, job, slots, gone, taken, closed, reaper, count>>

DropChannel(r) ==
    /\ ch' = [ch EXCEPT ![r] = 0]
    /\ closed' = closed \ {<<r, ch[r]>>}

LeaveSelect(r) ==
    /\ stream[r] = "select"
    /\ stream' = [stream EXCEPT ![r] = "scan"]
    /\ DropChannel(r)
    /\ UNCHANGED <<head, postVars, row, job, slots, gone, subs, taken, reaper>>

Woken(r) ==
    /\ LeaveSelect(r)
    /\ <<r, ch[r]>> \in closed
    /\ UNCHANGED count

(* Defect: the timer is made once, before the loop. *)
BackstopOnce(r) == LeaveSelect(r) /\ Counted("polls", 1)

(* time.After(jobPollInterval); the channel stays in subs. *)
Backstop(r) ==
    /\ LeaveSelect(r)
    /\ IF \E j \in Rows : row[j] = "queued"
       THEN UNCHANGED count
       ELSE Counted("polls", MaxPolls)

Return(r) ==
    /\ stream' = [stream EXCEPT ![r] = "closed"]
    /\ gone' = gone \ {r}
    /\ slots' = [slots EXCEPT ![r] = 0]

(* Defect: the slots left are not counted down. *)
SendUncounted(r) ==
    /\ stream[r] = "send" /\ r \notin gone
    /\ row' = [row EXCEPT ![job[r]] = IF @ = "leased" THEN "sent" ELSE @]
    /\ job' = [job EXCEPT ![r] = NoRow]
    /\ slots' = [slots EXCEPT ![r] = @ - 1]
    /\ stream' = [stream EXCEPT ![r] = "scan"]
    /\ UNCHANGED <<head, postVars, gone, ch, queueVars, count>>

(* buildJobLease and Send.  A row requeued meanwhile stays queued. *)
Send(r) ==
    /\ stream[r] = "send" /\ r \notin gone
    /\ row' = [row EXCEPT ![job[r]] = IF @ = "leased" THEN "sent" ELSE @]
    /\ job' = [job EXCEPT ![r] = NoRow]
    /\ \/ slots[r] = 1 /\ Return(r)
       \/ /\ slots[r] > 1
          /\ slots' = [slots EXCEPT ![r] = @ - 1]
          /\ stream' = [stream EXCEPT ![r] = "scan"]
          /\ UNCHANGED gone
    /\ UNCHANGED <<head, postVars, ch, queueVars, count>>

(* The handler returns because ctx is done or a statement fails; a row it  *)
(* has leased stays leased.                                                *)
StreamEnds(r) ==
    /\ \/ stream[r] \in {"scan", "select", "send"} /\ r \in gone /\ UNCHANGED count
       \/ stream[r] \in {"scan", "send"} /\ Counted("faults", MaxFaults)
    /\ Return(r)
    /\ job' = [job EXCEPT ![r] = NoRow]
    /\ DropChannel(r)
    /\ UNCHANGED <<head, postVars, row, subs, taken, reaper>>
-----------------------------------------------------------------------------
StreamStep(r) ==
    Scan(r) \/ Wait(r) \/ Woken(r) \/ Backstop(r) \/ Send(r) \/ StreamEnds(r)

Next ==
    \/ Push \/ RequeueExpired \/ ReaperNotify \/ ReaperClose
    \/ \E p \in Posts :
        \/ Validate(p) \/ ResolveRef(p) \/ FetchWorkflow(p) \/ UpstreamError(p)
        \/ CreateRun(p) \/ CreateJob(p)
        \/ Notify(p) \/ NotifyClose(p) \/ Created(p)
    \/ \E r \in Runners : Connect(r) \/ Disconnect(r) \/ StreamStep(r)

Spec == Init /\ [][Next]_vars

(* A stream that can go on does so, its timer fires, and a runner whose    *)
(* call has ended calls again.  No notify() need ever be called.           *)
FairSpec ==
    /\ Spec
    /\ \A r \in Runners : WF_vars(StreamStep(r)) /\ WF_vars(Connect(r))
-----------------------------------------------------------------------------
TypeOK ==
    /\ head \in 0 .. MaxPushes
    /\ post \in [Posts -> {"new", "resolve", "fetch", "create", "rows",
                           "notify", "closing", "created", "bad", "error"}]
    /\ row \in [Rows -> {"none", "queued", "leased", "sent"}]
    /\ stream \in [Runners -> {"closed", "scan", "wait", "select", "send"}]
    /\ \A r \in Runners :
        /\ IF stream[r] = "closed" THEN slots[r] = 0 ELSE slots[r] \in 1 .. FreeSlots
        /\ (stream[r] = "send") = (job[r] # NoRow)
        /\ (stream[r] = "select") = (ch[r] > 0)
    /\ reaper \in {"tick", "notify", "closing"}

(* No channel is closed a second time, which would panic: a channel is in  *)
(* one list at most, once, and in none after it is closed, though each     *)
(* notify closes its channels after it has released the lock               *)
(* (jobQueueNotifier.notify).                                              *)
ClosedOnce ==
    /\ Pending \cap closed = {}
    /\ IsInjective(subs)
    /\ \A n \in Notifiers :
        /\ IsInjective(taken[n])
        /\ ToSet(taken[n]) \cap ToSet(subs) = {}
        /\ \A m \in Notifiers \ {n} : ToSet(taken[n]) \cap ToSet(taken[m]) = {}

(* A stream that waits is one the next notify wakes, or one that a notify  *)
(* is about to wake or has woken, whatever waits timed out before          *)
(* (jobQueueNotifier.wait and notify).                                     *)
NoWaiterForgotten ==
    \A r \in Runners : stream[r] = "select" => <<r, ch[r]>> \in Pending \cup closed

(* A run is planned from the workflow of the commit it records, even if    *)
(* the branch moves between ResolveRef and FetchWorkflow                   *)
(* (runsCreateHandler).                                                    *)
RunMatchesCommit ==
    \A p \in Posts : run[p] # NoRun => run[p].yaml = run[p].sha

(* 201 means that every row was queued; 400 that nothing was written, so   *)
(* that the request may be corrected and sent again                        *)
(* (runsHandleUpstreamError and the order of steps in Plan).               *)
AnswerIsTrue ==
    \A p \in Posts :
        /\ post[p] = "created" => \A j \in RowsOf[p] : row[j] # "none"
        /\ post[p] = "bad" => run[p] = NoRun /\ \A j \in RowsOf[p] : row[j] = "none"

(* A queued row is leased, though the Notify for it may come between a     *)
(* scan and the wait, or not at all when Plan failed after the insert      *)
(* (the backstop of AcquireJob).                                           *)
QueuedIsServed == \A j \in Rows : row[j] = "queued" ~> row[j] # "queued"
=============================================================================
