------------------------------ MODULE Dispatch ------------------------------
(***************************************************************************)
(* The dispatcher (internal/dispatch) at work on the shared tables: the    *)
(* AcquireJob stream of every runner, concurrent CompleteJob and           *)
(* ReportStatus calls with the needs gating and the run roll-up that       *)
(* CompleteJob drives, the job reaper, heartbeat lease renewal, and the    *)
(* planner inserting the rows of new runs one by one.                      *)
(*                                                                         *)
(* One action per SQL statement: between two statements of a handler any   *)
(* other handler may run, and a handler may fail or the process may die.   *)
(* Decisions a handler takes on rows it read earlier use the values read.  *)
(* Waking a blocked stream early (Notify) is not distinguished from the    *)
(* poll backstop: a stream at "poll" may list the queue at any time.       *)
(***************************************************************************)
EXTENDS Store, FiniteSets

CONSTANTS
    PrePlanned,  \* runs planned before the first runner connects
    Rank,        \* order of the row ids, the order ListQueuedJobs uses
    BatchSize,   \* candidateBatchSize
    Calls,       \* goroutines serving CompleteJob and ReportStatus
    Reports,     \* the results the runners report
    NoJob,       \* no job resolved yet
    MaxFaults,   \* bound: failed statements, dropped streams, lost replies
    MaxLapses,   \* bound: deadlines missed although the runner is alive
    MaxDeaths    \* bound: runners that die

ASSUME DispatchConstants ==
    /\ PrePlanned \subseteq Runs
    /\ Rank \in [Jobs -> Nat]
    /\ BatchSize \in Nat \ {0}
    /\ Reports \subseteq Terminal
    /\ NoJob \notin Jobs
    /\ MaxFaults \in Nat /\ MaxLapses \in Nat /\ MaxDeaths \in Nat

VARIABLES
    plan,        \* progress of planner.Plan for each run
    sPc,         \* AcquireJob stream of each runner: next statement
    sBatch,      \* candidates not looked at yet
    sCache,      \* runJobsCache: the statuses read, or "unread"
    sJob,        \* the candidate being skipped or handed out
    sLease,      \* the lease id drawn for it
    cPc,         \* CompleteJob / ReportStatus call: next statement
    cLease,      \* the lease id in the request
    cJob,        \* the row resolveLeaseJob found
    cTodo,       \* gateRun: rows of this pass still to be skipped
    cSkip,       \* gateRun: the row skipJob is working on
    cProgressed, \* gateRun: progressed
    cRollUp,     \* finalizeRunIfComplete: the runStatus computed
    nextLease,   \* lease ids drawn so far
    leaseJob,    \* history: the row each lease was granted for
    received,    \* the runner that received each lease
    verdict,     \* the result that runner reports for the lease
    answered,    \* leases whose CompleteJob was acknowledged
    alive,       \* the runners still running
    faults, lapses, deaths   \* how much of each bound is used up

streamVars == <<sPc, sBatch, sCache, sJob, sLease>>
callVars == <<cPc, cLease, cJob, cTodo, cSkip, cProgressed, cRollUp>>
runnerVars == <<nextLease, leaseJob, received, verdict, answered, alive>>
budgets == <<faults, lapses, deaths>>
vars == <<tables, plan, streamVars, callVars, runnerVars, budgets>>

Unread == [j \in Jobs |-> "unread"]

Init ==
    /\ status = [j \in Jobs |-> IF RunOf[j] \in PrePlanned THEN "queued"
                                                           ELSE "absent"]
    /\ lease = [j \in Jobs |-> 0]
    /\ holder = [j \in Jobs |-> NoRunner]
    /\ expired = {}
    /\ result = [j \in Jobs |-> NoResult]
    /\ outputs = [j \in Jobs |-> 0]
    /\ runStatus = [u \in Runs |-> IF u \in PrePlanned THEN "queued"
                                                       ELSE "absent"]
    /\ plan = [u \in Runs |-> IF u \in PrePlanned THEN "done" ELSE "new"]
    /\ sPc = [r \in Runners |-> "poll"]
    /\ sBatch = [r \in Runners |-> {}]
    /\ sCache = [r \in Runners |-> Unread]
    /\ sJob = [r \in Runners |-> NoJob]
    /\ sLease = [r \in Runners |-> 0]
    /\ cPc = [c \in Calls |-> "idle"]
    /\ cLease = [c \in Calls |-> 0]
    /\ cJob = [c \in Calls |-> NoJob]
    /\ cTodo = [c \in Calls |-> {}]
    /\ cSkip = [c \in Calls |-> NoJob]
    /\ cProgressed = [c \in Calls |-> FALSE]
    /\ cRollUp = [c \in Calls |-> "queued"]
    /\ nextLease = 0
    /\ leaseJob = [l \in Leases |-> NoJob]
    /\ received = [l \in Leases |-> NoRunner]
    /\ verdict = [l \in Leases |-> NoResult]
    /\ answered = {}
    /\ alive = Runners
    /\ faults = 0 /\ lapses = 0 /\ deaths = 0
-----------------------------------------------------------------------------
(* planner.Plan: the run row, then one row per job, in stage order and     *)
(* without a transaction.                                                  *)

CreateRun(u) ==
    /\ plan[u] = "new"
    /\ plan' = [plan EXCEPT ![u] = "inserting"]
    /\ SetRunStatus(u, "queued")
    /\ UNCHANGED <<jobsTable, outputs, streamVars, callVars, runnerVars, budgets>>

Missing(u) == {j \in Jobs : RunOf[j] = u /\ status[j] = "absent"}

(* Defect: the rows are inserted in the order of a Go map. *)
InsertJobAnyOrder(u) ==
    /\ plan[u] = "inserting"
    /\ \E j \in Missing(u) :
        /\ CreateJob(j)
        /\ plan' = [plan EXCEPT ![u] =
                       IF Missing(u) = {j} THEN "done" ELSE "inserting"]
    /\ UNCHANGED <<outputs, runStatus, streamVars, callVars, runnerVars, budgets>>

InsertJob(u) ==
    /\ plan[u] = "inserting"
    /\ \E j \in Missing(u) :
        /\ \A k \in Missing(u) : Stage[j] <= Stage[k]
        /\ CreateJob(j)
        /\ plan' = [plan EXCEPT ![u] =
                       IF Missing(u) = {j} THEN "done" ELSE "inserting"]
    /\ UNCHANGED <<outputs, runStatus, streamVars, callVars, runnerVars, budgets>>

(* A CreateJob fails: the rows already there stay, ... *)
CreateJobFails(u) ==
    /\ plan[u] = "inserting"
    /\ faults < MaxFaults
    /\ faults' = faults + 1
    /\ plan' = [plan EXCEPT ![u] = "failing"]
    /\ UNCHANGED <<tables, streamVars, callVars, runnerVars, lapses, deaths>>

(* ... and the run is set to "failure", if that statement does not fail    *)
(* too: its error is ignored.                                              *)
PlanFails(u) ==
    /\ plan[u] = "failing"
    /\ plan' = [plan EXCEPT ![u] = "failed"]
    /\ SetRunStatus(u, "failure") \/ UNCHANGED runStatus
    /\ UNCHANGED <<jobsTable, outputs, streamVars, callVars, runnerVars, budgets>>
-----------------------------------------------------------------------------
(* AcquireJob: acquireOneQueuedJob, buildJobLease and Send, for runner r.  *)

Queued == {j \in Jobs : status[j] = "queued"}

(* ListQueuedJobs(candidateBatchSize): ORDER BY id LIMIT BatchSize. *)
Candidates ==
    {j \in Queued :
        Cardinality({k \in Queued : Rank[k] < Rank[j]}) < BatchSize}

(* The loop goes on with the candidates in rest and the cached rows; with  *)
(* none left the stream is back at its select.                             *)
Continue(r, rest, rows) ==
    /\ sBatch' = [sBatch EXCEPT ![r] = rest]
    /\ sCache' = [sCache EXCEPT ![r] = IF rest = {} THEN Unread ELSE rows]
    /\ sPc' = [sPc EXCEPT ![r] = IF rest = {} THEN "poll" ELSE "scan"]

ListQueued(r) ==
    /\ sPc[r] = "poll"
    /\ Continue(r, Candidates, Unread)
    /\ UNCHANGED <<tables, plan, sJob, sLease, callVars, runnerVars, budgets>>

(* The candidate the loop is at. *)
At(r, j) ==
    /\ sPc[r] = "scan"
    /\ j \in sBatch[r]
    /\ \A k \in sBatch[r] : Rank[j] <= Rank[k]

(* jobsByJobIDForRun is called for a candidate with needs only, and reads  *)
(* a run at most once per pass.                                            *)
Decidable(r, j) == Needs[j] = {} \/ sCache[r][j] # "unread"

(* The rows read decide about all candidates of that run; the loop passes  *)
(* over those whose needs have not all finished.                           *)
ReadRun(r) ==
    /\ \E j \in Jobs :
        /\ At(r, j)
        /\ ~Decidable(r, j)
        /\ LET u == RunOf[j]
               rows == [k \in Jobs |-> IF RunOf[k] = u THEN status[k]
                                                       ELSE sCache[r][k]]
               waiting == {k \in sBatch[r] : RunOf[k] = u /\ ~AllTerminal(k, rows)}
           IN  Continue(r, sBatch[r] \ waiting, rows)
    /\ UNCHANGED <<tables, plan, sJob, sLease, callVars, runnerVars, budgets>>

(* skipJob from the defensive check: the transition wins ... *)
SkipCandidate(r) ==
    /\ \E j \in Jobs :
        /\ At(r, j)
        /\ Decidable(r, j)
        /\ SkipByRule(j, sCache[r])
        /\ TransitionApplies(j, "queued", "skipped")
        /\ TransitionStatus(j, "queued", "skipped")
        /\ sBatch' = [sBatch EXCEPT ![r] = @ \ {j}]
        /\ sJob' = [sJob EXCEPT ![r] = j]
    /\ sPc' = [sPc EXCEPT ![r] = "skipResult"]
    /\ UNCHANGED <<outputs, runStatus, plan, sCache, sLease, callVars,
                   runnerVars, budgets>>

SkipCandidateResult(r) ==
    /\ sPc[r] = "skipResult"
    /\ SetResult(sJob[r], "skipped")
    /\ Continue(r, sBatch[r], sCache[r])
    /\ sJob' = [sJob EXCEPT ![r] = NoJob]
    /\ UNCHANGED <<outputs, runStatus, plan, sLease, callVars, runnerVars,
                   budgets>>

(* ... or the row is no longer queued: the next candidate is tried, and    *)
(* the same after a Lease that affected no row.                            *)
CandidateLost(r) ==
    /\ \E j \in Jobs :
        /\ At(r, j)
        /\ Decidable(r, j)
        /\ ~LeaseApplies(j)
        /\ Continue(r, sBatch[r] \ {j}, sCache[r])
    /\ UNCHANGED <<tables, plan, sJob, sLease, callVars, runnerVars, budgets>>

LeaseCandidate(r) ==
    /\ nextLease < MaxLeases
    /\ \E j \in Jobs :
        /\ At(r, j)
        /\ Decidable(r, j)
        /\ Leasable(j, sCache[r])
        /\ LeaseApplies(j)
        /\ Lease(j, nextLease + 1, r)
        /\ leaseJob' = [leaseJob EXCEPT ![nextLease + 1] = j]
        /\ sJob' = [sJob EXCEPT ![r] = j]
    /\ nextLease' = nextLease + 1
    /\ sLease' = [sLease EXCEPT ![r] = nextLease + 1]
    /\ sPc' = [sPc EXCEPT ![r] = "send"]
    /\ sBatch' = [sBatch EXCEPT ![r] = {}]
    /\ sCache' = [sCache EXCEPT ![r] = Unread]
    /\ UNCHANGED <<outputs, runStatus, plan, callVars, received, verdict,
                   answered, alive, budgets>>

(* The stream is back at its select, or gone for good. *)
Rewind(r, pc) ==
    /\ sPc' = [sPc EXCEPT ![r] = pc]
    /\ sBatch' = [sBatch EXCEPT ![r] = {}]
    /\ sCache' = [sCache EXCEPT ![r] = Unread]
    /\ sJob' = [sJob EXCEPT ![r] = NoJob]
    /\ sLease' = [sLease EXCEPT ![r] = 0]

(* buildJobLease only reads; Send hands the lease to the runner. *)
SendLease(r) ==
    /\ sPc[r] = "send"
    /\ r \in alive
    /\ received' = [received EXCEPT ![sLease[r]] = r]
    /\ Rewind(r, "poll")
    /\ UNCHANGED <<tables, plan, callVars, nextLease, leaseJob, verdict,
                   answered, alive, budgets>>

(* A statement or the Send fails; the runner connects again. *)
StreamFails(r) ==
    /\ r \in alive
    /\ sPc[r] \in {"scan", "skipResult", "send"}
    /\ faults < MaxFaults
    /\ faults' = faults + 1
    /\ Rewind(r, "poll")
    /\ UNCHANGED <<tables, plan, callVars, runnerVars, lapses, deaths>>

(* The stream of a dead runner ends at ctx.Done() or at any statement. *)
StreamCloses(r) ==
    /\ r \notin alive
    /\ sPc[r] # "closed"
    /\ Rewind(r, "closed")
    /\ UNCHANGED <<tables, plan, callVars, runnerVars, budgets>>
-----------------------------------------------------------------------------
(* ReportStatus and CompleteJob, served by goroutine c.                    *)

(* resolveLeaseJob and authorizeJobRunner for a request of the runner that *)
(* received lease l: the row to work on. *)
Resolves(l, j) == j \in GetByLease(l) /\ holder[j] = received[l]

(* A live runner is still busy with lease l. *)
Working(l) ==
    /\ received[l] \in alive
    /\ l \notin answered

Enter(c, l, j, pc) ==
    /\ cPc[c] = "idle"
    /\ Resolves(l, j)
    /\ cPc' = [cPc EXCEPT ![c] = pc]
    /\ cLease' = [cLease EXCEPT ![c] = l]
    /\ cJob' = [cJob EXCEPT ![c] = j]
    /\ UNCHANGED <<cTodo, cSkip, cProgressed, cRollUp>>

Leave(c) ==
    /\ cPc' = [cPc EXCEPT ![c] = "idle"]
    /\ cLease' = [cLease EXCEPT ![c] = 0]
    /\ cJob' = [cJob EXCEPT ![c] = NoJob]
    /\ cTodo' = [cTodo EXCEPT ![c] = {}]
    /\ cSkip' = [cSkip EXCEPT ![c] = NoJob]
    /\ cProgressed' = [cProgressed EXCEPT ![c] = FALSE]
    /\ cRollUp' = [cRollUp EXCEPT ![c] = "queued"]

(* The call moves on to its next statement. *)
Goto(c, from, to) ==
    /\ cPc[c] = from
    /\ cPc' = [cPc EXCEPT ![c] = to]
    /\ UNCHANGED <<cLease, cJob>>

(* A RUNNING report.  One that resolves a row past "leased" can change     *)
(* nothing any more, rows never go back from there, and is left out.       *)
ReportRunning(c) ==
    /\ \E l \in Leases, j \in Jobs :
        /\ Working(l)
        /\ status[j] = "leased"
        /\ Enter(c, l, j, "report")
    /\ UNCHANGED <<tables, plan, streamVars, runnerVars, budgets>>

(* The first RUNNING report, job- or step-level, starts the job. *)
ReportTransition(c) ==
    /\ cPc[c] = "report"
    /\ TransitionStatus(cJob[c], "leased", "running")
    /\ Leave(c)
    /\ UNCHANGED <<outputs, runStatus, plan, streamVars, runnerVars, budgets>>

(* The runner reports the outcome of lease l, the same one if it repeats   *)
(* the call.                                                               *)
CompleteJob(c, l) ==
    /\ Working(l)
    /\ \E j \in Jobs : Enter(c, l, j, "setResult")
    /\ \E res \in Reports :
        /\ verdict[l] \in {NoResult, res}
        /\ verdict' = [verdict EXCEPT ![l] = res]
    /\ UNCHANGED <<tables, plan, streamVars, nextLease, leaseJob, received,
                   answered, alive, budgets>>

(* No row holds the lease any more: acknowledged and dropped. *)
CompleteStale(l) ==
    /\ Working(l)
    /\ GetByLease(l) = {}
    /\ answered' = answered \cup {l}
    /\ UNCHANGED <<tables, plan, streamVars, callVars, nextLease, leaseJob,
                   received, verdict, alive, budgets>>

(* Defects: the phase is stored as it came; only a success is stored. *)
CompleteSetPhase(c) ==
    /\ Goto(c, "setResult", "toRunning")
    /\ SetResult(cJob[c], "PHASE_SUCCESS")
    /\ UNCHANGED <<outputs, runStatus, plan, streamVars, cTodo, cSkip, cProgressed,
                   cRollUp, runnerVars, budgets>>

CompleteSetSuccess(c) ==
    /\ Goto(c, "setResult", "toRunning")
    /\ IF verdict[cLease[c]] = "success" THEN SetResult(cJob[c], "success")
                                         ELSE UNCHANGED jobsTable
    /\ UNCHANGED <<outputs, runStatus, plan, streamVars, cTodo, cSkip, cProgressed,
                   cRollUp, runnerVars, budgets>>

CompleteSetResult(c) ==
    /\ Goto(c, "setResult", "toRunning")
    /\ SetResult(cJob[c], verdict[cLease[c]])
    /\ UNCHANGED <<outputs, runStatus, plan, streamVars, cTodo, cSkip, cProgressed,
                   cRollUp, runnerVars, budgets>>

CompleteToRunning(c) ==
    /\ Goto(c, "toRunning", "toTerminal")
    /\ TransitionStatus(cJob[c], "leased", "running")
    /\ UNCHANGED <<outputs, runStatus, plan, streamVars, cTodo, cSkip, cProgressed,
                   cRollUp, runnerVars, budgets>>

(* Defect: a reported failure finishes the job as cancelled. *)
CompleteToCancelled(c) ==
    /\ Goto(c, "toTerminal", "outputs")
    /\ TransitionStatus(cJob[c], "running",
           IF verdict[cLease[c]] = "failure" THEN "cancelled"
                                             ELSE verdict[cLease[c]])
    /\ UNCHANGED <<outputs, runStatus, plan, streamVars, cTodo, cSkip, cProgressed,
                   cRollUp, runnerVars, budgets>>

CompleteToTerminal(c) ==
    /\ Goto(c, "toTerminal", "outputs")
    /\ TransitionStatus(cJob[c], "running", verdict[cLease[c]])
    /\ UNCHANGED <<outputs, runStatus, plan, streamVars, cTodo, cSkip, cProgressed,
                   cRollUp, runnerVars, budgets>>

CompleteOutputs(c) ==
    /\ Goto(c, "outputs", "gateList")
    /\ UpsertOutputs(cJob[c], cLease[c])
    /\ UNCHANGED <<jobsTable, runStatus, plan, streamVars, cTodo, cSkip, cProgressed,
                   cRollUp, runnerVars, budgets>>
-----------------------------------------------------------------------------
(* gateRun: passes over the rows of the run until one skips nothing, then  *)
(* finalizeRunIfComplete.                                                  *)

RunOfCall(c) == RunOf[cJob[c]]

(* Where the loop goes once the rows of a pass are exhausted. *)
PassDone(todo, progressed) ==
    IF todo # {} THEN "gateSkip"
    ELSE IF progressed THEN "gateList" ELSE "finalize"

(* Defect: rows that ask to run in any case are skipped like the others. *)
GateListNoOverride(c) ==
    LET todo == {j \in Jobs : /\ RunOf[j] = RunOfCall(c)
                              /\ status[j] = "queued"
                              /\ Needs[j] # {}
                              /\ AllTerminal(j, status)
                              /\ AnyBlocking(j, status)}
    IN  /\ Goto(c, "gateList", PassDone(todo, FALSE))
        /\ cTodo' = [cTodo EXCEPT ![c] = todo]
        /\ cProgressed' = [cProgressed EXCEPT ![c] = FALSE]
        /\ UNCHANGED <<tables, plan, streamVars, cSkip, cRollUp, runnerVars,
                       budgets>>

GateList(c) ==
    LET todo == {j \in Jobs : /\ RunOf[j] = RunOfCall(c)
                              /\ status[j] = "queued"
                              /\ SkipByRule(j, status)}
    IN  /\ Goto(c, "gateList", PassDone(todo, FALSE))
        /\ cTodo' = [cTodo EXCEPT ![c] = todo]
        /\ cProgressed' = [cProgressed EXCEPT ![c] = FALSE]
        /\ UNCHANGED <<tables, plan, streamVars, cSkip, cRollUp, runnerVars,
                       budgets>>

(* skipJob's transition wins ... *)
GateSkip(c) ==
    /\ Goto(c, "gateSkip", "gateResult")
    /\ \E j \in cTodo[c] :
        /\ TransitionApplies(j, "queued", "skipped")
        /\ TransitionStatus(j, "queued", "skipped")
        /\ cTodo' = [cTodo EXCEPT ![c] = @ \ {j}]
        /\ cSkip' = [cSkip EXCEPT ![c] = j]
    /\ cProgressed' = [cProgressed EXCEPT ![c] = TRUE]
    /\ UNCHANGED <<outputs, runStatus, plan, streamVars, cRollUp, runnerVars,
                   budgets>>

(* Defect: the lost race is an error that ends the gating. *)
GateSkipLostIsError(c) ==
    /\ \E j \in cTodo[c] : ~TransitionApplies(j, "queued", "skipped")
    /\ Goto(c, "gateSkip", "reply")
    /\ UNCHANGED <<tables, plan, streamVars, cTodo, cSkip, cProgressed, cRollUp,
                   runnerVars, budgets>>

(* ... or loses the race, which does not count as progress. *)
GateSkipLost(c) ==
    /\ \E j \in cTodo[c] :
        /\ ~TransitionApplies(j, "queued", "skipped")
        /\ cTodo' = [cTodo EXCEPT ![c] = @ \ {j}]
        /\ Goto(c, "gateSkip", PassDone(cTodo[c] \ {j}, cProgressed[c]))
    /\ UNCHANGED <<tables, plan, streamVars, cSkip, cProgressed, cRollUp,
                   runnerVars, budgets>>

GateSkipResult(c) ==
    /\ Goto(c, "gateResult", PassDone(cTodo[c], cProgressed[c]))
    /\ SetResult(cSkip[c], "skipped")
    /\ cSkip' = [cSkip EXCEPT ![c] = NoJob]
    /\ UNCHANGED <<outputs, runStatus, plan, streamVars, cTodo, cProgressed,
                   cRollUp, runnerVars, budgets>>

(* Defect: rows still queued do not hold the roll-up back. *)
FinalizeListNoneActive(c) ==
    /\ cPc[c] = "finalize"
    /\ IF \A j \in RowsOf(RunOfCall(c), status) :
              status[j] \notin {"leased", "running"}
       THEN /\ Goto(c, "finalize", "setRun")
            /\ cRollUp' = [cRollUp EXCEPT ![c] = RollUp(RunOfCall(c), status)]
       ELSE Goto(c, "finalize", "reply") /\ UNCHANGED cRollUp
    /\ UNCHANGED <<tables, plan, streamVars, cTodo, cSkip, cProgressed,
                   runnerVars, budgets>>

FinalizeList(c) ==
    /\ cPc[c] = "finalize"
    /\ IF RunComplete(RunOfCall(c), status)
       THEN /\ Goto(c, "finalize", "setRun")
            /\ cRollUp' = [cRollUp EXCEPT ![c] = RollUp(RunOfCall(c), status)]
       ELSE Goto(c, "finalize", "reply") /\ UNCHANGED cRollUp
    /\ UNCHANGED <<tables, plan, streamVars, cTodo, cSkip, cProgressed,
                   runnerVars, budgets>>

FinalizeSet(c) ==
    /\ Goto(c, "setRun", "reply")
    /\ SetRunStatus(RunOfCall(c), cRollUp[c])
    /\ UNCHANGED <<jobsTable, outputs, plan, streamVars, cTodo, cSkip,
                   cProgressed, cRollUp, runnerVars, budgets>>

Reply(c) ==
    /\ cPc[c] = "reply"
    /\ Leave(c)
    /\ answered' = answered \cup {cLease[c]}
    /\ UNCHANGED <<tables, plan, streamVars, nextLease, leaseJob, received,
                   verdict, alive, budgets>>

(* A failed statement inside gateRun is logged; the call still succeeds. *)
GateFails(c) ==
    /\ faults < MaxFaults
    /\ faults' = faults + 1
    /\ \E pc \in {"gateList", "gateSkip", "gateResult", "finalize", "setRun"} :
        Goto(c, pc, "reply")
    /\ UNCHANGED <<tables, plan, streamVars, cTodo, cSkip, cProgressed, cRollUp,
                   runnerVars, lapses, deaths>>

(* Any other failed statement, a process crash, or a lost reply: the       *)
(* runner gets no acknowledgement and may call again.                      *)
CallFails(c) ==
    /\ cPc[c] # "idle"
    /\ faults < MaxFaults
    /\ faults' = faults + 1
    /\ Leave(c)
    /\ UNCHANGED <<tables, plan, streamVars, runnerVars, lapses, deaths>>
-----------------------------------------------------------------------------
(* Leases in time. *)

(* Nobody renews row j's lease: its runner is dead, or never received it   *)
(* and no longer can.                                                      *)
Unattended(j) ==
    /\ lease[j] # 0
    /\ \/ holder[j] \notin alive
       \/ /\ received[lease[j]] = NoRunner
          /\ sLease[holder[j]] # lease[j]

(* lease_deadline passes. *)
LeaseLapses(j) ==
    /\ lease[j] # 0
    /\ j \notin expired
    /\ expired' = expired \cup {j}
    /\ IF Unattended(j)
       THEN UNCHANGED lapses
       ELSE lapses < MaxLapses /\ lapses' = lapses + 1
    /\ UNCHANGED <<status, lease, holder, result, outputs, runStatus, plan,
                   streamVars, callVars, runnerVars, faults, deaths>>

(* Heartbeat, renewActiveLeases: the runner names a lease it works on. *)
HeartbeatRenew(l) ==
    /\ Working(l)
    /\ \E j \in Jobs : Resolves(l, j) /\ j \in expired
    /\ RenewLease(l)
    /\ UNCHANGED <<outputs, runStatus, plan, streamVars, callVars, runnerVars,
                   budgets>>

(* StartJobReaper, one tick that finds something. *)
ReapJobs ==
    /\ ExpiredRows # {}
    /\ RequeueExpired
    /\ UNCHANGED <<outputs, runStatus, plan, streamVars, callVars, runnerVars,
                   budgets>>

RunnerDies(r) ==
    /\ r \in alive
    /\ deaths < MaxDeaths
    /\ deaths' = deaths + 1
    /\ alive' = alive \ {r}
    /\ UNCHANGED <<tables, plan, streamVars, callVars, nextLease, leaseJob,
                   received, verdict, answered, faults, lapses>>
-----------------------------------------------------------------------------
PlanStep(u) == CreateRun(u) \/ InsertJob(u) \/ PlanFails(u)

StreamStep(r) ==
    \/ ListQueued(r) \/ ReadRun(r) \/ CandidateLost(r)
    \/ SkipCandidate(r) \/ SkipCandidateResult(r) \/ LeaseCandidate(r)
    \/ SendLease(r) \/ StreamCloses(r)

CallStep(c) ==
    \/ ReportTransition(c)
    \/ CompleteSetResult(c) \/ CompleteToRunning(c) \/ CompleteToTerminal(c)
    \/ CompleteOutputs(c)
    \/ GateList(c) \/ GateSkip(c) \/ GateSkipLost(c) \/ GateSkipResult(c)
    \/ FinalizeList(c) \/ FinalizeSet(c) \/ Reply(c)

Next ==
    \/ \E u \in Runs : PlanStep(u) \/ CreateJobFails(u)
    \/ \E r \in Runners : StreamStep(r) \/ StreamFails(r) \/ RunnerDies(r)
    \/ \E c \in Calls : CallStep(c) \/ ReportRunning(c) \/ GateFails(c)
                        \/ CallFails(c)
    \/ \E l \in Leases : CompleteStale(l) \/ HeartbeatRenew(l)
                         \/ \E c \in Calls : CompleteJob(c, l)
    \/ \E j \in Jobs : LeaseLapses(j)
    \/ ReapJobs

Spec == Init /\ [][Next]_vars

(* Goroutines are scheduled and their statements return; the planner and   *)
(* the reaper tick; a live runner finishes the lease it works on and keeps *)
(* calling until it is answered; an unattended deadline passes.            *)
Fairness ==
    /\ \A u \in Runs : WF_vars(PlanStep(u))
    /\ \A r \in Runners : WF_vars(StreamStep(r))
    /\ \A c \in Calls : WF_vars(CallStep(c))
    /\ \A l \in Leases : WF_vars(CompleteStale(l) \/ \E c \in Calls : CompleteJob(c, l))
    /\ \A j \in Jobs : WF_vars(Unattended(j) /\ LeaseLapses(j))
    /\ WF_vars(ReapJobs)

FairSpec == Spec /\ Fairness
-----------------------------------------------------------------------------
(* Properties.                                                             *)

StreamPcs == {"poll", "scan", "skipResult", "send", "closed"}
CallPcs == {"idle", "report", "setResult", "toRunning", "toTerminal",
            "outputs", "gateList", "gateSkip", "gateResult", "finalize",
            "setRun", "reply"}

StreamTypeOK ==
    /\ sPc \in [Runners -> StreamPcs]
    /\ sBatch \in [Runners -> SUBSET Jobs]
    /\ sCache \in [Runners -> [Jobs -> Statuses \cup {"unread"}]]
    /\ sJob \in [Runners -> Jobs \cup {NoJob}]
    /\ sLease \in [Runners -> 0..MaxLeases]

CallTypeOK ==
    /\ cPc \in [Calls -> CallPcs]
    /\ cLease \in [Calls -> 0..MaxLeases]
    /\ cJob \in [Calls -> Jobs \cup {NoJob}]
    /\ cTodo \in [Calls -> SUBSET Jobs]
    /\ cSkip \in [Calls -> Jobs \cup {NoJob}]
    /\ cProgressed \in [Calls -> BOOLEAN]
    /\ cRollUp \in [Calls -> RunTerminal \cup {"queued"}]

RunnerTypeOK ==
    /\ nextLease \in 0..MaxLeases
    /\ leaseJob \in [Leases -> Jobs \cup {NoJob}]
    /\ received \in [Leases -> Runners \cup {NoRunner}]
    /\ verdict \in [Leases -> Terminal \cup {NoResult}]
    /\ answered \subseteq Leases
    /\ alive \subseteq Runners

(* Every column and every local variable of a handler has its type. *)
TypeOK ==
    /\ StoreTypeOK
    /\ plan \in [Runs -> {"new", "inserting", "failing", "done", "failed"}]
    /\ StreamTypeOK
    /\ CallTypeOK
    /\ RunnerTypeOK
    /\ faults \in 0..MaxFaults
    /\ lapses \in 0..MaxLapses
    /\ deaths \in 0..MaxDeaths

(* The tables as the lifecycle sees them: the status column alone. *)
Lifecycle == INSTANCE JobLifecycle
                 WITH status <- status, PrePlanned <- PrePlanned

(* Handlers that decide on stale snapshots and race each other through     *)
(* conditional UPDATEs (queue.go, gateRun: "No advisory lock is needed     *)
(* beyond this existing single-conditional-UPDATE pattern") move every row *)
(* exactly as an atomic, lock-holding dispatcher could have.               *)
ImplementsLifecycle == Lifecycle!Spec

(* A row that was ever handed out or skipped has every row it needs        *)
(* finished, all matrix cells included, although the decision was taken on *)
(* a snapshot (queue.go, acquireOneQueuedJob: "a job is NEVER leased with  *)
(* unsatisfied needs").                                                    *)
NeedsSafe == Lifecycle!NeedsSafe

(* A row without an if: override and with a need that did not succeed      *)
(* never reaches a runner, whoever wins the race for it                    *)
(* (queue.go, needsSatisfied and hasDefaultIfExpr).  Comments elsewhere    *)
(* say that a row without an if: always runs: see README, section 6.       *)
BlockedNeverRuns == Lifecycle!BlockedNeverRuns

(* A finished row is never reopened nor given another outcome, neither by  *)
(* a late or repeated call nor by the reaper (job_store.go).               *)
TerminalIsFinal ==
    [][\A j \in Jobs : status[j] \in Terminal => status'[j] = status[j]]_status

(* A finished row that was ever handed out carries an outcome some runner  *)
(* reported for a lease on that very row; a row never handed out can only  *)
(* have been skipped by rule (CompleteJob, skipJob).                       *)
OutcomeWasReported ==
    \A j \in Jobs : status[j] \in Terminal =>
        IF \E l \in Leases : leaseJob[l] = j
        THEN \E l \in Leases : leaseJob[l] = j /\ verdict[l] = status[j]
        ELSE status[j] = "skipped"

(* The roll-up of a run whose rows were all there when dispatch started is *)
(* written only after its last row finished, and is the right one, however *)
(* many CompleteJob calls gate and finalize the run at the same time       *)
(* (finalizeRunIfComplete).                                                *)
RollUpSound ==
    \A u \in PrePlanned : runStatus[u] \in RunTerminal =>
        /\ RunComplete(u, status)
        /\ runStatus[u] = RollUp(u, status)

(* A row a runner finished has its result stored by the time it is         *)
(* terminal, so buildNeedsOutputs never omits it from a dependent's lease. *)
ReportedResultStored ==
    \A j \in Jobs : status[j] \in Terminal /\ lease[j] # 0
                        => result[j] # NoResult

(* A lease that no runner works on is given back or used: no row stays     *)
(* leased for ever (StartJobReaper).                                       *)
LeasedSettles ==
    \A j \in Jobs : status[j] = "leased" ~> status[j] # "leased"

(* No job is more than one step of needs away from a job without needs. *)
OneLevel == \A j \in Jobs : \A n \in NeedRows(j) : Needs[n] = {}

(* A run whose rows were all there when dispatch started is eventually     *)
(* rolled up, if its jobs form at most one level of dependents, all rows   *)
(* fit in one candidate batch, no statement failed and no runner died      *)
(* (gateRun, finalizeRunIfComplete).  Each of these restrictions is        *)
(* needed: see README, section 6.                                          *)
RunFinishes ==
    OneLevel /\ Cardinality(Jobs) <= BatchSize =>
        \A u \in PrePlanned :
            plan[u] = "done" ~> runStatus[u] \in RunTerminal \/ faults + deaths > 0
-----------------------------------------------------------------------------
(* What comments of the code say and the code does not keep (see README).  *)

(* queue.go, StartJobReaper: "a late report/heartbeat/log under the old    *)
(* lease_id is already treated as stale everywhere else in this service":  *)
(* the outcome of a finished row is the one reported under the lease the   *)
(* row holds.                                                              *)
OutcomeIsCurrent ==
    \A j \in Jobs : status[j] \in Terminal /\ lease[j] # 0
                        => verdict[lease[j]] = status[j]

(* queue.go, AcquireJob: "StartJobReaper is what returns it to queued if   *)
(* the runner never shows up again", for a row that has started.           *)
RunningSettles ==
    \A j \in Jobs : status[j] = "running" ~> status[j] # "running"
=============================================================================
