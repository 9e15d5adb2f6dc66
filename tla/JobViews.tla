------------------------------ MODULE JobViews ------------------------------
(***************************************************************************)
(* What is read back from the tables: the run page and the job page of the *)
(* REST API (api/runs.go), and the needs_outputs that AcquireJob puts in a *)
(* dependent's lease (queue.go).  Each of them takes several SELECTs, and  *)
(* the step reports, completions and skips it reads from take several      *)
(* statements too, so a reader meets every half-done write.                *)
(*                                                                         *)
(* Who may be leased or skipped is decided on the current statuses here:   *)
(* module Dispatch shows that stale decisions move the rows in the same    *)
(* way.  A run is planned as in Dispatch: its rows appear one by one, and  *)
(* inserting them may fail half way.  A step's timestamps are named by the *)
(* lease whose runner reported them, 0 is NULL.                            *)
(***************************************************************************)
EXTENDS Store, SequencesExt

CONSTANTS
    PrePlanned, \* runs planned before the first runner connects
    StepsOf,    \* how many steps the job of each row has
    Rank,       \* order of the row ids
    Calls,      \* goroutines serving ReportStatus and CompleteJob
    Reports,    \* the results the runners report
    NoJob,      \* no row
    MaxTime,    \* bound: distinct finished_at times
    MaxTroubles \* bound: failing inserts, reports given up on, leases that lapse

ASSUME ViewConstants ==
    /\ IsFiniteSet(Jobs)
    /\ PrePlanned \subseteq Runs
    /\ StepsOf \in [Jobs -> Nat]
    /\ Rank \in [Jobs -> Nat]
    /\ \A i, j \in Jobs : Rank[i] = Rank[j] => i = j
    /\ Reports \subseteq Terminal
    /\ NoJob \notin Jobs
    /\ MaxTime \in Nat \ {0} /\ MaxTroubles \in Nat

VARIABLES
    plan,       \* progress of planner.Plan for each run
    finishedAt, \* jobs.finished_at
    steps,      \* steps rows: status, started_at and finished_at
    clock,      \* time.Now()
    nextLease,  \* lease ids drawn so far
    leaseJob,   \* history: the row of each lease
    verdict,    \* the outcome of the job under each lease
    work,       \* calls the runner of each lease is done with; Unsent before Send
    cPc, cLease, cJob, cStep, cRead, cAt, cSkip, cRollUp, cGone,
                      \* ReportStatus and CompleteJob
    sPc, sJob, told,                              \* the AcquireJob stream
    pPc, pOf, pStatus, pRows, pSteps,             \* the page being put together
    troubles,         \* how much of that bound is used up
    untidy,           \* history: rows whose runner gave up on a report
    overlapped,       \* history: rows with overlapping step reports
    early             \* history: runs whose status was set before its time

wideRows == <<finishedAt, steps, clock>>
leases == <<nextLease, leaseJob, verdict, work>>
callVars == <<cPc, cLease, cJob, cStep, cRead, cAt, cSkip, cRollUp, cGone>>
streamVars == <<sPc, sJob, told>>
pageVars == <<pPc, pOf, pStatus, pRows, pSteps>>
history == <<troubles, untidy, overlapped, early>>
vars == <<tables, plan, wideRows, leases, callVars, streamVars, pageVars, history>>

StepIds(j) == 1..StepsOf[j]
NoStep == [status |-> "absent", started |-> 0, finished |-> 0]
NoRows == [j \in Jobs |-> "unread"]
Unsent == -1
NotTold == [y \in JobIds |-> NoResult]

Init ==
    /\ status = [j \in Jobs |-> IF RunOf[j] \in PrePlanned THEN "queued"
                                                           ELSE "absent"]
    /\ lease = [j \in Jobs |-> 0]
    /\ holder = [j \in Jobs |-> NoRunner]
    /\ expired = {}
    /\ result = [j \in Jobs |-> NoResult]
    /\ outputs = [j \in Jobs |-> 0]
    /\ runStatus = [u \in Runs |-> IF u \in PrePlanned THEN "queued"
                                                       ELSE "absent"]
    /\ plan = [u \in Runs |-> IF u \in PrePlanned THEN "done" ELSE "new"]
    /\ finishedAt = [j \in Jobs |-> 0]
    /\ steps = [j \in Jobs |-> [i \in StepIds(j) |-> NoStep]]
    /\ clock = 1
    /\ nextLease = 0
    /\ leaseJob = [l \in Leases |-> NoJob]
    /\ verdict = [l \in Leases |-> NoResult]
    /\ work = [l \in Leases |-> Unsent]
    /\ cPc = [c \in Calls |-> "idle"]
    /\ cLease = [c \in Calls |-> 0]
    /\ cJob = [c \in Calls |-> NoJob]
    /\ cStep = [c \in Calls |-> 0]
    /\ cRead = [c \in Calls |-> NoStep]
    /\ cAt = [c \in Calls |-> 0]
    /\ cSkip = [c \in Calls |-> NoJob]
    /\ cRollUp = [c \in Calls |-> "queued"]
    /\ cGone = [c \in Calls |-> FALSE]
    /\ sPc = "idle" /\ sJob = NoJob /\ told = NotTold
    /\ pPc = "idle" /\ pOf = NoJob /\ pStatus = "unread" /\ pRows = NoRows
    /\ pSteps = <<>>
    /\ troubles = 0 /\ untidy = {} /\ overlapped = {} /\ early = {}
-----------------------------------------------------------------------------
(* planner.Plan, as in Dispatch. *)

Missing(u) == {j \in Jobs : RunOf[j] = u /\ status[j] = "absent"}

CreateRun(u) ==
    /\ plan[u] = "new"
    /\ plan' = [plan EXCEPT ![u] = "inserting"]
    /\ SetRunStatus(u, "queued")
    /\ UNCHANGED <<jobsTable, outputs, wideRows, leases, callVars, streamVars,
                   pageVars, history>>

InsertJob(u) ==
    /\ plan[u] = "inserting"
    /\ \E j \in Missing(u) :
        /\ \A k \in Missing(u) : Stage[j] <= Stage[k]
        /\ CreateJob(j)
        /\ plan' = [plan EXCEPT ![u] =
                       IF Missing(u) = {j} THEN "done" ELSE "inserting"]
    /\ UNCHANGED <<outputs, runStatus, wideRows, leases, callVars, streamVars,
                   pageVars, history>>

CreateJobFails(u) ==
    /\ plan[u] = "inserting"
    /\ troubles < MaxTroubles
    /\ troubles' = troubles + 1
    /\ plan' = [plan EXCEPT ![u] = "failing"]
    /\ UNCHANGED <<tables, wideRows, leases, callVars, streamVars, pageVars,
                   untidy, overlapped, early>>

(* The run is set to "failure", its rows stay what they are; or this       *)
(* statement fails too.                                                    *)
PlanFails(u) ==
    /\ plan[u] = "failing"
    /\ plan' = [plan EXCEPT ![u] = "failed"]
    /\ \/ SetRunStatus(u, "failure") /\ early' = early \cup {u}
       \/ UNCHANGED <<runStatus, early>>
    /\ UNCHANGED <<jobsTable, outputs, wideRows, leases, callVars, streamVars,
                   pageVars, troubles, untidy, overlapped>>
-----------------------------------------------------------------------------
(* The runner: step 1 starts, step 1 ends, step 2 starts, and so on, then  *)
(* CompleteJob.  It waits for each answer, unless it gives up.             *)

LastCall(l) == 2 * StepsOf[leaseJob[l]]

(* The runner knows how the job ended, once and for all. *)
Decide(l) == \E res \in Reports : /\ verdict[l] \in {NoResult, res}
                                  /\ verdict' = [verdict EXCEPT ![l] = res]

Busy(l) == \E c \in Calls : cPc[c] # "idle" /\ cLease[c] = l /\ ~cGone[c]

Enter(c, l, pc) ==
    /\ cPc[c] = "idle"
    /\ ~Busy(l)
    /\ cPc' = [cPc EXCEPT ![c] = pc]
    /\ cLease' = [cLease EXCEPT ![c] = l]
    /\ cJob' = [cJob EXCEPT ![c] = leaseJob[l]]
    /\ cStep' = [cStep EXCEPT ![c] = work[l]]

Goto(c, from, to) ==
    /\ cPc[c] = from
    /\ cPc' = [cPc EXCEPT ![c] = to]
    /\ UNCHANGED <<cLease, cJob, cStep, cGone>>

Leave(c) ==
    /\ cPc' = [cPc EXCEPT ![c] = "idle"]
    /\ cLease' = [cLease EXCEPT ![c] = 0]
    /\ cJob' = [cJob EXCEPT ![c] = NoJob]
    /\ cStep' = [cStep EXCEPT ![c] = 0]
    /\ cRead' = [cRead EXCEPT ![c] = NoStep]
    /\ cAt' = [cAt EXCEPT ![c] = 0]
    /\ cSkip' = [cSkip EXCEPT ![c] = NoJob]
    /\ cRollUp' = [cRollUp EXCEPT ![c] = "queued"]
    /\ cGone' = [cGone EXCEPT ![c] = FALSE]

(* The answer; the runner, if it still waits for it, goes on. *)
Answer(c) ==
    /\ Leave(c)
    /\ work' = IF cGone[c] THEN work ELSE [work EXCEPT ![cLease[c]] = @ + 1]
    /\ UNCHANGED <<nextLease, leaseJob, verdict>>

(* The runner's deadline for a step report passes.  It tries again or goes *)
(* on, and the handler may still be at work.  Repeated completions are the *)
(* business of module Dispatch.                                            *)
GiveUp(c) ==
    /\ cPc[c] \in {"listSteps", "upsertStep", "startJob"} /\ ~cGone[c]
    /\ troubles < MaxTroubles
    /\ troubles' = troubles + 1
    /\ cGone' = [cGone EXCEPT ![c] = TRUE]
    /\ \E goesOn \in {0, 1} : work' = [work EXCEPT ![cLease[c]] = @ + goesOn]
    /\ untidy' = untidy \cup {cJob[c]}
    /\ UNCHANGED <<tables, plan, wideRows, nextLease, leaseJob, verdict, cPc, cLease,
                   cJob, cStep, cRead, cAt, cSkip, cRollUp, streamVars, pageVars,
                   overlapped, early>>

(* The context of a call given up on is cancelled: the next statement      *)
(* fails.                                                                  *)
Cancelled(c) ==
    /\ cGone[c]
    /\ Leave(c)
    /\ UNCHANGED <<tables, plan, wideRows, leases, streamVars, pageVars, history>>

(* A call whose lease no row holds any more is answered and dropped. *)
Stale(l) ==
    /\ work[l] # Unsent /\ work[l] <= LastCall(l)
    /\ ~Busy(l)
    /\ GetByLease(l) = {}
    /\ work' = [work EXCEPT ![l] = LastCall(l) + 1]
    /\ UNCHANGED <<tables, plan, wideRows, nextLease, leaseJob, verdict, callVars,
                   streamVars, pageVars, history>>
-----------------------------------------------------------------------------
(* ReportStatus for a step: read the step rows of the job, carry the       *)
(* timestamps forward, upsert the whole row, start the job.                *)

ReportStep(c, l) ==
    /\ work[l] # Unsent /\ work[l] < LastCall(l)
    /\ GetByLease(l) # {}
    /\ Enter(c, l, "listSteps")
    /\ IF work[l] % 2 = 0 THEN UNCHANGED verdict ELSE Decide(l)
    /\ UNCHANGED <<tables, plan, wideRows, nextLease, leaseJob, work, cRead, cAt,
                   cSkip, cRollUp, cGone, streamVars, pageVars, history>>

StepOfCall(c) == cStep[c] \div 2 + 1
PhaseOfCall(c) == IF cStep[c] % 2 = 0 THEN "running" ELSE verdict[cLease[c]]

(* Two reports are between their SELECT and their upsert at once. *)
Overlaps(c) == \E d \in Calls : cPc[d] = "upsertStep" /\ cJob[d] = cJob[c]

ListStepsForJob(c) ==
    /\ Goto(c, "listSteps", "upsertStep")
    /\ cRead' = [cRead EXCEPT ![c] = steps[cJob[c]][StepOfCall(c)]]
    /\ overlapped' = IF Overlaps(c) THEN overlapped \cup {cJob[c]} ELSE overlapped
    /\ UNCHANGED <<tables, plan, wideRows, leases, cAt, cSkip, cRollUp, streamVars,
                   pageVars, troubles, untidy, early>>

(* Defects: the phase is stored as it came; the timestamps are not carried *)
(* forward.                                                                *)
StepRowPhase(c) ==
    [status |-> "PHASE_RUNNING", started |-> cLease[c], finished |-> 0]

StepRowFresh(c) ==
    LET phase == PhaseOfCall(c)
    IN  [status   |-> phase,
         started  |-> IF phase = "running" THEN cLease[c] ELSE 0,
         finished |-> IF phase \in Terminal THEN cLease[c] ELSE 0]

StepRow(c) ==
    LET phase == PhaseOfCall(c)
        old == cRead[c]
    IN  [status   |-> phase,
         started  |-> IF phase = "running" /\ old.started = 0 THEN cLease[c]
                                                              ELSE old.started,
         finished |-> IF phase \in Terminal THEN cLease[c] ELSE old.finished]

(* Only a running step has a third statement. *)
UpsertStep(c) ==
    /\ cPc[c] = "upsertStep"
    /\ steps' = [steps EXCEPT ![cJob[c]][StepOfCall(c)] = StepRow(c)]
    /\ IF PhaseOfCall(c) = "running"
       THEN /\ Goto(c, "upsertStep", "startJob")
            /\ UNCHANGED <<cRead, cAt, cSkip, cRollUp, leases>>
       ELSE Answer(c)
    /\ UNCHANGED <<tables, plan, finishedAt, clock, streamVars, pageVars, history>>

StartJob(c) ==
    /\ cPc[c] = "startJob"
    /\ TransitionStatus(cJob[c], "leased", "running")
    /\ Answer(c)
    /\ UNCHANGED <<outputs, runStatus, plan, wideRows, streamVars, pageVars, history>>
-----------------------------------------------------------------------------
(* CompleteJob, with the times it writes. *)

(* time.Now(): two readings may fall into one tick of the column. *)
Now(t) == t \in {clock, clock + 1} \cap 1..MaxTime /\ clock' = t

CompleteJob(c, l) ==
    /\ work[l] # Unsent /\ work[l] = LastCall(l)
    /\ GetByLease(l) # {}
    /\ Enter(c, l, "setResult")
    /\ \E t \in 1..MaxTime : Now(t) /\ cAt' = [cAt EXCEPT ![c] = t]
    /\ Decide(l)
    /\ UNCHANGED <<tables, plan, finishedAt, steps, nextLease, leaseJob, work, cRead,
                   cSkip, cRollUp, cGone, streamVars, pageVars, history>>

(* jobs.result and jobs.finished_at in one UPDATE. *)
SetResultAt(j, res, t) ==
    /\ SetResult(j, res)
    /\ finishedAt' = [finishedAt EXCEPT ![j] = t]

(* Defect: only a failure is stored. *)
CompleteSetFailure(c) ==
    /\ Goto(c, "setResult", "toRunning")
    /\ IF verdict[cLease[c]] = "failure"
       THEN SetResultAt(cJob[c], "failure", cAt[c])
       ELSE UNCHANGED <<jobsTable, finishedAt>>
    /\ UNCHANGED <<outputs, runStatus, plan, steps, clock, leases, cRead, cAt, cSkip,
                   cRollUp, streamVars, pageVars, history>>

CompleteSetResult(c) ==
    /\ Goto(c, "setResult", "toRunning")
    /\ SetResultAt(cJob[c], verdict[cLease[c]], cAt[c])
    /\ UNCHANGED <<outputs, runStatus, plan, steps, clock, leases, cRead, cAt, cSkip,
                   cRollUp, streamVars, pageVars, history>>

CompleteToRunning(c) ==
    /\ Goto(c, "toRunning", "toTerminal")
    /\ TransitionStatus(cJob[c], "leased", "running")
    /\ UNCHANGED <<outputs, runStatus, plan, wideRows, leases, cRead, cAt, cSkip,
                   cRollUp, streamVars, pageVars, history>>

(* The job_outputs written next are not read by anything modelled here. *)
CompleteToTerminal(c) ==
    /\ Goto(c, "toTerminal", "gate")
    /\ TransitionStatus(cJob[c], "running", verdict[cLease[c]])
    /\ UNCHANGED <<outputs, runStatus, plan, wideRows, leases, cRead, cAt, cSkip,
                   cRollUp, streamVars, pageVars, history>>

RunOfCall(c) == RunOf[cJob[c]]
ToSkip(u) == {j \in Jobs : RunOf[j] = u /\ status[j] = "queued" /\ SkipByRule(j, status)}

(* gateRun: skipJob's transition, its result, and so on until no row is    *)
(* left to skip.                                                           *)
GateSkip(c) ==
    /\ cPc[c] = "gate"
    /\ \E j \in ToSkip(RunOfCall(c)) :
        /\ TransitionStatus(j, "queued", "skipped")
        /\ cSkip' = [cSkip EXCEPT ![c] = j]
    /\ Goto(c, "gate", "gateResult")
    /\ UNCHANGED <<outputs, runStatus, plan, wideRows, leases, cRead, cAt, cRollUp,
                   streamVars, pageVars, history>>

GateSkipResult(c) ==
    /\ Goto(c, "gateResult", "gate")
    /\ \E t \in 1..MaxTime : Now(t) /\ SetResultAt(cSkip[c], "skipped", t)
    /\ cSkip' = [cSkip EXCEPT ![c] = NoJob]
    /\ UNCHANGED <<outputs, runStatus, plan, steps, leases, cRead, cAt, cRollUp,
                   streamVars,
                   pageVars, history>>

(* finalizeRunIfComplete: the rows are read, and if they all have finished *)
(* the run is set to what they add up to; the call is answered.  While the *)
(* planner is inserting, more rows may follow.                             *)
FinalizeList(c) ==
    /\ cPc[c] = "gate"
    /\ ToSkip(RunOfCall(c)) = {}
    /\ IF RunComplete(RunOfCall(c), status)
       THEN /\ Goto(c, "gate", "setRun")
            /\ cRollUp' = [cRollUp EXCEPT ![c] = RollUp(RunOfCall(c), status)]
            /\ early' = IF plan[RunOfCall(c)] = "inserting"
                        THEN early \cup {RunOfCall(c)} ELSE early
            /\ UNCHANGED <<leases, cRead, cAt, cSkip>>
       ELSE Answer(c) /\ UNCHANGED early
    /\ UNCHANGED <<tables, plan, wideRows, streamVars, pageVars, troubles,
                   untidy, overlapped>>

FinalizeSet(c) ==
    /\ cPc[c] = "setRun"
    /\ SetRunStatus(RunOfCall(c), cRollUp[c])
    /\ Answer(c)
    /\ UNCHANGED <<jobsTable, outputs, plan, wideRows, streamVars, pageVars, history>>
-----------------------------------------------------------------------------
(* AcquireJob: a row is leased, buildNeedsOutputs reads what it needs, the *)
(* lease is sent.                                                          *)

LeaseRow ==
    /\ sPc = "idle"
    /\ nextLease < MaxLeases
    /\ \E j \in Jobs, r \in Runners :
        /\ status[j] = "queued"
        /\ Leasable(j, status)
        /\ Lease(j, nextLease + 1, r)
        /\ leaseJob' = [leaseJob EXCEPT ![nextLease + 1] = j]
        /\ sJob' = j
        /\ sPc' = IF Needs[j] = {} THEN "send" ELSE "listJobs"
    /\ nextLease' = nextLease + 1
    /\ UNCHANGED <<outputs, runStatus, plan, wideRows, verdict, work, callVars, told,
                   pageVars, history>>

(* Defect: the first of two rows finished at the same time stays. *)
LaterTime(n, m) == finishedAt[n] > finishedAt[m]

(* Row n takes the place of row m: it finished later, or its id is the     *)
(* greater one; a row without a time comes before any other.               *)
Later(n, m) ==
    /\ finishedAt[n] # 0
    /\ \/ finishedAt[m] = 0
       \/ finishedAt[n] > finishedAt[m]
       \/ finishedAt[n] = finishedAt[m] /\ Rank[n] > Rank[m]

(* Row n, if it has a result, is taken before any other and then in the    *)
(* place of an earlier one.                                                *)
Takes(n, m) == result[n] # NoResult /\ (m = NoJob \/ Later(n, m))

(* The canonical row after each step of one pass over the rows, in the     *)
(* order they were listed.                                                 *)
canonical(rows) ==
    LET after[i \in 0 .. Len(rows)] ==
            IF i = 0 THEN NoJob
            ELSE IF Takes(rows[i], after[i - 1]) THEN rows[i] ELSE after[i - 1]
    IN  after

canonicalNeedRow(rows) ==
    LET last == canonical(rows)[Len(rows)]
    IN  IF last = NoJob /\ rows # <<>> THEN rows[1] ELSE last

(* The orders in which one SELECT may list the rows with YAML id y: it     *)
(* sorts by that id alone.                                                 *)
Listings(u, y) == SetToSeqs(Group(u, y, status))

(* The rows of all needs come from one ListJobsForRun; a need whose row    *)
(* has no result is left out.                                              *)
ListNeeds ==
    /\ sPc = "listJobs"
    /\ \E pick \in [Needs[sJob] -> Jobs \cup {NoJob}] :
        /\ \A y \in Needs[sJob] : \E rows \in Listings(RunOf[sJob], y) :
               pick[y] = canonicalNeedRow(rows)
        /\ told' = [y \in JobIds |->
                       IF y \in Needs[sJob] /\ pick[y] # NoJob THEN result[pick[y]]
                                                             ELSE NoResult]
    /\ sPc' = "send"
    /\ UNCHANGED <<tables, plan, wideRows, leases, callVars, sJob, pageVars, history>>

(* The runner starts to work; the stream is free again. *)
Send ==
    /\ sPc = "send"
    /\ work' = [work EXCEPT ![nextLease] = 0]
    /\ sPc' = "idle" /\ sJob' = NoJob /\ told' = NotTold
    /\ UNCHANGED <<tables, plan, wideRows, nextLease, leaseJob, verdict, callVars,
                   pageVars, history>>

(* The deadline of a lease passes, and the reaper takes the row back. *)
LeaseLapses(j) ==
    /\ status[j] = "leased" /\ j \notin expired
    /\ troubles < MaxTroubles
    /\ troubles' = troubles + 1
    /\ expired' = expired \cup {j}
    /\ UNCHANGED <<status, lease, holder, result, outputs, runStatus, plan, wideRows,
                   leases, callVars, streamVars, pageVars, untidy,
                   overlapped, early>>

ReapJobs ==
    /\ ExpiredRows # {}
    /\ RequeueExpired
    /\ UNCHANGED <<outputs, runStatus, plan, wideRows, leases, callVars, streamVars,
                   pageVars, history>>
-----------------------------------------------------------------------------
(* The pages, one at a time: they do not influence each other. *)

Elsewhere == <<tables, plan, wideRows, leases, callVars, streamVars, history>>

(* Defect: the rows are read before the run. *)
runsGetRowsFirst(u) ==
    \/ /\ pPc = "idle" /\ runStatus[u] # "absent"
       /\ pPc' = "getRun"
       /\ pOf' = u
       /\ pRows' = [j \in Jobs |-> IF RunOf[j] = u THEN status[j] ELSE "unread"]
       /\ UNCHANGED <<pStatus, pSteps, Elsewhere>>
    \/ /\ pPc = "getRun" /\ pOf = u
       /\ pPc' = "run"
       /\ pStatus' = runStatus[u]
       /\ UNCHANGED <<pOf, pRows, pSteps, Elsewhere>>

(* GET /runs/{id}: GetRun, then ListJobsForRun. *)
runsGetHandler(u) ==
    \/ /\ pPc = "idle" /\ runStatus[u] # "absent"
       /\ pPc' = "listJobs"
       /\ pOf' = u
       /\ pStatus' = runStatus[u]
       /\ UNCHANGED <<pRows, pSteps, Elsewhere>>
    \/ /\ pPc = "listJobs" /\ pOf = u
       /\ pPc' = "run"
       /\ pRows' = [j \in Jobs |-> IF RunOf[j] = u THEN status[j] ELSE "unread"]
       /\ UNCHANGED <<pOf, pStatus, pSteps, Elsewhere>>

(* Defect: the steps are read before the job. *)
runsGetStepsFirst(j) ==
    \/ /\ pPc = "idle" /\ status[j] # "absent"
       /\ pPc' = "getJob"
       /\ pOf' = j
       /\ pSteps' = steps[j]
       /\ UNCHANGED <<pStatus, pRows, Elsewhere>>
    \/ /\ pPc = "getJob" /\ pOf = j
       /\ pPc' = "job"
       /\ pStatus' = status[j]
       /\ UNCHANGED <<pOf, pRows, pSteps, Elsewhere>>

(* GET /jobs/{id}: GetJob, then ListStepsForJob. *)
runsGetJobHandler(j) ==
    \/ /\ pPc = "idle" /\ status[j] # "absent"
       /\ pPc' = "listSteps"
       /\ pOf' = j
       /\ pStatus' = status[j]
       /\ UNCHANGED <<pRows, pSteps, Elsewhere>>
    \/ /\ pPc = "listSteps" /\ pOf = j
       /\ pPc' = "job"
       /\ pSteps' = steps[j]
       /\ UNCHANGED <<pOf, pStatus, pRows, Elsewhere>>

(* The response is written. *)
WriteJSON ==
    /\ pPc \in {"run", "job"}
    /\ pPc' = "idle" /\ pOf' = NoJob /\ pStatus' = "unread" /\ pRows' = NoRows
    /\ pSteps' = <<>>
    /\ UNCHANGED Elsewhere
-----------------------------------------------------------------------------
CallStep(c) ==
    \/ ListStepsForJob(c) \/ UpsertStep(c) \/ StartJob(c)
    \/ CompleteSetResult(c) \/ CompleteToRunning(c) \/ CompleteToTerminal(c)
    \/ GateSkip(c) \/ GateSkipResult(c)
    \/ FinalizeList(c) \/ FinalizeSet(c)

PlanStep(u) ==
    CreateRun(u) \/ InsertJob(u) \/ CreateJobFails(u) \/ PlanFails(u)

ServerStep ==
    \/ \E u \in Runs : PlanStep(u)
    \/ \E c \in Calls : CallStep(c) \/ GiveUp(c) \/ Cancelled(c)
    \/ \E l \in Leases : \/ Stale(l)
                         \/ \E c \in Calls : ReportStep(c, l) \/ CompleteJob(c, l)
    \/ LeaseRow \/ ListNeeds \/ Send \/ ReapJobs
    \/ \E j \in Jobs : LeaseLapses(j)

PageStep ==
    \/ \E u \in Runs : runsGetHandler(u)
    \/ \E j \in Jobs : StepsOf[j] > 0 /\ runsGetJobHandler(j)

(* A page that has all it shows is out of the way before anything else     *)
(* happens: nothing depends on it any more.                                *)
Next ==
    \/ pPc \notin {"run", "job"} /\ (ServerStep \/ PageStep)
    \/ WriteJSON

Spec == Init /\ [][Next]_vars
-----------------------------------------------------------------------------
StepRows == [status : Statuses, started : 0..MaxLeases, finished : 0..MaxLeases]

(* Every column and every local variable of a handler has its type. *)
TypeOK ==
    /\ StoreTypeOK
    /\ plan \in [Runs -> {"new", "inserting", "failing", "done", "failed"}]
    /\ finishedAt \in [Jobs -> 0..MaxTime]
    /\ \A j \in Jobs : steps[j] \in [StepIds(j) -> StepRows]
    /\ clock \in 1..MaxTime
    /\ nextLease \in 0..MaxLeases
    /\ leaseJob \in [Leases -> Jobs \cup {NoJob}]
    /\ verdict \in [Leases -> Reports \cup {NoResult}]
    /\ \A l \in Leases : work[l] = Unsent \/ work[l] \in 0..(LastCall(l) + 1)
    /\ cLease \in [Calls -> 0..MaxLeases]
    /\ cJob \in [Calls -> Jobs \cup {NoJob}]
    /\ cRead \in [Calls -> StepRows]
    /\ cAt \in [Calls -> 0..MaxTime]
    /\ told \in [JobIds -> Terminal \cup {NoResult}]
    /\ cRollUp \in [Calls -> RunTerminal \cup {"queued"}]
    /\ untidy \subseteq Jobs /\ overlapped \subseteq Jobs /\ early \subseteq Runs

(* Row j was handed out at most once and its runner waited for every       *)
(* answer.                                                                 *)
Tidy(j) ==
    /\ j \notin untidy
    /\ \A l, m \in Leases : leaseJob[l] = j /\ leaseJob[m] = j => l = m

(* The run page and its rows come from two SELECTs.  A page that shows the *)
(* run as finished shows every row as finished, and rows that add up to    *)
(* the status shown (runsGetHandler), unless the run's status was set      *)
(* before its time: by a Plan that failed half way (the rows it left       *)
(* behind are still queued) or by a roll-up of the rows inserted so far.   *)
RunPageConsistent ==
    pPc = "run" /\ pStatus \in RunTerminal /\ pOf \notin early =>
        RunComplete(pOf, pRows) /\ pStatus = RollUp(pOf, pRows)

(* The job page and its steps come from two SELECTs, and a step's row from *)
(* two statements of a report.  A page that shows a job as finished by its *)
(* runner shows each of its steps started, ended, and with the outcome     *)
(* (runsGetJobHandler, ReportStatus).                                      *)
JobPageConsistent ==
    pPc = "job" /\ Tidy(pOf) /\ pStatus \in Terminal /\ lease[pOf] # 0 =>
        \A i \in StepIds(pOf) : /\ pSteps[i].status \in Terminal
                                /\ pSteps[i].started # 0
                                /\ pSteps[i].finished # 0

(* The time a step first started survives every later report, repeated,    *)
(* late or from the next runner of the job, unless two reports overlap     *)
(* between their SELECT and their upsert (ReportStatus: "carry them        *)
(* forward").                                                              *)
StepStartKept ==
    [][\A j \in Jobs \ overlapped : \A i \in StepIds(j) :
           steps[j][i].started # 0 => steps'[j][i].started = steps[j][i].started]_vars

(* Whatever order the rows of a matrix job are listed in, canonicalNeedRow *)
(* picks the one that finished last, the one with the greater id if two    *)
(* finished at the same time ("this function's result never depends on     *)
(* slice iteration order").                                                *)
CanonicalIsLast ==
    \A u \in Runs, y \in JobIds :
        LET done == {n \in Group(u, y, status) : result[n] # NoResult}
        IN  done # {} =>
            \A rows \in Listings(u, y) :
                LET pick == canonicalNeedRow(rows)
                IN  /\ pick \in done
                    /\ \A n \in done \ {pick} :
                           \/ finishedAt[n] < finishedAt[pick]
                           \/ /\ finishedAt[n] = finishedAt[pick]
                              /\ Rank[n] < Rank[pick]

(* Two runners were given row j and came to different outcomes. *)
Contested(j) ==
    \E l, m \in Leases : /\ leaseJob[l] = j /\ leaseJob[m] = j
                         /\ verdict[l] # NoResult
                         /\ verdict[l] # verdict[m] /\ verdict[m] # NoResult

(* A dependent is told of each of its needs what one of the need's rows    *)
(* really ended with.  A need is missing from the lease only if all its    *)
(* rows were skipped by rule, and a row that did not ask to run in any     *)
(* case is told of successes only (buildNeedsOutputs, skipJob).            *)
NeedsTold ==
    sPc = "send" =>
        \A y \in Needs[sJob] :
            LET rows == Cells(RunOf[sJob], y)
            IN  (\A n \in rows : ~Contested(n)) =>
                /\ \/ \E n \in rows : told[y] = status[n]
                   \/ told[y] = NoResult /\ \A n \in rows : status[n] = "skipped"
                                                           /\ lease[n] = 0
                /\ sJob \notin IfOverride => told[y] = "success"
=============================================================================
