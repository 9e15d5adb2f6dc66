--------------------------- MODULE JobViewsProofs ---------------------------
(***************************************************************************)
(* The pages and the needs_outputs of module JobViews, for every workflow, *)
(* any number of runs, rows, steps, runners, concurrent calls, lapsed      *)
(* leases and reports given up on.                                         *)
(***************************************************************************)
EXTENDS JobViews, WorkflowProofs, FiniteSetTheorems, SequenceTheorems,
        WellFoundedInduction

(* Where a step report and a CompleteJob can be in their handlers. *)
Reporting == {"listSteps", "upsertStep", "startJob"}
Completing == {"setResult", "toRunning", "toTerminal", "gate", "gateResult", "setRun"}

RowTypes ==
    /\ StoreTypeOK
    /\ finishedAt \in [Jobs -> 0..MaxTime]
    /\ steps = [j \in Jobs |-> steps[j]]
    /\ \A j \in Jobs : steps[j] \in [StepIds(j) -> StepRows]
    /\ clock \in 1..MaxTime

LeaseTypes ==
    /\ nextLease \in 0..MaxLeases
    /\ leaseJob \in [Leases -> Jobs \cup {NoJob}]
    /\ verdict \in [Leases -> Reports \cup {NoResult}]
    /\ work \in [Leases -> Nat \cup {Unsent}]

CallTypes ==
    /\ cPc \in [Calls -> {"idle"} \cup Reporting \cup Completing]
    /\ cLease \in [Calls -> 0..MaxLeases]
    /\ cJob \in [Calls -> Jobs \cup {NoJob}]
    /\ cStep \in [Calls -> Nat]
    /\ cRead \in [Calls -> StepRows]
    /\ cAt \in [Calls -> 0..MaxTime]
    /\ cSkip \in [Calls -> Jobs \cup {NoJob}]
    /\ cRollUp \in [Calls -> RunTerminal \cup {"queued"}]
    /\ cGone \in [Calls -> BOOLEAN]

StreamTypes ==
    /\ sPc \in {"idle", "listJobs", "send"}
    /\ told \in [JobIds -> Terminal \cup {NoResult}]

PlanTypes ==
    /\ plan \in [Runs -> {"new", "inserting", "failing", "done", "failed"}]
    /\ early \subseteq Runs

Typed == RowTypes /\ LeaseTypes /\ CallTypes /\ StreamTypes /\ PlanTypes

(* A runner has at most CompleteJob behind it. *)
WorkBound == \A l \in Leases : work[l] \in Nat => work[l] <= LastCall(l) + 1

HistoryOK == untidy \subseteq Jobs /\ overlapped \subseteq Jobs

(* Leases are granted in order, and a runner gets to work when the stream  *)
(* is done with its lease.                                                 *)
LeaseBook ==
    /\ \A l \in Leases : leaseJob[l] \in Jobs <=> l <= nextLease
    /\ \A l \in Leases : work[l] # Unsent => l <= nextLease
    /\ sPc # "idle" => /\ nextLease \in Leases
                       /\ leaseJob[nextLease] = sJob
                       /\ work[nextLease] = Unsent

(* A call belongs to a granted lease.  While the runner waits for it, it   *)
(* is about the report the runner has got to.                              *)
CallOK(c) ==
    /\ cPc[c] # "idle" => /\ cLease[c] \in Leases
                          /\ cJob[c] \in Jobs
                          /\ leaseJob[cLease[c]] = cJob[c]
                          /\ ~cGone[c] => work[cLease[c]] = cStep[c]
    /\ cPc[c] \in Reporting => cStep[c] < 2 * StepsOf[cJob[c]]
    /\ cPc[c] \in Reporting /\ cStep[c] % 2 # 0 => verdict[cLease[c]] \in Reports
    /\ cPc[c] = "startJob" => cStep[c] % 2 = 0
    /\ cPc[c] \in Completing => /\ cStep[c] = 2 * StepsOf[cJob[c]]
                                /\ verdict[cLease[c]] \in Reports
    /\ cGone[c] => cPc[c] \in Reporting /\ cJob[c] \in untidy
    /\ cPc[c] = "setResult" => cAt[c] # 0
    /\ cPc[c] = "gateResult" => cSkip[c] \in Jobs

Waiting(c) == cPc[c] # "idle" /\ ~cGone[c]

(* A runner waits for one answer at a time. *)
OneAtATime ==
    \A c, d \in Calls : Waiting(c) /\ Waiting(d) /\ cLease[c] = cLease[d] => c = d

CallsOK == \A c \in Calls : CallOK(c)

TypeInv == Typed /\ LeaseBook /\ WorkBound /\ CallsOK /\ OneAtATime /\ HistoryOK

(* The start: no row is leased and no handler runs. *)
LEMMA TypeInit == Init => TypeInv
<1> SUFFICES ASSUME Init PROVE TypeInv
    OBVIOUS
<1>1. NoStep \in StepRows
    BY StoreConstants DEF NoStep, StepRows, Statuses
<1>2. RowTypes
    <2>1. StoreTypeOK
        BY StoreConstants DEF Init, StoreTypeOK, Statuses, RunTerminal
    <2>2. finishedAt \in [Jobs -> 0..MaxTime] /\ clock \in 1..MaxTime
        BY ViewConstants DEF Init
    <2>3. steps = [j \in Jobs |-> [i \in StepIds(j) |-> NoStep]]
        BY DEF Init
    <2>4. QED
        BY <1>1, <2>1, <2>2, <2>3 DEF RowTypes
<1>3. LeaseTypes
    BY StoreConstants DEF Init, LeaseTypes, Leases, Unsent
<1>4. CallTypes
    BY <1>1, StoreConstants, ViewConstants DEF Init, CallTypes
<1>5. StreamTypes /\ PlanTypes
    BY DEF Init, StreamTypes, NotTold, PlanTypes
<1>6. LeaseBook /\ WorkBound
    BY StoreConstants, ViewConstants DEF Init, LeaseBook, WorkBound, Leases, Unsent
<1>7. CallsOK /\ OneAtATime /\ HistoryOK
    BY DEF Init, CallsOK, CallOK, OneAtATime, Waiting, HistoryOK, Reporting, Completing
<1>8. QED
    BY <1>2, <1>3, <1>4, <1>5, <1>6, <1>7 DEF TypeInv, Typed

(* TypeOK is what TypeInv says of each variable by itself. *)
LEMMA TypeInvTypes == TypeInv => TypeOK
BY DEF TypeInv, Typed, RowTypes, LeaseTypes, CallTypes, StreamTypes, PlanTypes,
       WorkBound, HistoryOK, TypeOK

(* The planner inserts rows and sets runs, and touches nothing else.       *)
LEMMA PlanShape ==
    ASSUME NEW u \in Runs, PlanStep(u)
    PROVE  /\ UNCHANGED <<lease, holder, expired, result, outputs, wideRows, leases>>
           /\ UNCHANGED <<callVars, streamVars, pageVars, untidy, overlapped>>
BY DEF PlanStep, CreateRun, InsertJob, CreateJobFails, PlanFails, SetRunStatus, CreateJob,
       tables, jobsTable, history

(* A transition sets the status of one row, if it is legal, and nothing    *)
(* else.                                                                   *)
LEMMA TransitionEffect ==
    ASSUME StoreTypeOK, NEW j \in Jobs, NEW from, NEW to,
           TransitionStatus(j, from, to)
    PROVE  /\ UNCHANGED <<lease, holder, expired, result>>
           /\ \/ status' = status
              \/ /\ isLegalJobTransition(from, to)
                 /\ status[j] = from
                 /\ status' = [status EXCEPT ![j] = to]
<1>1. CASE TransitionApplies(j, from, to)
    BY <1>1 DEF TransitionStatus, TransitionApplies
<1>2. CASE ~TransitionApplies(j, from, to)
    BY <1>2 DEF TransitionStatus, StoreTypeOK
<1>3. QED
    BY <1>1, <1>2

(* A transition keeps the types. *)
LEMMA TransitionTypes ==
    ASSUME StoreTypeOK, NEW j \in Jobs, NEW from, NEW to,
           TransitionStatus(j, from, to),
           UNCHANGED <<outputs, runStatus>>
    PROVE  StoreTypeOK'
<1>1. isLegalJobTransition(from, to) => to \in Statuses
    BY DEF isLegalJobTransition, jobTransitions, Statuses, Terminal
<1>2. QED
    BY <1>1, TransitionEffect DEF StoreTypeOK

(* The row a step report writes. *)
LEMMA StepRowTypes ==
    ASSUME TypeInv, NEW c \in Calls, cPc[c] \in Reporting
    PROVE  /\ StepRow(c) \in StepRows
           /\ StepOfCall(c) \in StepIds(cJob[c])
           /\ PhaseOfCall(c) = "running" <=> cStep[c] % 2 = 0
           /\ PhaseOfCall(c) \in Terminal <=> cStep[c] % 2 # 0
           /\ cLease[c] # 0
<1>1. /\ cLease[c] \in Leases /\ cJob[c] \in Jobs /\ StepsOf[cJob[c]] \in Nat
      /\ cStep[c] \in Nat /\ cStep[c] < 2 * StepsOf[cJob[c]]
      /\ cStep[c] % 2 # 0 => verdict[cLease[c]] \in Reports
      /\ cRead[c] \in StepRows
    BY ViewConstants DEF TypeInv, Typed, CallTypes, CallsOK, CallOK, Reporting
<1>2. StepOfCall(c) \in StepIds(cJob[c])
    BY <1>1 DEF StepOfCall, StepIds
<1>3. /\ PhaseOfCall(c) \in Statuses
      /\ PhaseOfCall(c) = "running" <=> cStep[c] % 2 = 0
      /\ PhaseOfCall(c) \in Terminal <=> cStep[c] % 2 # 0
    BY <1>1, ViewConstants DEF PhaseOfCall, Statuses, Terminal
<1>4. cLease[c] \in 0..MaxLeases /\ cLease[c] # 0
    BY <1>1, StoreConstants DEF Leases
<1>5. StepRow(c) \in StepRows
    BY <1>1, <1>3, <1>4 DEF StepRow, StepRows
<1>6. QED
    BY <1>2, <1>3, <1>4, <1>5

(* The tables keep their types, whatever is written. *)
LEMMA RowTypesNext == TypeInv /\ [Next]_vars => RowTypes'
<1> SUFFICES ASSUME TypeInv, [Next]_vars PROVE RowTypes'
    OBVIOUS
<1> USE DEF vars, wideRows, tables, jobsTable
<1>1. RowTypes /\ StoreTypeOK /\ LeaseTypes /\ CallTypes /\ CallsOK
    BY DEF TypeInv, Typed, RowTypes
<1>2. ASSUME UNCHANGED tables, UNCHANGED wideRows PROVE RowTypes'
    BY <1>1, <1>2 DEF RowTypes, StoreTypeOK
<1>3. ASSUME StoreTypeOK', UNCHANGED wideRows PROVE RowTypes'
    BY <1>1, <1>3 DEF RowTypes
<1>4. ASSUME NEW c \in Calls, UpsertStep(c) PROVE RowTypes'
    <2>1. cJob[c] \in Jobs /\ cPc[c] \in Reporting
        BY <1>1, <1>4 DEF UpsertStep, CallsOK, CallOK, Reporting
    <2>2. StepRow(c) \in StepRows /\ StepOfCall(c) \in StepIds(cJob[c])
        BY <2>1, StepRowTypes
    <2>3. steps' = [steps EXCEPT ![cJob[c]][StepOfCall(c)] = StepRow(c)]
        BY <1>4 DEF UpsertStep
    <2>4. /\ steps' = [j \in Jobs |-> steps'[j]]
          /\ \A j \in Jobs : steps'[j] \in [StepIds(j) -> StepRows]
        BY <1>1, <2>1, <2>2, <2>3 DEF RowTypes
    <2>5. UNCHANGED <<tables, finishedAt, clock>>
        BY <1>4 DEF UpsertStep
    <2>6. QED
        BY <1>1, <2>4, <2>5 DEF RowTypes, StoreTypeOK
<1>5. ASSUME NEW c \in Calls,
             StartJob(c) \/ CompleteToRunning(c) \/ CompleteToTerminal(c) \/ GateSkip(c)
      PROVE  RowTypes'
    <2>1. cJob[c] \in Jobs
        BY <1>1, <1>5 DEF StartJob, CompleteToRunning, CompleteToTerminal, GateSkip,
           Goto, CallsOK, CallOK
    <2>2. /\ UNCHANGED <<outputs, runStatus, wideRows>>
          /\ \E j \in Jobs : \E from, to : TransitionStatus(j, from, to)
        BY <1>5, <2>1 DEF StartJob, CompleteToRunning, CompleteToTerminal, GateSkip, ToSkip
    <2>3. QED
        BY <1>1, <1>3, <2>2, TransitionTypes
<1>6. ASSUME NEW j \in Jobs, NEW res \in Terminal \cup {NoResult}, NEW t \in 0..MaxTime,
             SetResultAt(j, res, t), UNCHANGED <<outputs, runStatus, steps>>,
             clock' = clock \/ Now(clock')
      PROVE  RowTypes'
    <2>1. clock' \in 1..MaxTime
        BY <1>1, <1>6 DEF RowTypes, Now
    <2>2. QED
        BY <1>1, <1>6, <2>1 DEF SetResultAt, SetResult, RowTypes, StoreTypeOK
<1>7. ASSUME NEW c \in Calls, CompleteSetResult(c) PROVE RowTypes'
    <2>1. cJob[c] \in Jobs /\ cLease[c] \in Leases
        BY <1>1, <1>7 DEF CompleteSetResult, Goto, CallsOK, CallOK
    <2>2. verdict[cLease[c]] \in Terminal \cup {NoResult} /\ cAt[c] \in 0..MaxTime
        BY <1>1, <2>1, ViewConstants DEF LeaseTypes, CallTypes
    <2>3. QED
        BY <1>6, <1>7, <2>1, <2>2 DEF CompleteSetResult
<1>8. ASSUME NEW c \in Calls, GateSkipResult(c) PROVE RowTypes'
    <2>1. cSkip[c] \in Jobs
        BY <1>1, <1>8 DEF GateSkipResult, Goto, CallsOK, CallOK
    <2>2. PICK t \in 1..MaxTime : Now(t) /\ SetResultAt(cSkip[c], "skipped", t)
        BY <1>8 DEF GateSkipResult
    <2>3. t \in 0..MaxTime /\ Now(clock') /\ "skipped" \in Terminal
        BY <2>2 DEF Now, Terminal
    <2>4. QED
        BY <1>6, <1>8, <2>1, <2>2, <2>3 DEF GateSkipResult
<1>9. ASSUME NEW c \in Calls, FinalizeSet(c) PROVE RowTypes'
    <2>1. cRollUp[c] \in RunTerminal \cup {"queued"}
        BY <1>1 DEF CallTypes
    <2>2. QED
        BY <1>1, <1>3, <1>9, <2>1 DEF FinalizeSet, SetRunStatus, StoreTypeOK
<1>10. ASSUME NEW c \in Calls, NEW l \in Leases, CompleteJob(c, l) PROVE RowTypes'
    <2>1. clock' \in 1..MaxTime /\ UNCHANGED <<tables, finishedAt, steps>>
        BY <1>10 DEF CompleteJob, Now
    <2>2. QED
        BY <1>1, <2>1 DEF RowTypes, StoreTypeOK
<1>11. ASSUME LeaseRow PROVE RowTypes'
    <2>1. PICK j \in Jobs, r \in Runners : Lease(j, nextLease + 1, r)
        BY <1>11 DEF LeaseRow
    <2>2. nextLease + 1 \in 0..MaxLeases
        BY <1>1, <1>11, StoreConstants DEF LeaseRow, LeaseTypes
    <2>3. StoreTypeOK'
        BY <1>1, <1>11, <2>1, <2>2 DEF LeaseRow, Lease, StoreTypeOK, Statuses
    <2>4. QED
        BY <1>3, <1>11, <2>3 DEF LeaseRow
<1>12. ASSUME ReapJobs \/ \E j \in Jobs : LeaseLapses(j) PROVE RowTypes'
    <2>1. StoreTypeOK'
        BY <1>1, <1>12, StoreConstants DEF ReapJobs, RequeueExpired, LeaseLapses,
           StoreTypeOK, Statuses
    <2>2. QED
        BY <1>3, <1>12, <2>1 DEF ReapJobs, LeaseLapses
<1>13. ASSUME \/ \E c \in Calls : \/ ListStepsForJob(c) \/ FinalizeList(c)
                                  \/ GiveUp(c) \/ Cancelled(c)
              \/ \E l \in Leases : Stale(l) \/ \E c \in Calls : ReportStep(c, l)
              \/ ListNeeds \/ Send \/ WriteJSON \/ PageStep
       PROVE  UNCHANGED <<tables, wideRows>>
    BY <1>13 DEF ListStepsForJob, FinalizeList, GiveUp, Cancelled, Stale, ReportStep,
       ListNeeds, Send, WriteJSON, PageStep, runsGetHandler, runsGetJobHandler, Elsewhere
<1>14. ASSUME NEW u \in Runs, PlanStep(u) PROVE RowTypes'
    <2>1. UNCHANGED <<lease, holder, expired, result, outputs, wideRows>>
        BY <1>14, PlanShape
    <2>2. CASE CreateRun(u)
        BY <1>1, <1>3, <2>1, <2>2 DEF CreateRun, SetRunStatus, StoreTypeOK
    <2>3. CASE InsertJob(u)
        BY <1>1, <1>3, <2>1, <2>3 DEF InsertJob, CreateJob, StoreTypeOK, Statuses
    <2>4. CASE CreateJobFails(u)
        BY <1>2, <2>4 DEF CreateJobFails
    <2>5. CASE PlanFails(u)
        BY <1>1, <1>3, <2>1, <2>5 DEF PlanFails, SetRunStatus, StoreTypeOK, RunTerminal
    <2>6. QED
        BY <1>14, <2>2, <2>3, <2>4, <2>5 DEF PlanStep
<1>15. QED
    BY <1>2, <1>4, <1>5, <1>7, <1>8, <1>9, <1>10, <1>11, <1>12, <1>13, <1>14
    DEF Next, ServerStep, CallStep

(* The planner's progress has its type. *)
LEMMA PlanTypesNext == TypeInv /\ [Next]_vars => PlanTypes'
<1> SUFFICES ASSUME TypeInv, [Next]_vars PROVE PlanTypes'
    OBVIOUS
<1> USE DEF vars, history
<1>1. PlanTypes
    BY DEF TypeInv, Typed
<1>2. ASSUME UNCHANGED <<plan, early>> PROVE PlanTypes'
    BY <1>1, <1>2 DEF PlanTypes
<1>3. ASSUME NEW u \in Runs, PlanStep(u) PROVE PlanTypes'
    BY <1>1, <1>3 DEF PlanTypes, PlanStep, CreateRun, InsertJob, CreateJobFails,
       PlanFails, history
<1>4. ASSUME NEW c \in Calls, FinalizeList(c) PROVE PlanTypes'
    <2>1. CASE UNCHANGED early
        BY <1>1, <1>4, <2>1 DEF FinalizeList, PlanTypes
    <2>2. CASE early' = early \cup {RunOfCall(c)}
        <3>1. cJob[c] \in Jobs
            BY <1>4 DEF TypeInv, CallsOK, CallOK, FinalizeList
        <3>2. RunOfCall(c) \in Runs
            BY <3>1, WorkflowTypes DEF RunOfCall
        <3>3. QED
            BY <1>1, <1>4, <2>2, <3>2 DEF FinalizeList, PlanTypes
    <2>3. QED
        BY <1>4, <2>1, <2>2 DEF FinalizeList, Goto
<1>5. ASSUME \/ \E c \in Calls : \/ GiveUp(c) \/ Cancelled(c)
                                 \/ CallStep(c) /\ ~FinalizeList(c)
             \/ \E l \in Leases : \/ Stale(l)
                                  \/ \E c \in Calls : ReportStep(c, l) \/ CompleteJob(c, l)
             \/ \E j \in Jobs : LeaseLapses(j)
             \/ LeaseRow \/ ListNeeds \/ Send \/ ReapJobs \/ WriteJSON \/ PageStep
      PROVE  UNCHANGED <<plan, early>>
    BY <1>5 DEF CallStep, ListStepsForJob, UpsertStep, StartJob, CompleteSetResult,
       CompleteToRunning, CompleteToTerminal, GateSkip, GateSkipResult, FinalizeSet,
       GiveUp, Cancelled, Stale, ReportStep, CompleteJob, LeaseLapses, LeaseRow,
       ListNeeds, Send, ReapJobs, WriteJSON, PageStep, runsGetHandler,
       runsGetJobHandler, Elsewhere
<1>6. QED
    BY <1>2, <1>3, <1>4, <1>5 DEF Next, ServerStep

(* What the runners are said to have done is of the right types. *)
LEMMA LeaseTypesNext == TypeInv /\ [Next]_vars => LeaseTypes'
<1> SUFFICES ASSUME TypeInv, [Next]_vars PROVE LeaseTypes'
    OBVIOUS
<1> USE DEF vars, leases
<1>1. LeaseTypes /\ CallTypes /\ CallsOK /\ LeaseBook
    BY DEF TypeInv, Typed
<1>2. ASSUME UNCHANGED leases PROVE LeaseTypes'
    BY <1>1, <1>2 DEF LeaseTypes
<1>3. ASSUME NEW c \in Calls, cPc[c] # "idle", Answer(c) PROVE LeaseTypes'
    <2>1. ~cGone[c] => work[cLease[c]] \in Nat /\ cLease[c] \in Leases
        BY <1>1, <1>3 DEF CallsOK, CallOK, CallTypes
    <2>2. QED
        BY <1>1, <1>3, <2>1 DEF Answer, LeaseTypes
<1>4. ASSUME NEW c \in Calls,
             UpsertStep(c) \/ StartJob(c) \/ FinalizeList(c) \/ FinalizeSet(c)
      PROVE  LeaseTypes'
    BY <1>2, <1>3, <1>4 DEF UpsertStep, StartJob, FinalizeList, FinalizeSet
<1>5. ASSUME NEW c \in Calls, GiveUp(c) PROVE LeaseTypes'
    <2>1. work[cLease[c]] \in Nat /\ cLease[c] \in Leases
        BY <1>1, <1>5 DEF GiveUp, CallsOK, CallOK, CallTypes
    <2>2. QED
        BY <1>1, <1>5, <2>1 DEF GiveUp, LeaseTypes
<1>6. ASSUME NEW l \in Leases, Stale(l) PROVE LeaseTypes'
    <2>1. work[l] \in Nat /\ l <= nextLease
        BY <1>1, <1>6 DEF Stale, LeaseTypes, LeaseBook
    <2>2. leaseJob[l] \in Jobs
        BY <1>1, <2>1 DEF LeaseBook
    <2>3. LastCall(l) + 1 \in Nat
        BY <2>2, ViewConstants DEF LastCall
    <2>4. QED
        BY <1>1, <1>6, <2>3 DEF Stale, LeaseTypes
<1>7. ASSUME NEW l \in Leases, NEW c \in Calls, ReportStep(c, l) \/ CompleteJob(c, l)
      PROVE  LeaseTypes'
    BY <1>1, <1>7 DEF ReportStep, CompleteJob, Decide, LeaseTypes
<1>8. ASSUME LeaseRow PROVE LeaseTypes'
    <2>1. nextLease' \in 0..MaxLeases
        BY <1>1, <1>8, StoreConstants DEF LeaseRow, LeaseTypes
    <2>2. QED
        BY <1>1, <1>8, <2>1 DEF LeaseRow, LeaseTypes
<1>9. ASSUME Send PROVE LeaseTypes'
    BY <1>1, <1>9 DEF Send, LeaseTypes
<1>10. ASSUME \/ \E c \in Calls : \/ ListStepsForJob(c) \/ CompleteSetResult(c)
                                  \/ CompleteToRunning(c) \/ CompleteToTerminal(c)
                                  \/ GateSkip(c) \/ GateSkipResult(c) \/ Cancelled(c)
              \/ \E j \in Jobs : LeaseLapses(j)
              \/ ListNeeds \/ ReapJobs \/ WriteJSON \/ PageStep
       PROVE  UNCHANGED leases
    BY <1>10 DEF ListStepsForJob, CompleteSetResult, CompleteToRunning,
       CompleteToTerminal, GateSkip, GateSkipResult, Cancelled, LeaseLapses,
       ListNeeds, ReapJobs, WriteJSON, PageStep, runsGetHandler,
       runsGetJobHandler, Elsewhere
<1>11. QED
    BY <1>2, <1>4, <1>5, <1>6, <1>7, <1>8, <1>9, <1>10, PlanShape
    DEF Next, ServerStep, CallStep

(* A handler that goes on, is entered or is left keeps its types. *)
LEMMA CallTypesNext == TypeInv /\ [Next]_vars => CallTypes'
<1> SUFFICES ASSUME TypeInv, [Next]_vars PROVE CallTypes'
    OBVIOUS
<1> USE DEF vars, callVars
<1>1. LeaseTypes /\ CallTypes /\ CallsOK /\ RowTypes
    BY DEF TypeInv, Typed
<1>2. ASSUME UNCHANGED callVars PROVE CallTypes'
    BY <1>1, <1>2 DEF CallTypes
<1>3. ASSUME NEW c \in Calls, Leave(c) PROVE CallTypes'
    <2>1. NoStep \in StepRows /\ 0 \in 0..MaxLeases /\ 0 \in 0..MaxTime
        BY StoreConstants, ViewConstants DEF NoStep, StepRows, Statuses
    <2>2. QED
        BY <1>1, <1>3, <2>1 DEF Leave, CallTypes
<1>4. ASSUME NEW c \in Calls, NEW from, NEW to \in Reporting \cup Completing,
             Goto(c, from, to), cRead' \in [Calls -> StepRows], UNCHANGED cAt,
             cSkip' \in [Calls -> Jobs \cup {NoJob}],
             cRollUp' \in [Calls -> RunTerminal \cup {"queued"}]
      PROVE  CallTypes'
    BY <1>1, <1>4 DEF Goto, CallTypes
<1>5. ASSUME NEW c \in Calls, NEW l \in Leases, NEW to \in {"listSteps", "setResult"},
             work[l] # Unsent, Enter(c, l, to),
             UNCHANGED <<cRead, cSkip, cRollUp, cGone>>,
             cAt' \in [Calls -> 0..MaxTime]
      PROVE  CallTypes'
    <2>1. work[l] \in Nat /\ l \in 0..MaxLeases /\ leaseJob[l] \in Jobs \cup {NoJob}
        BY <1>1, <1>5, StoreConstants DEF LeaseTypes, Leases
    <2>2. to \in {"idle"} \cup Reporting \cup Completing
        BY DEF Reporting, Completing
    <2>3. QED
        BY <1>1, <1>5, <2>1, <2>2 DEF Enter, CallTypes
<1>6. ASSUME NEW c \in Calls, ListStepsForJob(c) PROVE CallTypes'
    <2>1. cPc[c] \in Reporting /\ cJob[c] \in Jobs
        BY <1>1, <1>6 DEF ListStepsForJob, Goto, CallsOK, CallOK, Reporting
    <2>2. steps[cJob[c]][StepOfCall(c)] \in StepRows
        BY <1>1, <2>1, StepRowTypes DEF RowTypes
    <2>3. cRead' \in [Calls -> StepRows]
        BY <1>1, <1>6, <2>2 DEF ListStepsForJob, CallTypes
    <2>4. QED
        BY <1>1, <1>4, <1>6, <2>3 DEF ListStepsForJob, Reporting, CallTypes
<1>7. ASSUME NEW c \in Calls, UpsertStep(c) \/ StartJob(c) PROVE CallTypes'
    BY <1>1, <1>3, <1>4, <1>7 DEF UpsertStep, StartJob, Answer, Reporting, CallTypes
<1>8. ASSUME NEW c \in Calls,
             CompleteSetResult(c) \/ CompleteToRunning(c) \/ CompleteToTerminal(c)
      PROVE  CallTypes'
    BY <1>1, <1>4, <1>8 DEF CompleteSetResult, CompleteToRunning, CompleteToTerminal,
       Completing, CallTypes
<1>9. ASSUME NEW c \in Calls, GateSkip(c) \/ GateSkipResult(c) PROVE CallTypes'
    <2>1. cSkip' \in [Calls -> Jobs \cup {NoJob}]
        BY <1>1, <1>9 DEF GateSkip, GateSkipResult, ToSkip, CallTypes
    <2>2. QED
        BY <1>1, <1>4, <1>9, <2>1 DEF GateSkip, GateSkipResult, Completing, CallTypes
<1>10. ASSUME NEW c \in Calls, FinalizeList(c) \/ FinalizeSet(c) PROVE CallTypes'
    <2>1. RollUp(RunOfCall(c), status) \in RunTerminal
        BY DEF RollUp, RunTerminal
    <2>2. QED
        BY <1>1, <1>3, <1>4, <1>10, <2>1
        DEF FinalizeList, FinalizeSet, Answer, Completing, CallTypes
<1>11. ASSUME NEW c \in Calls, GiveUp(c) \/ Cancelled(c) PROVE CallTypes'
    BY <1>1, <1>3, <1>11 DEF GiveUp, Cancelled, CallTypes
<1>12. ASSUME NEW l \in Leases, NEW c \in Calls, ReportStep(c, l) \/ CompleteJob(c, l)
       PROVE  CallTypes'
    <2>1. cAt' \in [Calls -> 0..MaxTime]
        BY <1>1, <1>12, ViewConstants DEF ReportStep, CompleteJob, CallTypes
    <2>2. QED
        BY <1>5, <1>12, <2>1 DEF ReportStep, CompleteJob
<1>13. ASSUME \/ \E l \in Leases : Stale(l)
              \/ \E j \in Jobs : LeaseLapses(j)
              \/ LeaseRow \/ ListNeeds \/ Send \/ ReapJobs \/ WriteJSON \/ PageStep
       PROVE  UNCHANGED callVars
    BY <1>13 DEF Stale, LeaseLapses, LeaseRow, ListNeeds, Send, ReapJobs, WriteJSON,
       PageStep, runsGetHandler, runsGetJobHandler, Elsewhere
<1>14. QED
    BY <1>2, <1>6, <1>7, <1>8, <1>9, <1>10, <1>11, <1>12, <1>13, PlanShape
    DEF Next, ServerStep, CallStep

(* The stream changes only by its own steps. *)
LEMMA StreamShape ==
    ASSUME [Next]_vars
    PROVE  LeaseRow \/ ListNeeds \/ Send \/ UNCHANGED streamVars
<1> USE DEF vars, streamVars
<1>1. ASSUME NEW c \in Calls, CallStep(c) \/ GiveUp(c) \/ Cancelled(c)
      PROVE  UNCHANGED streamVars
    BY <1>1 DEF CallStep, ListStepsForJob, UpsertStep, StartJob, CompleteSetResult,
       CompleteToRunning, CompleteToTerminal, GateSkip, GateSkipResult, FinalizeList,
       FinalizeSet, GiveUp, Cancelled
<1>2. ASSUME \/ \E l \in Leases : \/ Stale(l)
                                  \/ \E c \in Calls : ReportStep(c, l) \/ CompleteJob(c, l)
             \/ \E j \in Jobs : LeaseLapses(j)
             \/ ReapJobs \/ WriteJSON \/ PageStep
      PROVE  UNCHANGED streamVars
    BY <1>2 DEF Stale, ReportStep, CompleteJob, LeaseLapses, ReapJobs, WriteJSON,
       PageStep, runsGetHandler, runsGetJobHandler, Elsewhere
<1>3. QED
    BY <1>1, <1>2, PlanShape DEF Next, ServerStep

(* The stream keeps its types. *)
LEMMA StreamTypesNext == TypeInv /\ [Next]_vars => StreamTypes'
<1> SUFFICES ASSUME TypeInv, [Next]_vars PROVE StreamTypes'
    OBVIOUS
<1> USE DEF StreamTypes
<1>1. StreamTypes /\ StoreTypeOK
    BY DEF TypeInv, Typed, RowTypes
<1>2. ASSUME LeaseRow \/ Send PROVE StreamTypes'
    BY <1>1, <1>2 DEF LeaseRow, Send, NotTold
<1>3. ASSUME ListNeeds PROVE StreamTypes'
    <2>1. PICK pick \in [Needs[sJob] -> Jobs \cup {NoJob}] :
              told' = [y \in JobIds |->
                          IF y \in Needs[sJob] /\ pick[y] # NoJob THEN result[pick[y]]
                                                                ELSE NoResult]
        BY <1>3 DEF ListNeeds
    <2>2. \A y \in Needs[sJob] : pick[y] # NoJob => result[pick[y]] \in Terminal \cup {NoResult}
        BY <1>1, <2>1 DEF StoreTypeOK
    <2>3. sPc' = "send"
        BY <1>3 DEF ListNeeds
    <2>4. QED
        BY <2>1, <2>2, <2>3
<1>4. QED
    BY <1>1, <1>2, <1>3, StreamShape DEF streamVars
-----------------------------------------------------------------------------
(* How a step may change the parts of the state that the calls, the runners*)
(* and the lease book are made of.                                         *)

Same(c) ==
    /\ cPc'[c] = cPc[c] /\ cLease'[c] = cLease[c] /\ cJob'[c] = cJob[c]
    /\ cStep'[c] = cStep[c] /\ cRead'[c] = cRead[c] /\ cAt'[c] = cAt[c]
    /\ cSkip'[c] = cSkip[c] /\ cRollUp'[c] = cRollUp[c] /\ cGone'[c] = cGone[c]

Acts(c) ==
    \/ CallStep(c) \/ GiveUp(c) \/ Cancelled(c)
    \/ \E l \in Leases : ReportStep(c, l) \/ CompleteJob(c, l)

(* A call changes only by what its own handler and runner do. *)
LEMMA CallShapes ==
    ASSUME TypeInv, [Next]_vars, NEW c \in Calls
    PROVE  /\ Same(c) \/ Acts(c)
           /\ \A d \in Calls \ {c} : Acts(d) => Same(c)
<1> USE DEF vars, callVars, Same
<1>1. CallTypes
    BY DEF TypeInv, Typed
<1>2. ASSUME UNCHANGED callVars PROVE Same(c)
    BY <1>2
<1>3. ASSUME NEW d \in Calls \ {c}, Acts(d) PROVE Same(c)
    <2>1. ASSUME Leave(d) PROVE Same(c)
        BY <1>1, <1>3, <2>1 DEF Leave, CallTypes
    <2>2. ASSUME NEW from, NEW to, Goto(d, from, to), UNCHANGED cAt,
                 cRead'[c] = cRead[c], cSkip'[c] = cSkip[c], cRollUp'[c] = cRollUp[c]
          PROVE  Same(c)
        BY <1>1, <1>3, <2>2 DEF Goto, CallTypes
    <2>3. CASE ListStepsForJob(d) \/ UpsertStep(d) \/ StartJob(d)
        BY <1>1, <1>3, <2>1, <2>2, <2>3
        DEF ListStepsForJob, UpsertStep, StartJob, Answer, CallTypes
    <2>4. CASE CompleteSetResult(d) \/ CompleteToRunning(d) \/ CompleteToTerminal(d)
        BY <2>2, <2>4 DEF CompleteSetResult, CompleteToRunning, CompleteToTerminal
    <2>5. CASE GateSkip(d) \/ GateSkipResult(d)
        BY <1>1, <1>3, <2>2, <2>5 DEF GateSkip, GateSkipResult, CallTypes
    <2>6. CASE FinalizeList(d) \/ FinalizeSet(d) \/ Cancelled(d)
        BY <1>1, <1>3, <2>1, <2>2, <2>6
        DEF FinalizeList, FinalizeSet, Cancelled, Answer, CallTypes
    <2>7. CASE GiveUp(d)
        BY <1>1, <1>3, <2>7 DEF GiveUp, CallTypes
    <2>8. CASE \E l \in Leases : ReportStep(d, l) \/ CompleteJob(d, l)
        BY <1>1, <1>3, <2>8 DEF ReportStep, CompleteJob, Enter, CallTypes
    <2>9. QED
        BY <1>3, <2>3, <2>4, <2>5, <2>6, <2>7, <2>8 DEF Acts, CallStep
<1>4. ASSUME \/ \E l \in Leases : Stale(l)
             \/ \E j \in Jobs : LeaseLapses(j)
             \/ LeaseRow \/ ListNeeds \/ Send \/ ReapJobs \/ WriteJSON \/ PageStep
      PROVE  UNCHANGED callVars
    BY <1>4 DEF Stale, LeaseLapses, LeaseRow, ListNeeds, Send, ReapJobs, WriteJSON,
       PageStep, runsGetHandler, runsGetJobHandler, Elsewhere
<1>5. QED
    BY <1>2, <1>3, <1>4, PlanShape DEF Next, ServerStep, Acts

(* Only a runner that gives up and a report that reads steps are noted in  *)
(* the histories.                                                          *)
LEMMA HistoryShape ==
    ASSUME [Next]_vars
    PROVE  \/ UNCHANGED <<untidy, overlapped>>
           \/ \E c \in Calls : GiveUp(c) \/ ListStepsForJob(c)
BY PlanShape DEF Next, ServerStep, PageStep, vars, history, CallStep,
       UpsertStep, StartJob, CompleteSetResult,
       CompleteToRunning, CompleteToTerminal, GateSkip, GateSkipResult, FinalizeList,
       FinalizeSet, Cancelled, Stale, ReportStep, CompleteJob,
       LeaseRow, ListNeeds, Send, LeaseLapses, ReapJobs, WriteJSON,
       runsGetHandler, runsGetJobHandler, Elsewhere

(* A lease is granted as the next one, and an outcome is decided once. *)
LEMMA BookShape ==
    ASSUME TypeInv, [Next]_vars
    PROVE  /\ \/ UNCHANGED <<nextLease, leaseJob>>
              \/ LeaseRow
           /\ \A l \in Leases : \/ verdict'[l] = verdict[l]
                                \/ verdict[l] = NoResult /\ verdict'[l] \in Reports
<1> USE DEF vars, leases
<1>1. LeaseTypes
    BY DEF TypeInv, Typed
<1>2. ASSUME NEW l \in Leases, NEW c \in Calls, ReportStep(c, l) \/ CompleteJob(c, l)
      PROVE  /\ UNCHANGED <<nextLease, leaseJob>>
             /\ \A m \in Leases : \/ verdict'[m] = verdict[m]
                                  \/ verdict[m] = NoResult /\ verdict'[m] \in Reports
    BY <1>1, <1>2 DEF ReportStep, CompleteJob, Decide, LeaseTypes
<1>3. ASSUME NEW c \in Calls, CallStep(c) \/ GiveUp(c) \/ Cancelled(c)
      PROVE  UNCHANGED <<nextLease, leaseJob, verdict>>
    BY <1>3 DEF CallStep, ListStepsForJob, UpsertStep, StartJob, CompleteSetResult,
       CompleteToRunning, CompleteToTerminal, GateSkip, GateSkipResult, FinalizeList,
       FinalizeSet, Answer, GiveUp, Cancelled
<1>4. ASSUME \/ \E l \in Leases : Stale(l)
             \/ \E j \in Jobs : LeaseLapses(j)
             \/ ListNeeds \/ Send \/ ReapJobs \/ WriteJSON \/ PageStep
      PROVE  UNCHANGED <<nextLease, leaseJob, verdict>>
    BY <1>4 DEF Stale, LeaseLapses, ListNeeds, Send, ReapJobs, WriteJSON, PageStep,
       runsGetHandler, runsGetJobHandler, Elsewhere
<1>5. LeaseRow => UNCHANGED verdict
    BY DEF LeaseRow
<1>6. QED
    BY <1>2, <1>3, <1>4, <1>5, PlanShape DEF Next, ServerStep

Answers(c) == UpsertStep(c) \/ StartJob(c) \/ FinalizeList(c) \/ FinalizeSet(c)

(* How the progress of a lease's runner may change. *)
WorkShape(l) ==
    \/ work'[l] = work[l]
    \/ Send /\ l = nextLease /\ work'[l] = 0
    \/ Stale(l) /\ work'[l] = LastCall(l) + 1
    \/ \E c \in Calls : /\ Waiting(c) /\ cLease[c] = l
                        /\ ~Waiting(c)'
                        /\ \/ GiveUp(c) /\ work'[l] \in {work[l], work[l] + 1}
                           \/ Answers(c) /\ work'[l] = work[l] + 1

(* A runner goes on with an answer, when it gives up, or when its lease is *)
(* gone.                                                                   *)
LEMMA WorkShapes ==
    ASSUME TypeInv, [Next]_vars, NEW l \in Leases
    PROVE  WorkShape(l)
<1> USE DEF vars, leases, WorkShape
<1>1. LeaseTypes /\ CallTypes /\ CallsOK
    BY DEF TypeInv, Typed
<1>2. ASSUME NEW c \in Calls, Answer(c), cPc[c] # "idle", Answers(c)
      PROVE  WorkShape(l)
    <2>1. CASE cGone[c]
        BY <1>2, <2>1 DEF Answer
    <2>2. CASE ~cGone[c]
        <3>1. Waiting(c) /\ ~Waiting(c)'
            BY <1>1, <1>2, <2>2 DEF Waiting, Answer, Leave, CallTypes
        <3>2. work' = [work EXCEPT ![cLease[c]] = @ + 1]
            BY <1>2, <2>2 DEF Answer
        <3>3. cLease[c] \in Leases
            BY <1>1, <1>2 DEF CallsOK, CallOK
        <3>4. QED
            BY <1>1, <1>2, <3>1, <3>2, <3>3 DEF LeaseTypes
    <2>3. QED
        BY <2>1, <2>2
<1>3. ASSUME NEW c \in Calls, Answers(c) PROVE WorkShape(l)
    BY <1>2, <1>3 DEF Answers, UpsertStep, StartJob, FinalizeList, FinalizeSet
<1>4. ASSUME NEW c \in Calls, GiveUp(c) PROVE WorkShape(l)
    <2>1. Waiting(c) /\ ~Waiting(c)' /\ cLease[c] \in Leases
        BY <1>1, <1>4 DEF Waiting, GiveUp, CallTypes, CallsOK, CallOK
    <2>2. PICK more \in {0, 1} : work' = [work EXCEPT ![cLease[c]] = @ + more]
        BY <1>4 DEF GiveUp
    <2>3. work[cLease[c]] \in Int
        BY <1>1, <2>1 DEF LeaseTypes, Unsent
    <2>4. QED
        BY <1>1, <1>4, <2>1, <2>2, <2>3 DEF LeaseTypes
<1>5. ASSUME NEW m \in Leases, Stale(m) PROVE WorkShape(l)
    BY <1>1, <1>5 DEF Stale, LeaseTypes
<1>6. ASSUME Send PROVE WorkShape(l)
    BY <1>1, <1>6 DEF Send, LeaseTypes
<1>7. ASSUME \/ \E c \in Calls : \/ ListStepsForJob(c) \/ CompleteSetResult(c)
                                 \/ CompleteToRunning(c) \/ CompleteToTerminal(c)
                                 \/ GateSkip(c) \/ GateSkipResult(c) \/ Cancelled(c)
             \/ \E m \in Leases, c \in Calls : ReportStep(c, m) \/ CompleteJob(c, m)
             \/ \E j \in Jobs : LeaseLapses(j)
             \/ LeaseRow \/ ListNeeds \/ ReapJobs \/ WriteJSON \/ PageStep
      PROVE  UNCHANGED work
    BY <1>7 DEF ListStepsForJob, CompleteSetResult, CompleteToRunning,
       CompleteToTerminal, GateSkip, GateSkipResult, Cancelled, ReportStep, CompleteJob,
       LeaseLapses, LeaseRow, ListNeeds, ReapJobs, WriteJSON, PageStep,
       runsGetHandler, runsGetJobHandler, Elsewhere
<1>8. QED
    BY <1>3, <1>4, <1>5, <1>6, <1>7, PlanShape DEF Next, ServerStep, CallStep, Answers

(* The lease book stays in order. *)
LEMMA LeaseBookNext == TypeInv /\ [Next]_vars => LeaseBook'
<1> SUFFICES ASSUME TypeInv, [Next]_vars PROVE LeaseBook'
    OBVIOUS
<1>1. LeaseTypes /\ CallTypes /\ CallsOK /\ LeaseBook /\ StreamTypes
    BY DEF TypeInv, Typed
<1>2. ASSUME LeaseRow
      PROVE  /\ nextLease + 1 \in Leases /\ nextLease' = nextLease + 1
             /\ sPc = "idle" /\ sJob' \in Jobs
             /\ leaseJob' = [leaseJob EXCEPT ![nextLease + 1] = sJob']
             /\ UNCHANGED work
    BY <1>1, <1>2, StoreConstants DEF LeaseRow, LeaseTypes, Leases
<1>3. \A c \in Calls : Waiting(c) => /\ cLease[c] <= nextLease
                                     /\ work[cLease[c]] \in Nat
    BY <1>1 DEF Waiting, CallsOK, CallOK, LeaseBook, CallTypes
<1>4. (\A l \in Leases : leaseJob[l] \in Jobs <=> l <= nextLease)'
    <2>1. CASE UNCHANGED <<nextLease, leaseJob>>
        BY <1>1, <2>1 DEF LeaseBook
    <2>2. CASE LeaseRow
        <3> TAKE l \in Leases
        <3>1. l \in Nat /\ nextLease \in Nat
            BY <1>1, StoreConstants DEF LeaseTypes, Leases
        <3>2. CASE l = nextLease + 1
            BY <1>1, <1>2, <2>2, <3>1, <3>2 DEF LeaseTypes
        <3>3. CASE l # nextLease + 1
            <4>1. leaseJob'[l] = leaseJob[l]
                BY <1>1, <1>2, <2>2, <3>3 DEF LeaseTypes
            <4>2. QED
                BY <1>1, <1>2, <2>2, <3>1, <3>3, <4>1 DEF LeaseBook
        <3>4. QED
            BY <3>2, <3>3
    <2>3. QED
        BY <2>1, <2>2, BookShape
<1>5. ASSUME NEW l \in Leases, work'[l] # Unsent PROVE l <= nextLease'
    <2>1. nextLease <= nextLease'
        BY <1>1, <1>2, BookShape DEF LeaseTypes
    <2>2. l <= nextLease
        <3>1. CASE work'[l] = work[l]
            BY <1>1, <1>5, <3>1 DEF LeaseBook
        <3>2. CASE l = nextLease
            BY <1>1, <3>2 DEF LeaseTypes
        <3>3. CASE Stale(l)
            BY <1>1, <3>3 DEF LeaseBook, Stale
        <3>4. CASE \E c \in Calls : Waiting(c) /\ cLease[c] = l
            BY <1>3, <3>4
        <3>5. QED
            BY <3>1, <3>2, <3>3, <3>4, WorkShapes DEF WorkShape
    <2>3. QED
        BY <1>1, <2>1, <2>2, LeaseTypesNext DEF LeaseTypes, Leases
<1>6. ASSUME sPc' # "idle"
      PROVE  nextLease' \in Leases /\ leaseJob'[nextLease'] = sJob' /\ work'[nextLease'] = Unsent
    <2>1. CASE LeaseRow
        <3>1. work[nextLease + 1] = Unsent
            BY <1>1, <1>2, <2>1 DEF LeaseBook, LeaseTypes
        <3>2. QED
            BY <1>1, <1>2, <2>1, <3>1 DEF LeaseTypes
    <2>2. CASE ~LeaseRow
        <3>1. sPc # "idle" /\ sJob' = sJob /\ ~Send
            BY <1>6, <2>2, StreamShape DEF ListNeeds, Send, streamVars
        <3>2. UNCHANGED <<nextLease, leaseJob>>
            BY <2>2, BookShape
        <3>3. nextLease \in Leases /\ work[nextLease] = Unsent /\ leaseJob[nextLease] = sJob
            BY <1>1, <3>1 DEF LeaseBook
        <3>4. \A c \in Calls : Waiting(c) => cLease[c] # nextLease
            BY <1>3, <3>3 DEF Unsent
        <3>5. work'[nextLease] = work[nextLease]
            BY <3>1, <3>3, <3>4, WorkShapes DEF WorkShape, Stale
        <3>6. QED
            BY <3>1, <3>2, <3>3, <3>5
    <2>3. QED
        BY <2>1, <2>2
<1>7. QED
    BY <1>4, <1>5, <1>6 DEF LeaseBook

(* A waiting runner is not past its last call. *)
LEMMA WaitingBound ==
    ASSUME TypeInv, NEW c \in Calls, Waiting(c)
    PROVE  /\ cLease[c] \in Leases /\ cJob[c] \in Jobs /\ leaseJob[cLease[c]] = cJob[c]
           /\ LastCall(cLease[c]) = 2 * StepsOf[cJob[c]] /\ StepsOf[cJob[c]] \in Nat
           /\ work[cLease[c]] = cStep[c] /\ cStep[c] \in Nat
           /\ cStep[c] <= LastCall(cLease[c])
           /\ cPc[c] \in Reporting => cStep[c] < LastCall(cLease[c])
           /\ cPc[c] \in Completing => cStep[c] = LastCall(cLease[c])
<1>1. CallOK(c) /\ CallTypes
    BY DEF TypeInv, CallsOK, Typed
<1>2. cPc[c] \in Reporting \cup Completing
    BY <1>1 DEF Waiting, CallTypes
<1>3. StepsOf[cJob[c]] \in Nat
    BY <1>1, ViewConstants DEF Waiting, CallOK
<1>4. QED
    BY <1>1, <1>2, <1>3 DEF Waiting, CallOK, CallTypes, LastCall

(* No runner gets further than CompleteJob. *)
LEMMA WorkBoundNext == TypeInv /\ [Next]_vars => WorkBound'
<1> SUFFICES ASSUME TypeInv, [Next]_vars, NEW l \in Leases, work'[l] \in Nat
             PROVE  work'[l] <= LastCall(l)' + 1
    BY DEF WorkBound
<1>1. LeaseTypes /\ WorkBound /\ LeaseBook
    BY DEF TypeInv, Typed
<1>2. CASE LeaseRow
    <2>1. UNCHANGED work /\ work[l] # Unsent
        BY <1>2 DEF LeaseRow, Unsent
    <2>2. l <= nextLease
        BY <1>1, <2>1 DEF LeaseBook
    <2>3. leaseJob'[l] = leaseJob[l]
        BY <1>1, <1>2, <2>2 DEF LeaseRow, LeaseTypes
    <2>4. QED
        BY <1>1, <2>1, <2>3 DEF WorkBound, LastCall
<1>3. CASE ~LeaseRow
    <2>1. LastCall(l)' = LastCall(l)
        BY <1>3, BookShape DEF LastCall
    <2>2. CASE work'[l] = work[l]
        BY <1>1, <2>1, <2>2 DEF WorkBound
    <2>3. CASE Send /\ l = nextLease /\ work'[l] = 0
        <3>1. leaseJob[l] \in Jobs
            BY <1>1, <2>3 DEF LeaseBook, LeaseTypes
        <3>2. LastCall(l) \in Nat
            BY <3>1, ViewConstants DEF LastCall
        <3>3. QED
            BY <2>1, <2>3, <3>2
    <2>4. CASE Stale(l) /\ work'[l] = LastCall(l) + 1
        BY <2>1, <2>4
    <2>5. CASE \E c \in Calls : /\ Waiting(c) /\ cLease[c] = l
                                /\ work'[l] \in {work[l], work[l] + 1}
        BY <2>1, <2>5, WaitingBound
    <2>6. QED
        BY <2>2, <2>3, <2>4, <2>5, WorkShapes DEF WorkShape
<1>4. QED
    BY <1>2, <1>3

(* What was granted or decided stays. *)
LEMMA BookKept ==
    ASSUME TypeInv, [Next]_vars, NEW l \in Leases, leaseJob[l] \in Jobs
    PROVE  /\ leaseJob'[l] = leaseJob[l]
           /\ verdict[l] \in Reports => verdict'[l] \in Reports /\ verdict'[l] = verdict[l]
<1>1. LeaseTypes /\ LeaseBook
    BY DEF TypeInv, Typed
<1>2. NoResult \notin Reports
    BY ViewConstants, StoreConstants
<1>3. leaseJob'[l] = leaseJob[l]
    <2>1. CASE LeaseRow
        <3>1. l <= nextLease /\ nextLease \in Nat
            BY <1>1 DEF LeaseBook, LeaseTypes
        <3>2. l # nextLease + 1
            BY <3>1 DEF Leases
        <3>3. QED
            BY <1>1, <2>1, <3>2 DEF LeaseRow, LeaseTypes
    <2>2. QED
        BY <2>1, BookShape
<1>4. QED
    BY <1>2, <1>3, BookShape

(* A runner that goes on waiting for a call has not moved. *)
LEMMA WaitingKept ==
    ASSUME TypeInv, [Next]_vars, NEW c \in Calls, Waiting(c), Waiting(c)',
           Same(c) \/ Acts(c)
    PROVE  work'[cLease[c]] = work[cLease[c]]
<1>1. OneAtATime /\ LeaseBook
    BY DEF TypeInv
<1>2. DEFINE l == cLease[c]
<1>3. l \in Leases /\ work[l] \in Nat
    BY WaitingBound
<1>4. ~(Send /\ l = nextLease)
    BY <1>1, <1>3 DEF Send, LeaseBook, Unsent
<1>5. ~Stale(l)
    BY DEF Stale, Busy, Waiting
<1>6. \A d \in Calls : Waiting(d) /\ cLease[d] = l => d = c
    BY <1>1 DEF OneAtATime
<1>7. QED
    BY <1>3, <1>4, <1>5, <1>6, WorkShapes DEF WorkShape

(* What a call does with itself. *)
LEMMA CallsOKNext == TypeInv /\ [Next]_vars => CallsOK'
<1> SUFFICES ASSUME TypeInv, [Next]_vars, NEW c \in Calls PROVE CallOK(c)'
    BY DEF CallsOK
<1>1. CallOK(c) /\ CallTypes /\ LeaseTypes /\ LeaseBook
    BY DEF TypeInv, Typed, CallsOK
<1>2. CallTypes' /\ LeaseTypes'
    BY CallTypesNext, LeaseTypesNext
<1>3. untidy \subseteq untidy'
    BY HistoryShape DEF GiveUp, ListStepsForJob
<1>4. ASSUME cPc[c] # "idle"
      PROVE  /\ leaseJob'[cLease[c]] = cJob[c]
             /\ verdict[cLease[c]] \in Reports => verdict'[cLease[c]] \in Reports
    BY <1>1, <1>4, BookKept DEF CallOK
<1>5. CASE Same(c)
    <2>1. Waiting(c) => Waiting(c)' /\ work'[cLease[c]] = work[cLease[c]]
        BY <1>5, WaitingKept DEF Same, Waiting
    <2>2. CASE cPc[c] = "idle"
        BY <1>1, <1>5, <2>2 DEF Same, CallOK, Reporting, Completing
    <2>3. CASE cPc[c] # "idle"
        BY <1>1, <1>3, <1>4, <1>5, <2>1, <2>3 DEF Same, CallOK, Waiting
    <2>4. QED
        BY <2>2, <2>3
<1>6. ASSUME Leave(c) PROVE CallOK(c)'
    BY <1>1, <1>6 DEF Leave, CallOK, CallTypes, Reporting, Completing
<1>7. ASSUME NEW from, NEW to, Goto(c, from, to), Acts(c),
             \/ from \in Reporting /\ to \in Reporting
             \/ from \in Completing /\ to \in Completing \ {"setResult"},
             to = "startJob" => cStep[c] % 2 = 0,
             to = "gateResult" => cSkip'[c] \in Jobs
      PROVE  CallOK(c)'
    <2>1. /\ cPc[c] = from /\ cPc'[c] = to
          /\ cLease'[c] = cLease[c] /\ cJob'[c] = cJob[c]
          /\ cStep'[c] = cStep[c] /\ cGone'[c] = cGone[c]
        BY <1>1, <1>6, <1>7 DEF Goto, CallTypes
    <2>2. cPc[c] # "idle" /\ cPc'[c] # "idle"
        BY <1>7, <2>1 DEF Reporting, Completing
    <2>3. Waiting(c) => work'[cLease[c]] = work[cLease[c]]
        BY <1>7, <2>1, <2>2, WaitingKept DEF Waiting
    <2>4. from \in Reporting => from \notin Completing /\ to \notin Completing
        BY <1>7 DEF Reporting, Completing
    <2>5. from \in Completing => from \notin Reporting /\ to \notin Reporting
        BY <1>7 DEF Reporting, Completing
    <2>6. to # "setResult"
        BY <1>7 DEF Reporting
    <2>7. QED
        BY <1>1, <1>3, <1>4, <1>7, <2>1, <2>2, <2>3, <2>4, <2>5, <2>6 DEF CallOK, Waiting
<1>8. CASE ListStepsForJob(c) \/ UpsertStep(c) \/ StartJob(c)
    <2>1. UpsertStep(c) /\ PhaseOfCall(c) = "running" => cStep[c] % 2 = 0
        BY StepRowTypes DEF UpsertStep, Reporting
    <2>2. QED
        BY <1>6, <1>7, <1>8, <2>1 DEF Acts, CallStep, ListStepsForJob, UpsertStep,
           StartJob, Answer, Reporting
<1>9. CASE CompleteSetResult(c) \/ CompleteToRunning(c) \/ CompleteToTerminal(c)
    BY <1>7, <1>9 DEF Acts, CallStep, CompleteSetResult, CompleteToRunning,
       CompleteToTerminal, Completing
<1>10. CASE GateSkip(c)
    <2>1. cSkip'[c] \in Jobs
        BY <1>1, <1>10 DEF GateSkip, ToSkip, CallTypes
    <2>2. QED
        BY <1>7, <1>10, <2>1 DEF Acts, CallStep, GateSkip, Completing
<1>11. CASE GateSkipResult(c)
    BY <1>7, <1>11 DEF Acts, CallStep, GateSkipResult, Completing
<1>12. CASE FinalizeList(c) \/ FinalizeSet(c) \/ Cancelled(c)
    BY <1>6, <1>7, <1>12 DEF Acts, CallStep, FinalizeList, FinalizeSet, Cancelled,
       Answer, Completing
<1>13. CASE GiveUp(c)
    <2>1. /\ cPc'[c] = cPc[c] /\ cLease'[c] = cLease[c] /\ cJob'[c] = cJob[c]
          /\ cStep'[c] = cStep[c] /\ cGone'[c] /\ cJob[c] \in untidy'
          /\ cPc[c] \in Reporting
        BY <1>1, <1>13 DEF GiveUp, CallTypes, Reporting
    <2>2. cPc[c] \notin Completing \cup {"idle"}
        BY <2>1 DEF Reporting, Completing
    <2>3. QED
        BY <1>1, <1>4, <2>1, <2>2 DEF CallOK, Completing
<1>14. ASSUME NEW l \in Leases, NEW to, Enter(c, l, to), GetByLease(l) # {},
              work[l] \in Nat, UNCHANGED <<work, cGone>>
       PROVE  /\ cPc[c] = "idle" /\ ~cGone[c] /\ ~cGone'[c] /\ cPc'[c] = to
              /\ cLease'[c] = l /\ cJob'[c] = leaseJob[l] /\ cStep'[c] = work[l]
              /\ work'[l] = work[l]
              /\ leaseJob[l] \in Jobs /\ leaseJob'[l] = leaseJob[l]
              /\ LastCall(l) = 2 * StepsOf[leaseJob[l]]
    <2>1. cPc[c] = "idle" /\ ~cGone[c]
        BY <1>1, <1>14 DEF Enter, CallOK, Reporting
    <2>2. work[l] # Unsent
        BY <1>14 DEF Unsent
    <2>3. leaseJob[l] \in Jobs
        BY <1>1, <2>2 DEF LeaseBook
    <2>4. QED
        BY <1>1, <1>14, <2>1, <2>3, BookKept DEF Enter, CallTypes, LastCall
<1>15. ASSUME NEW l \in Leases, ReportStep(c, l) PROVE CallOK(c)'
    <2>1. work[l] \in Nat /\ work[l] < LastCall(l)
        BY <1>1, <1>15 DEF ReportStep, LeaseTypes
    <2>2. work[l] % 2 # 0 => verdict'[l] \in Reports
        BY <1>1, <1>15 DEF ReportStep, Decide, LeaseTypes
    <2>3. "listSteps" \notin Completing \cup {"idle"}
        BY DEF Completing
    <2>4. QED
        BY <1>14, <1>15, <2>1, <2>2, <2>3 DEF ReportStep, CallOK
<1>16. ASSUME NEW l \in Leases, CompleteJob(c, l) PROVE CallOK(c)'
    <2>1. work[l] \in Nat /\ work[l] = LastCall(l)
        BY <1>1, <1>16 DEF CompleteJob, LeaseTypes
    <2>2. verdict'[l] \in Reports
        BY <1>1, <1>16 DEF CompleteJob, Decide, LeaseTypes
    <2>3. cAt'[c] # 0
        BY <1>1, <1>16, ViewConstants DEF CompleteJob, CallTypes
    <2>4. "setResult" \notin Reporting \cup {"idle"}
        BY DEF Reporting
    <2>5. QED
        BY <1>14, <1>16, <2>1, <2>2, <2>3, <2>4 DEF CompleteJob, CallOK
<1>17. QED
    BY <1>5, <1>8, <1>9, <1>10, <1>11, <1>12, <1>13, <1>15, <1>16, CallShapes
    DEF Acts, CallStep

(* Only a runner that waits for nothing makes another call. *)
LEMMA OneAtATimeNext == TypeInv /\ [Next]_vars => OneAtATime'
<1> SUFFICES ASSUME TypeInv, [Next]_vars, NEW c \in Calls, NEW d \in Calls, c # d,
                    Waiting(c)', Waiting(d)', cLease'[c] = cLease'[d]
             PROVE  FALSE
    BY DEF OneAtATime
<1>1. OneAtATime /\ CallTypes
    BY DEF TypeInv, Typed
<1>2. ASSUME NEW e \in Calls, NEW f \in Calls, e # f, Same(f), Waiting(e)', Waiting(f)',
             cLease'[e] = cLease'[f]
      PROVE  Same(e) \/ Acts(e) => FALSE
    <2>1. Waiting(f) /\ cLease'[f] = cLease[f]
        BY <1>2 DEF Same, Waiting
    <2>2. CASE \E l \in Leases : ReportStep(e, l) \/ CompleteJob(e, l)
        <3>1. PICK l \in Leases : \E to : Enter(e, l, to)
            BY <2>2 DEF ReportStep, CompleteJob
        <3>2. cLease'[e] = l
            BY <1>1, <3>1 DEF Enter, CallTypes
        <3>3. QED
            BY <1>2, <2>1, <3>1, <3>2 DEF Enter, Busy, Waiting
    <2>3. CASE Same(e)
        BY <1>1, <1>2, <2>1, <2>3 DEF Same, Waiting, OneAtATime
    <2>4. CASE CallStep(e) \/ GiveUp(e) \/ Cancelled(e)
        <3>1. cPc[e] # "idle"
            BY <2>4, <1>1 DEF CallStep, ListStepsForJob, UpsertStep, StartJob,
               CompleteSetResult, CompleteToRunning, CompleteToTerminal, GateSkip,
               GateSkipResult, FinalizeList, FinalizeSet, Goto, GiveUp, Cancelled, Leave,
               Waiting, TypeInv, CallsOK, CallOK, Reporting
        <3>2. ~Leave(e)
            BY <1>1, <1>2 DEF Leave, Waiting, CallTypes
        <3>3. ~GiveUp(e) /\ ~Cancelled(e)
            BY <1>1, <1>2, <3>2 DEF GiveUp, Cancelled, Waiting, CallTypes
        <3>4. \E from, to : Goto(e, from, to)
            BY <2>4, <3>2, <3>3 DEF CallStep, ListStepsForJob, UpsertStep, StartJob,
               CompleteSetResult, CompleteToRunning, CompleteToTerminal, GateSkip,
               GateSkipResult, FinalizeList, FinalizeSet, Answer
        <3>5. Waiting(e) /\ cLease'[e] = cLease[e]
            BY <1>2, <3>1, <3>4 DEF Goto, Waiting
        <3>6. QED
            BY <1>1, <1>2, <2>1, <3>5 DEF OneAtATime
    <2>5. QED
        BY <2>2, <2>3, <2>4 DEF Acts
<1>3. Same(c) \/ Same(d)
    BY CallShapes
<1>4. QED
    BY <1>2, <1>3, CallShapes

(* The histories name rows. *)
LEMMA HistoryNext == TypeInv /\ [Next]_vars => HistoryOK'
<1> SUFFICES ASSUME TypeInv, [Next]_vars PROVE HistoryOK'
    OBVIOUS
<1>1. HistoryOK /\ CallsOK
    BY DEF TypeInv
<1>2. ASSUME NEW c \in Calls, GiveUp(c) \/ ListStepsForJob(c) PROVE HistoryOK'
    <2>1. cJob[c] \in Jobs
        BY <1>1, <1>2 DEF GiveUp, ListStepsForJob, Goto, CallsOK, CallOK
    <2>2. QED
        BY <1>1, <1>2, <2>1 DEF GiveUp, ListStepsForJob, HistoryOK
<1>3. QED
    BY <1>1, <1>2, HistoryShape DEF HistoryOK

(* The whole of TypeInv is inductive. *)
LEMMA TypeNext == TypeInv /\ [Next]_vars => TypeInv'
BY RowTypesNext, PlanTypesNext, LeaseTypesNext, CallTypesNext, StreamTypesNext,
   LeaseBookNext, WorkBoundNext, CallsOKNext, OneAtATimeNext, HistoryNext
DEF TypeInv, Typed

(* Every column and every local variable of a handler keeps its type, for  *)
(* any number of rows, steps, calls and leases.                            *)
THEOREM ViewsTyped == Spec => []TypeOK
BY TypeInit, TypeNext, TypeInvTypes, PTL DEF Spec
-----------------------------------------------------------------------------
(* Row j was never handed out. *)
Ungranted(j) == \A l \in Leases : leaseJob[l] # j

(* The runner of one of row j's leases came to the outcome res. *)
RanTo(j, res) == \E l \in Leases : leaseJob[l] = j /\ verdict[l] = res

(* Nothing is there before its run, a row comes after all it needs, and    *)
(* only rows that are there are handed out.                                *)
PlannedRows ==
    /\ \A j \in Jobs : status[j] # "absent" =>
           /\ plan[RunOf[j]] # "new"
           /\ \A n \in NeedRows(j) : status[n] # "absent"
    /\ \A l \in Leases : leaseJob[l] \in Jobs => status[leaseJob[l]] # "absent"

(* A row holds a lease that was granted for it, and none while it is       *)
(* queued.                                                                 *)
RowsHoldGrants ==
    \A j \in Jobs : /\ lease[j] # 0 => leaseJob[lease[j]] = j
                    /\ status[j] = "queued" => lease[j] = 0

(* A row that was handed out can no longer be skipped by rule, not even    *)
(* when it was requeued.                                                   *)
GrantedLeasable ==
    \A l \in Leases : leaseJob[l] \in Jobs => Leasable(leaseJob[l], status)

(* CompleteJob stores the result before it looks at the status. *)
ResultFirst ==
    \A c \in Calls : cPc[c] \in Completing \ {"setResult"} => result[cJob[c]] # NoResult

(* A finished row has an outcome one of its runners came to, with a result *)
(* stored, or was skipped without a runner.                                *)
StatusFounded ==
    \A j \in Jobs : status[j] \in Terminal =>
        \/ RanTo(j, status[j]) /\ result[j] # NoResult
        \/ status[j] = "skipped" /\ Ungranted(j)

(* A stored result has a time, and is what one of the row's runners came   *)
(* to or the skip of the row.                                              *)
ResultFounded ==
    \A j \in Jobs : result[j] # NoResult =>
        /\ finishedAt[j] # 0
        /\ \/ RanTo(j, result[j])
           \/ result[j] = "skipped" /\ status[j] = "skipped" /\ Ungranted(j)

(* What a gate has skipped and not yet given a result stays skipped. *)
SkipsUngranted ==
    \A c \in Calls : cPc[c] = "gateResult" =>
        status[cSkip[c]] = "skipped" /\ Ungranted(cSkip[c])

(* Run u is complete for good, and its rows add up to the status s. *)
OverWith(u, s) ==
    /\ plan[u] \notin {"new", "inserting"}
    /\ RunComplete(u, status)
    /\ s = RollUp(u, status)

(* A run that is rolled up, or is about to be, is complete, unless its     *)
(* status was or will be set before its time.                              *)
RunsFounded ==
    /\ \A u \in Runs \ early : runStatus[u] \in RunTerminal => OverWith(u, runStatus[u])
    /\ \A c \in Calls : cPc[c] = "setRun" /\ RunOfCall(c) \notin early =>
           OverWith(RunOfCall(c), cRollUp[c])

RowInv ==
    /\ TypeInv
    /\ PlannedRows /\ RowsHoldGrants /\ GrantedLeasable
    /\ ResultFirst /\ StatusFounded /\ ResultFounded /\ SkipsUngranted
    /\ RunsFounded

(* The start: every row waits in the queue or is still to be planned. *)
LEMMA RowInit == Init => RowInv
<1> SUFFICES ASSUME Init PROVE RowInv
    OBVIOUS
<1>1. TypeInv
    BY TypeInit
<1>2. RowsHoldGrants /\ ResultFirst /\ SkipsUngranted
    BY DEF Init, RowsHoldGrants, ResultFirst, SkipsUngranted, Completing
<1>3. PlannedRows
    <2>1. ASSUME NEW j \in Jobs, status[j] # "absent", NEW n \in NeedRows(j)
          PROVE  status[n] # "absent"
        BY <2>1, NeedRowsFacts DEF Init
    <2>2. ASSUME NEW j \in Jobs, status[j] # "absent" PROVE plan[RunOf[j]] # "new"
        BY <2>2, WorkflowTypes DEF Init
    <2>3. \A l \in Leases : leaseJob[l] \notin Jobs
        BY ViewConstants DEF Init
    <2>4. QED
        BY <2>1, <2>2, <2>3 DEF PlannedRows
<1>4. GrantedLeasable
    BY ViewConstants DEF Init, GrantedLeasable
<1>5. StatusFounded /\ ResultFounded
    BY DEF Init, StatusFounded, ResultFounded, Terminal
<1>6. RunsFounded
    BY DEF Init, RunsFounded, RunTerminal
<1>7. QED
    BY <1>1, <1>2, <1>3, <1>4, <1>5, <1>6 DEF RowInv

(* How a row and its lease may change. *)
RowShape(j) ==
    \/ lease'[j] = lease[j] /\ status'[j] = status[j]
    \/ /\ lease'[j] = lease[j] /\ status[j] = "queued" /\ status'[j] = "skipped"
       /\ SkipByRule(j, status)
    \/ /\ LeaseRow
       /\ lease'[j] = nextLease' /\ status[j] = "queued" /\ status'[j] = "leased"
       /\ Leasable(j, status) /\ leaseJob'[nextLease'] = j
    \/ lease'[j] = lease[j] /\ status[j] = "leased" /\ status'[j] = "running"
    \/ /\ lease'[j] = lease[j] /\ status[j] = "running"
       /\ \E c \in Calls : /\ cPc[c] = "toTerminal" /\ CompleteToTerminal(c)
                           /\ cJob[c] = j /\ status'[j] = verdict[cLease[c]]
    \/ lease'[j] = 0 /\ status[j] = "leased" /\ status'[j] = "queued"
    \/ /\ lease'[j] = lease[j] /\ status[j] = "absent" /\ status'[j] = "queued"
       /\ plan[RunOf[j]] = "inserting"
       /\ \A n \in NeedRows(j) : status[n] # "absent"

(* No statement changes a row and its lease in any other way. *)
LEMMA RowShapes ==
    ASSUME TypeInv, [Next]_vars, NEW j \in Jobs
    PROVE  RowShape(j)
<1> USE DEF vars, tables, jobsTable, RowShape
<1>1. StoreTypeOK /\ CallsOK /\ LeaseTypes
    BY DEF TypeInv, Typed, RowTypes
<1>2. ASSUME UNCHANGED <<status, lease>> PROVE RowShape(j)
    BY <1>2
<1>3. ASSUME NEW c \in Calls, StartJob(c) \/ CompleteToRunning(c) PROVE RowShape(j)
    <2>1. cJob[c] \in Jobs /\ TransitionStatus(cJob[c], "leased", "running")
        BY <1>1, <1>3 DEF StartJob, CompleteToRunning, Goto, CallsOK, CallOK
    <2>2. QED
        BY <1>1, <2>1, TransitionEffect DEF StoreTypeOK
<1>4. ASSUME NEW c \in Calls, CompleteToTerminal(c) PROVE RowShape(j)
    <2>1. /\ cJob[c] \in Jobs /\ cPc[c] = "toTerminal"
          /\ TransitionStatus(cJob[c], "running", verdict[cLease[c]])
        BY <1>1, <1>4 DEF CompleteToTerminal, Goto, CallsOK, CallOK
    <2>2. QED
        BY <1>1, <1>4, <2>1, TransitionEffect DEF StoreTypeOK
<1>5. ASSUME NEW c \in Calls, GateSkip(c) PROVE RowShape(j)
    <2>1. PICK k \in Jobs : SkipByRule(k, status) /\ TransitionStatus(k, "queued", "skipped")
        BY <1>5 DEF GateSkip, ToSkip
    <2>2. QED
        BY <1>1, <2>1, TransitionEffect DEF StoreTypeOK
<1>6. ASSUME LeaseRow PROVE RowShape(j)
    <2>1. PICK k \in Jobs, r \in Runners :
              /\ status[k] = "queued" /\ Leasable(k, status)
              /\ Lease(k, nextLease + 1, r)
              /\ leaseJob' = [leaseJob EXCEPT ![nextLease + 1] = k]
        BY <1>6 DEF LeaseRow
    <2>2. nextLease' = nextLease + 1 /\ nextLease + 1 \in Leases
        BY <1>1, <1>6, StoreConstants DEF LeaseRow, LeaseTypes, Leases
    <2>3. /\ status' = [status EXCEPT ![k] = "leased"]
          /\ lease' = [lease EXCEPT ![k] = nextLease + 1]
        BY <2>1 DEF Lease, LeaseApplies
    <2>4. QED
        BY <1>1, <1>6, <2>1, <2>2, <2>3 DEF StoreTypeOK, LeaseTypes
<1>7. ASSUME ReapJobs PROVE RowShape(j)
    BY <1>1, <1>7 DEF ReapJobs, RequeueExpired, ExpiredRows, StoreTypeOK
<1>8. ASSUME \/ \E c \in Calls : \/ ListStepsForJob(c) \/ UpsertStep(c)
                                 \/ CompleteSetResult(c) \/ GateSkipResult(c)
                                 \/ FinalizeList(c) \/ FinalizeSet(c)
                                 \/ GiveUp(c) \/ Cancelled(c)
             \/ \E l \in Leases : \/ Stale(l)
                                  \/ \E c \in Calls : ReportStep(c, l) \/ CompleteJob(c, l)
             \/ \E k \in Jobs : LeaseLapses(k)
             \/ ListNeeds \/ Send \/ WriteJSON \/ PageStep
      PROVE  UNCHANGED <<status, lease>>
    BY <1>8 DEF ListStepsForJob, UpsertStep, CompleteSetResult, GateSkipResult,
       SetResultAt, SetResult, FinalizeList, FinalizeSet, GiveUp, Cancelled, Stale,
       ReportStep, CompleteJob, LeaseLapses, ListNeeds, Send, WriteJSON, PageStep,
       runsGetHandler, runsGetJobHandler, Elsewhere
<1>9. ASSUME NEW u \in Runs, PlanStep(u) PROVE RowShape(j)
    <2>1. lease' = lease
        BY <1>9, PlanShape
    <2>2. ASSUME InsertJob(u) PROVE RowShape(j)
        <3>1. PICK k \in Missing(u) : /\ \A m \in Missing(u) : Stage[k] <= Stage[m]
                                      /\ CreateJob(k) /\ plan[u] = "inserting"
            BY <2>2 DEF InsertJob
        <3>2. k \in Jobs /\ RunOf[k] = u /\ status[k] = "absent"
            BY DEF Missing
        <3>3. ASSUME NEW n \in NeedRows(k) PROVE status[n] # "absent"
            <4>1. n \in Jobs /\ RunOf[n] = u /\ Stage[n] < Stage[k]
                BY <3>2, NeedRowsFacts
            <4>2. Stage[n] \in Nat /\ Stage[k] \in Nat
                BY <3>2, <4>1, WorkflowTypes
            <4>3. QED
                BY <3>1, <4>1, <4>2 DEF Missing
        <3>4. CASE j = k
            BY <1>1, <2>1, <3>1, <3>2, <3>3, <3>4 DEF CreateJob, StoreTypeOK
        <3>5. CASE j # k
            BY <1>1, <2>1, <3>1, <3>5 DEF CreateJob, StoreTypeOK
        <3>6. QED
            BY <3>4, <3>5
    <2>3. ASSUME CreateRun(u) \/ CreateJobFails(u) \/ PlanFails(u) PROVE status' = status
        BY <2>3 DEF CreateRun, CreateJobFails, PlanFails
    <2>4. QED
        BY <1>9, <2>1, <2>2, <2>3 DEF PlanStep
<1>10. QED
    BY <1>2, <1>3, <1>4, <1>5, <1>6, <1>7, <1>8, <1>9 DEF Next, ServerStep, CallStep

(* How a row's result, and the time with it, may change. *)
ResultShape(j) ==
    \/ result'[j] = result[j] /\ finishedAt'[j] = finishedAt[j]
    \/ \E c \in Calls : /\ CompleteSetResult(c) /\ cPc[c] = "setResult" /\ cJob[c] = j
                        /\ result'[j] = verdict[cLease[c]] /\ finishedAt'[j] = cAt[c]
    \/ \E c \in Calls : /\ GateSkipResult(c) /\ cPc[c] = "gateResult" /\ cSkip[c] = j
                        /\ result'[j] = "skipped" /\ finishedAt'[j] # 0

(* A result comes from CompleteJob or from skipJob. *)
LEMMA ResultShapes ==
    ASSUME TypeInv, [Next]_vars, NEW j \in Jobs
    PROVE  ResultShape(j)
<1> USE DEF vars, tables, jobsTable, wideRows, ResultShape
<1>1. RowTypes /\ StoreTypeOK /\ CallsOK
    BY DEF TypeInv, Typed, RowTypes
<1>2. ASSUME UNCHANGED <<result, finishedAt>> PROVE ResultShape(j)
    BY <1>2
<1>3. ASSUME NEW c \in Calls, CompleteSetResult(c) PROVE ResultShape(j)
    BY <1>1, <1>3 DEF CompleteSetResult, SetResultAt, SetResult, Goto, RowTypes, StoreTypeOK
<1>4. ASSUME NEW c \in Calls, GateSkipResult(c) PROVE ResultShape(j)
    <2>1. PICK t \in 1..MaxTime : SetResultAt(cSkip[c], "skipped", t)
        BY <1>4 DEF GateSkipResult
    <2>2. t # 0 /\ cPc[c] = "gateResult"
        BY <1>4, ViewConstants DEF GateSkipResult, Goto
    <2>3. QED
        BY <1>1, <1>4, <2>1, <2>2 DEF SetResultAt, SetResult, RowTypes, StoreTypeOK
<1>5. ASSUME NEW c \in Calls,
             \/ StartJob(c) \/ CompleteToRunning(c) \/ CompleteToTerminal(c) \/ GateSkip(c)
      PROVE  UNCHANGED <<result, finishedAt>>
    BY <1>5 DEF StartJob, CompleteToRunning, CompleteToTerminal, GateSkip, TransitionStatus
<1>6. ASSUME LeaseRow \/ ReapJobs PROVE UNCHANGED <<result, finishedAt>>
    BY <1>6 DEF LeaseRow, Lease, LeaseApplies, ReapJobs, RequeueExpired
<1>7. ASSUME \/ \E c \in Calls : \/ ListStepsForJob(c) \/ UpsertStep(c)
                                 \/ FinalizeList(c) \/ FinalizeSet(c)
                                 \/ GiveUp(c) \/ Cancelled(c)
             \/ \E l \in Leases : \/ Stale(l)
                                  \/ \E c \in Calls : ReportStep(c, l) \/ CompleteJob(c, l)
             \/ \E k \in Jobs : LeaseLapses(k)
             \/ ListNeeds \/ Send \/ WriteJSON \/ PageStep
      PROVE  UNCHANGED <<result, finishedAt>>
    BY <1>7 DEF ListStepsForJob, UpsertStep, FinalizeList, FinalizeSet, GiveUp,
       Cancelled, Stale, ReportStep, CompleteJob, LeaseLapses, ListNeeds, Send,
       WriteJSON, PageStep, runsGetHandler, runsGetJobHandler, Elsewhere
<1>8. QED
    BY <1>2, <1>3, <1>4, <1>5, <1>6, <1>7, PlanShape DEF Next, ServerStep, CallStep

(* What the planner and the roll-ups do to a run. *)
LEMMA PlanKept ==
    ASSUME TypeInv, [Next]_vars
    PROVE  /\ early \subseteq early'
           /\ \A u \in Runs : plan[u] # "new" => plan'[u] # "new"
           /\ \A u \in Runs : plan[u] \notin {"new", "inserting"}
                                => plan'[u] \notin {"new", "inserting"}
<1> USE DEF vars, history
<1>1. PlanTypes
    BY DEF TypeInv, Typed
<1>2. ASSUME NEW v \in Runs, PlanStep(v)
      PROVE  /\ early \subseteq early'
             /\ \A u \in Runs : plan[u] # "new" => plan'[u] # "new"
             /\ \A u \in Runs : plan[u] \notin {"new", "inserting"}
                                  => plan'[u] \notin {"new", "inserting"}
    BY <1>1, <1>2 DEF PlanTypes, PlanStep, CreateRun, InsertJob, CreateJobFails, PlanFails
<1>3. ASSUME NEW c \in Calls, FinalizeList(c) PROVE plan' = plan /\ early \subseteq early'
    BY <1>3 DEF FinalizeList
<1>4. ASSUME \/ \E c \in Calls : \/ GiveUp(c) \/ Cancelled(c)
                                 \/ CallStep(c) /\ ~FinalizeList(c)
             \/ \E l \in Leases : \/ Stale(l)
                                  \/ \E c \in Calls : ReportStep(c, l) \/ CompleteJob(c, l)
             \/ \E j \in Jobs : LeaseLapses(j)
             \/ LeaseRow \/ ListNeeds \/ Send \/ ReapJobs \/ WriteJSON \/ PageStep
      PROVE  UNCHANGED <<plan, early>>
    BY <1>4 DEF CallStep, ListStepsForJob, UpsertStep, StartJob, CompleteSetResult,
       CompleteToRunning, CompleteToTerminal, GateSkip, GateSkipResult, FinalizeSet,
       GiveUp, Cancelled, Stale, ReportStep, CompleteJob, LeaseLapses, LeaseRow,
       ListNeeds, Send, ReapJobs, WriteJSON, PageStep, runsGetHandler,
       runsGetJobHandler, Elsewhere
<1>5. QED
    BY <1>2, <1>3, <1>4 DEF Next, ServerStep

(* How a run's status may change. *)
RunShape(u) ==
    \/ runStatus'[u] = runStatus[u]
    \/ plan[u] = "new" /\ runStatus'[u] = "queued"
    \/ u \in early'
    \/ \E c \in Calls : /\ FinalizeSet(c) /\ cPc[c] = "setRun" /\ RunOfCall(c) = u
                        /\ runStatus'[u] = cRollUp[c]

(* A run's status comes from the planner or from finalizeRunIfComplete. *)
LEMMA RunShapes ==
    ASSUME TypeInv, [Next]_vars, NEW u \in Runs
    PROVE  RunShape(u)
<1> USE DEF vars, tables, RunShape
<1>1. StoreTypeOK /\ CallsOK
    BY DEF TypeInv, Typed, RowTypes
<1>2. ASSUME NEW c \in Calls, FinalizeSet(c) PROVE RunShape(u)
    <2>1. PICK v \in Runs : /\ v = RunOfCall(c)
                            /\ runStatus' = [runStatus EXCEPT ![v] = cRollUp[c]]
        BY <1>1, <1>2, WorkflowTypes DEF FinalizeSet, SetRunStatus, RunOfCall, CallsOK, CallOK
    <2>2. u # v => runStatus'[u] = runStatus[u]
        BY <1>1, <2>1 DEF StoreTypeOK
    <2>3. runStatus'[v] = cRollUp[c] /\ cPc[c] = "setRun"
        BY <1>1, <1>2, <2>1 DEF StoreTypeOK, FinalizeSet
    <2>4. QED
        BY <1>2, <2>1, <2>2, <2>3
<1>3. ASSUME NEW v \in Runs, PlanStep(v) PROVE RunShape(u)
    BY <1>1, <1>3 DEF PlanStep, CreateRun, InsertJob, CreateJobFails, PlanFails,
       SetRunStatus, StoreTypeOK
<1>4. CASE UNCHANGED runStatus
    BY <1>4
<1>5. QED
    BY <1>2, <1>3, <1>4 DEF Next, ServerStep, PageStep, CallStep, ListStepsForJob, UpsertStep,
       StartJob, CompleteSetResult, CompleteToRunning, CompleteToTerminal, GateSkip,
       GateSkipResult, FinalizeList, GiveUp, Cancelled, Stale, ReportStep, CompleteJob,
       LeaseRow, ListNeeds, Send, LeaseLapses, ReapJobs, WriteJSON,
       runsGetHandler, runsGetJobHandler, Elsewhere

(* A finished row stays as it is. *)
LEMMA RowsFinal ==
    ASSUME TypeInv, [Next]_vars, NEW j \in Jobs, status[j] \in Terminal
    PROVE  status'[j] = status[j] /\ lease'[j] = lease[j]
BY RowShapes DEF RowShape, Terminal

(* A row is skipped by rule only if the rules do not let it be leased. *)
LEMMA SkippedUngranted ==
    ASSUME RowInv, NEW j \in Jobs, SkipByRule(j, status)
    PROVE  Ungranted(j)
<1>1. ~Leasable(j, status)
    BY DEF SkipByRule, Leasable
<1>2. QED
    BY <1>1 DEF RowInv, GrantedLeasable, Ungranted

(* What is settled about a row or a run stays settled. *)
LEMMA SettledStays ==
    ASSUME RowInv, [Next]_vars
    PROVE  /\ \A j \in Jobs : status[j] # "absent" /\ Leasable(j, status)
                                => Leasable(j, status')
           /\ \A u \in Runs : \A s : OverWith(u, s) => OverWith(u, s)'
           /\ \A j \in Jobs : status[j] # "absent" => status'[j] # "absent"
<1>1. TypeInv /\ StoreTypeOK /\ PlannedRows
    BY DEF RowInv, TypeInv, Typed, RowTypes
<1>2. ASSUME NEW j \in Jobs, status[j] # "absent" PROVE status'[j] # "absent"
    <2>1. \A c \in Calls : cPc[c] = "toTerminal" => verdict[cLease[c]] \in Terminal
        BY <1>1, ViewConstants DEF TypeInv, CallsOK, CallOK, Completing
    <2>2. QED
        BY <1>1, <1>2, <2>1, RowShapes DEF RowShape, Terminal
<1>3. ASSUME NEW j \in Jobs, status[j] # "absent", Leasable(j, status)
      PROVE  Leasable(j, status')
    <2>1. \A n \in NeedRows(j) : n \in Jobs /\ status[n] # "absent"
        BY <1>1, <1>3, NeedRowsFacts DEF PlannedRows
    <2>2. \A n \in NeedRows(j) : status[n] \in Terminal => status'[n] = status[n]
        BY <1>1, <2>1, RowsFinal
    <2>3. QED
        BY <1>3, <2>1, <2>2, DecisionsAgree
<1>4. ASSUME NEW u \in Runs, NEW s, OverWith(u, s) PROVE OverWith(u, s)'
    <2>1. RowsOf(u, status') = RowsOf(u, status)
        <3>1. ASSUME NEW j \in Jobs, RunOf[j] = u, status[j] = "absent"
              PROVE  status'[j] = "absent"
            BY <1>1, <1>4, <3>1, RowShapes DEF RowShape, OverWith
        <3>2. QED
            BY <1>2, <3>1 DEF RowsOf
    <2>2. \A j \in RowsOf(u, status) : j \in Jobs /\ status[j] \in Terminal
        BY <1>4 DEF OverWith, RunComplete, RowsOf
    <2>3. \A j \in RowsOf(u, status) : status'[j] = status[j]
        BY <1>1, <2>2, RowsFinal
    <2>4. RunComplete(u, status') /\ RollUp(u, status') = RollUp(u, status)
        BY <1>4, <2>1, <2>2, <2>3 DEF OverWith, RunComplete, RollUp
    <2>5. QED
        BY <1>1, <1>4, <2>4, PlanKept DEF OverWith
<1>5. QED
    BY <1>2, <1>3, <1>4

(* An outcome that a runner came to, and a row that no runner was given    *)
(* and that is not in the queue, stay so.                                  *)
LEMMA FoundStays ==
    ASSUME TypeInv, [Next]_vars, NEW j \in Jobs
    PROVE  /\ \A res \in Terminal : RanTo(j, res) => RanTo(j, res)'
           /\ Ungranted(j) /\ status[j] # "queued" => Ungranted(j)'
<1>1. LeaseTypes /\ NoResult \notin Terminal
    BY StoreConstants DEF TypeInv, Typed
<1>2. ASSUME NEW res \in Terminal, RanTo(j, res) PROVE RanTo(j, res)'
    <2>1. PICK l \in Leases : leaseJob[l] = j /\ verdict[l] = res
        BY <1>2 DEF RanTo
    <2>2. verdict[l] \in Reports
        BY <1>1, <2>1 DEF LeaseTypes
    <2>3. leaseJob'[l] = j /\ verdict'[l] = res
        BY <2>1, <2>2, BookKept
    <2>4. QED
        BY <2>3 DEF RanTo
<1>3. ASSUME Ungranted(j), status[j] # "queued" PROVE Ungranted(j)'
    <2>1. CASE UNCHANGED leaseJob
        BY <1>3, <2>1 DEF Ungranted
    <2>2. CASE LeaseRow
        <3>1. PICK k \in Jobs : /\ status[k] = "queued"
                                /\ leaseJob' = [leaseJob EXCEPT ![nextLease + 1] = k]
            BY <2>2 DEF LeaseRow
        <3>2. k # j
            BY <1>3, <3>1
        <3>3. QED
            BY <1>1, <1>3, <3>1, <3>2 DEF Ungranted, LeaseTypes
    <2>3. QED
        BY <2>1, <2>2, BookShape
<1>4. QED
    BY <1>2, <1>3

(* A result, once there, is never removed. *)
LEMMA ResultStays ==
    ASSUME TypeInv, [Next]_vars, NEW j \in Jobs, result[j] # NoResult
    PROVE  result'[j] # NoResult
<1>1. \A c \in Calls : cPc[c] = "setResult" => verdict[cLease[c]] \in Terminal
    BY ViewConstants DEF TypeInv, CallsOK, CallOK, Completing
<1>2. QED
    BY <1>1, ResultShapes, StoreConstants DEF ResultShape, Terminal

(* The rows keep what RowInv says of them and their leases. *)
LEMMA RowLeasesNext ==
    ASSUME RowInv, [Next]_vars
    PROVE  PlannedRows' /\ RowsHoldGrants' /\ GrantedLeasable'
<1>1. TypeInv /\ PlannedRows /\ RowsHoldGrants /\ GrantedLeasable /\ StoreTypeOK /\ LeaseTypes
    BY DEF RowInv, TypeInv, Typed, RowTypes
<1>2. PlannedRows'
    <2>1. ASSUME NEW j \in Jobs, status'[j] # "absent"
          PROVE  /\ plan'[RunOf[j]] # "new"
                 /\ \A n \in NeedRows(j) : status'[n] # "absent"
        <3>1. /\ plan[RunOf[j]] # "new"
              /\ \A n \in NeedRows(j) : status[n] # "absent"
            BY <1>1, <2>1, RowShapes DEF RowShape, PlannedRows
        <3>2. QED
            BY <1>1, <3>1, PlanKept, NeedRowsFacts, SettledStays, WorkflowTypes
    <2>2. ASSUME NEW l \in Leases, leaseJob'[l] \in Jobs
          PROVE  status'[leaseJob'[l]] # "absent"
        <3>1. CASE leaseJob'[l] = leaseJob[l]
            BY <1>1, <2>2, <3>1, SettledStays DEF PlannedRows
        <3>2. CASE leaseJob'[l] # leaseJob[l]
            <4>1. LeaseRow
                BY <1>1, <3>2, BookShape
            <4>2. PICK k \in Jobs : /\ status[k] = "queued"
                                    /\ leaseJob' = [leaseJob EXCEPT ![nextLease + 1] = k]
                BY <4>1 DEF LeaseRow
            <4>3. leaseJob'[l] = k
                BY <1>1, <3>2, <4>2 DEF LeaseTypes
            <4>4. QED
                BY <4>2, <4>3, SettledStays
        <3>3. QED
            BY <3>1, <3>2
    <2>3. QED
        BY <2>1, <2>2 DEF PlannedRows
<1>3. ASSUME NEW j \in Jobs
      PROVE  /\ lease'[j] # 0 => leaseJob'[lease'[j]] = j
             /\ status'[j] = "queued" => lease'[j] = 0
    <2>1. ASSUME lease'[j] = lease[j], lease[j] # 0 PROVE leaseJob'[lease'[j]] = j
        <3>1. lease[j] \in Leases /\ leaseJob[lease[j]] = j
            BY <1>1, <2>1, StoreConstants DEF RowsHoldGrants, StoreTypeOK, Leases
        <3>2. QED
            BY <1>1, <2>1, <3>1, BookKept
    <2>2. \A c \in Calls : cPc[c] = "toTerminal" => verdict[cLease[c]] \in Terminal
        BY <1>1, ViewConstants DEF TypeInv, CallsOK, CallOK, Completing
    <2>3. status[j] = "absent" => lease[j] = 0
        BY <1>1, StoreConstants DEF RowsHoldGrants, PlannedRows, StoreTypeOK, Leases
    <2>4. QED
        BY <1>1, <2>1, <2>2, <2>3, RowShapes DEF RowShape, RowsHoldGrants, Terminal
<1>4. ASSUME NEW l \in Leases, leaseJob'[l] \in Jobs PROVE Leasable(leaseJob'[l], status')
    <2>1. CASE leaseJob'[l] = leaseJob[l]
        BY <1>1, <1>4, <2>1, SettledStays DEF GrantedLeasable, PlannedRows
    <2>2. CASE leaseJob'[l] # leaseJob[l]
        <3>1. LeaseRow
            BY <1>1, <2>2, BookShape
        <3>2. PICK k \in Jobs : /\ status[k] = "queued" /\ Leasable(k, status)
                                /\ leaseJob' = [leaseJob EXCEPT ![nextLease + 1] = k]
            BY <3>1 DEF LeaseRow
        <3>3. leaseJob'[l] = k
            BY <1>1, <2>2, <3>2 DEF LeaseTypes
        <3>4. QED
            BY <3>2, <3>3, SettledStays
    <2>3. QED
        BY <2>1, <2>2
<1>5. QED
    BY <1>2, <1>3, <1>4 DEF RowsHoldGrants, GrantedLeasable

(* A status and a result are still founded after a step. *)
LEMMA RowOutcomesNext ==
    ASSUME RowInv, [Next]_vars
    PROVE  StatusFounded' /\ ResultFounded'
<1>1. TypeInv /\ StatusFounded /\ ResultFounded /\ ResultFirst /\ SkipsUngranted /\ CallsOK
    BY DEF RowInv, TypeInv
<1>2. ASSUME NEW j \in Jobs, status'[j] \in Terminal
      PROVE  \/ RanTo(j, status[j])' /\ result'[j] # NoResult
             \/ status'[j] = "skipped" /\ Ungranted(j)'
    <2>1. CASE status'[j] = status[j]
        BY <1>1, <1>2, <2>1, FoundStays, ResultStays DEF StatusFounded, Terminal
    <2>2. CASE status[j] = "queued" /\ status'[j] = "skipped" /\ SkipByRule(j, status)
        <3>1. Ungranted(j) /\ ~LeaseRow
            <4>1. ASSUME LeaseRow PROVE FALSE
                BY <1>1, <2>2, <4>1 DEF LeaseRow, Lease, LeaseApplies, TypeInv, Typed,
                   RowTypes, StoreTypeOK
            <4>2. QED
                BY <2>2, <4>1, SkippedUngranted
        <3>2. QED
            BY <1>1, <2>2, <3>1, BookShape DEF Ungranted
    <2>3. ASSUME NEW c \in Calls, cPc[c] = "toTerminal", cJob[c] = j,
                 status'[j] = verdict[cLease[c]]
          PROVE  RanTo(j, status[j])' /\ result'[j] # NoResult
        <3>1. cLease[c] \in Leases /\ leaseJob[cLease[c]] = j
            BY <1>1, <2>3 DEF CallsOK, CallOK
        <3>2. RanTo(j, status'[j])
            BY <2>3, <3>1 DEF RanTo
        <3>3. result[j] # NoResult
            BY <1>1, <2>3 DEF ResultFirst, Completing
        <3>4. QED
            BY <1>1, <1>2, <3>2, <3>3, FoundStays, ResultStays DEF RanTo
    <2>4. QED
        BY <1>1, <1>2, <2>1, <2>2, <2>3, RowShapes DEF RowShape, Terminal
<1>3. ASSUME NEW j \in Jobs, result'[j] # NoResult
      PROVE  /\ finishedAt'[j] # 0
             /\ \/ RanTo(j, result[j])'
                \/ result'[j] = "skipped" /\ status'[j] = "skipped" /\ Ungranted(j)'
    <2>1. CASE result'[j] = result[j] /\ finishedAt'[j] = finishedAt[j]
        <3>1. result[j] \in Terminal
            BY <1>3, <2>1 DEF RowInv, TypeInv, Typed, RowTypes, StoreTypeOK
        <3>2. status[j] = "skipped" => status'[j] = "skipped"
            BY <1>1, RowsFinal DEF Terminal
        <3>3. QED
            BY <1>1, <1>3, <2>1, <3>1, <3>2, FoundStays DEF ResultFounded, RanTo
    <2>2. ASSUME NEW c \in Calls, cPc[c] = "setResult", cJob[c] = j,
                 result'[j] = verdict[cLease[c]], finishedAt'[j] = cAt[c]
          PROVE  finishedAt'[j] # 0 /\ RanTo(j, result[j])'
        <3>1. cLease[c] \in Leases /\ leaseJob[cLease[c]] = j /\ cAt[c] # 0
              /\ verdict[cLease[c]] \in Terminal
            BY <1>1, <2>2, ViewConstants DEF CallsOK, CallOK, Completing
        <3>2. RanTo(j, result'[j])
            BY <2>2, <3>1 DEF RanTo
        <3>3. QED
            BY <1>1, <2>2, <3>1, <3>2, FoundStays DEF RanTo
    <2>3. ASSUME NEW c \in Calls, cPc[c] = "gateResult", cSkip[c] = j
          PROVE  status'[j] = "skipped" /\ Ungranted(j)'
        BY <1>1, <2>3, FoundStays, RowsFinal DEF SkipsUngranted, Terminal
    <2>4. QED
        BY <1>1, <2>1, <2>2, <2>3, ResultShapes DEF ResultShape
<1>4. QED
    BY <1>2, <1>3 DEF StatusFounded, ResultFounded

(* The roll-up of a complete run is computed, maybe too early. *)
RollsUp(c) ==
    /\ RunComplete(RunOfCall(c), status) /\ status' = status
    /\ cRollUp'[c] = RollUp(RunOfCall(c), status)
    /\ plan' = plan
    /\ plan[RunOfCall(c)] = "inserting" => RunOfCall(c) \in early'

(* How a call gets to where it is in CompleteJob. *)
LEMMA CompletingShape ==
    ASSUME TypeInv, [Next]_vars, NEW c \in Calls, cPc'[c] \in Completing \ {"setResult"}
    PROVE  /\ cPc[c] \in Completing
           /\ cJob'[c] = cJob[c] /\ cLease'[c] = cLease[c]
           /\ cPc[c] = "setResult" => CompleteSetResult(c)
           /\ cPc'[c] = "gateResult" => \/ cPc[c] = "gateResult" /\ cSkip'[c] = cSkip[c]
                                        \/ cPc[c] = "gate" /\ GateSkip(c)
           /\ cPc'[c] = "setRun" => \/ cPc[c] = "setRun" /\ cRollUp'[c] = cRollUp[c]
                                    \/ cPc[c] = "gate" /\ RollsUp(c)
<1>1. CallTypes
    BY DEF TypeInv, Typed
<1>2. CASE Same(c)
    BY <1>2 DEF Same
<1>3. ~Leave(c)
    BY <1>1 DEF Leave, CallTypes, Completing
<1>4. ASSUME NEW from, NEW to, Goto(c, from, to)
      PROVE  /\ cPc[c] = from /\ cPc'[c] = to
             /\ cJob'[c] = cJob[c] /\ cLease'[c] = cLease[c]
    BY <1>1, <1>4 DEF Goto, CallTypes
<1>5. ~(ListStepsForJob(c) \/ UpsertStep(c) \/ StartJob(c) \/ GiveUp(c) \/ Cancelled(c))
    BY <1>1, <1>3, <1>4 DEF ListStepsForJob, UpsertStep, StartJob, Answer, GiveUp, Cancelled,
       Completing
<1>6. ~\E l \in Leases : ReportStep(c, l) \/ CompleteJob(c, l)
    BY <1>1 DEF ReportStep, CompleteJob, Enter, CallTypes, Completing
<1>7. CASE CompleteSetResult(c)
    BY <1>4, <1>7 DEF CompleteSetResult, Completing
<1>8. CASE CompleteToRunning(c) \/ CompleteToTerminal(c)
    BY <1>4, <1>8 DEF CompleteToRunning, CompleteToTerminal, Completing
<1>9. CASE GateSkip(c) \/ GateSkipResult(c)
    BY <1>4, <1>9 DEF GateSkip, GateSkipResult, Completing
<1>10. CASE FinalizeList(c) \/ FinalizeSet(c)
    <2>1. Goto(c, "gate", "setRun") /\ RollsUp(c)
        BY <1>1, <1>3, <1>10 DEF FinalizeList, FinalizeSet, Answer, RollsUp, tables,
           CallTypes
    <2>2. QED
        BY <1>4, <2>1 DEF Completing
<1>11. QED
    BY <1>2, <1>5, <1>6, <1>7, <1>8, <1>9, <1>10, CallShapes DEF Acts, CallStep

(* Completions keep to the order of their statements, and what they have   *)
(* found out about the rows of a run stays true.                           *)
LEMMA RowCallsNext ==
    ASSUME RowInv, [Next]_vars
    PROVE  ResultFirst' /\ SkipsUngranted' /\ RunsFounded'
<1>1. TypeInv /\ CallsOK /\ PlannedRows /\ ResultFirst /\ SkipsUngranted /\ RunsFounded /\ StoreTypeOK
      /\ CallTypes
    BY DEF RowInv, TypeInv, Typed, RowTypes
<1>2. ASSUME NEW c \in Calls, cPc'[c] \in Completing \ {"setResult"}
      PROVE  result'[cJob'[c]] # NoResult
    <2>1. /\ cPc[c] \in Completing /\ cJob[c] \in Jobs /\ cJob'[c] = cJob[c]
          /\ verdict[cLease[c]] \in Terminal
        BY <1>1, <1>2, CompletingShape, ViewConstants DEF CallsOK, CallOK, Completing
    <2>2. CASE cPc[c] = "setResult"
        <3>1. SetResult(cJob[c], verdict[cLease[c]])
            BY <1>1, <1>2, <2>2, CompletingShape DEF CompleteSetResult, SetResultAt
        <3>2. QED
            BY <1>1, <2>1, <3>1, StoreConstants DEF SetResult, StoreTypeOK
    <2>3. CASE cPc[c] # "setResult"
        BY <1>1, <2>1, <2>3, ResultStays DEF ResultFirst
    <2>4. QED
        BY <2>2, <2>3
<1>3. ASSUME NEW c \in Calls, cPc'[c] = "gateResult"
      PROVE  status'[cSkip'[c]] = "skipped" /\ Ungranted(cSkip[c])'
    <2>1. \/ cPc[c] = "gateResult" /\ cSkip'[c] = cSkip[c]
          \/ cPc[c] = "gate" /\ GateSkip(c)
        BY <1>1, <1>3, CompletingShape DEF Completing
    <2>2. CASE cPc[c] = "gateResult" /\ cSkip'[c] = cSkip[c]
        <3>1. cSkip[c] \in Jobs /\ status[cSkip[c]] = "skipped" /\ Ungranted(cSkip[c])
            BY <1>1, <2>2 DEF CallsOK, CallOK, SkipsUngranted
        <3>2. QED
            BY <1>1, <2>2, <3>1, FoundStays, RowsFinal DEF Ungranted, Terminal
    <2>3. CASE GateSkip(c)
        <3>1. PICK j \in Jobs : /\ status[j] = "queued" /\ SkipByRule(j, status)
                                /\ TransitionStatus(j, "queued", "skipped")
                                /\ cSkip' = [cSkip EXCEPT ![c] = j]
            BY <2>3 DEF GateSkip, ToSkip
        <3>2. cSkip'[c] = j
            BY <1>1, <3>1 DEF CallTypes
        <3>3. isLegalJobTransition("queued", "skipped")
            BY DEF isLegalJobTransition, jobTransitions
        <3>4. status'[j] = "skipped"
            BY <1>1, <3>1, <3>3 DEF TransitionStatus, TransitionApplies, StoreTypeOK
        <3>5. Ungranted(j) /\ leaseJob' = leaseJob
            BY <2>3, <3>1, SkippedUngranted DEF GateSkip, leases
        <3>6. QED
            BY <3>2, <3>4, <3>5 DEF Ungranted
    <2>4. QED
        BY <2>1, <2>2, <2>3
<1>4. ASSUME NEW c \in Calls, cPc'[c] = "setRun", RunOf[cJob'[c]] \notin early'
      PROVE  OverWith(RunOfCall(c), cRollUp[c])'
    <2>1. /\ cJob'[c] = cJob[c] /\ cPc[c] \in Completing
          /\ \/ cPc[c] = "setRun" /\ cRollUp'[c] = cRollUp[c]
             \/ RollsUp(c)
        BY <1>1, <1>4, CompletingShape DEF Completing
    <2>2. /\ cJob[c] \in Jobs /\ cLease[c] \in Leases
          /\ leaseJob[cLease[c]] = cJob[c]
        BY <1>1, <2>1 DEF CallsOK, CallOK, Completing
    <2>3. RunOfCall(c) \in Runs /\ RunOfCall(c) \notin early /\ RunOf[cJob'[c]] = RunOfCall(c)
        BY <1>1, <1>4, <2>1, <2>2, WorkflowTypes, PlanKept DEF RunOfCall
    <2>4. CASE cPc[c] = "setRun" /\ cRollUp'[c] = cRollUp[c]
        <3>1. PICK u \in Runs : u = RunOfCall(c) /\ u = RunOfCall(c)'
            BY <2>3 DEF RunOfCall
        <3>2. PICK s : s = cRollUp[c] /\ s = cRollUp'[c]
            BY <2>4
        <3>3. OverWith(u, s)
            BY <1>1, <2>3, <2>4, <3>1, <3>2 DEF RunsFounded
        <3>4. OverWith(u, s)'
            BY <3>3, SettledStays
        <3>5. QED
            BY <3>1, <3>4, <3>2 DEF OverWith
    <2>5. CASE RollsUp(c)
        <3>1. plan[RunOfCall(c)] # "new"
            BY <1>1, <2>2 DEF PlannedRows, RunOfCall
        <3>2. plan[RunOfCall(c)] # "inserting"
            BY <1>4, <2>3, <2>5 DEF RollsUp
        <3>3. RunOfCall(c)' = RunOfCall(c)
            BY <2>3 DEF RunOfCall
        <3>4. QED
            BY <2>5, <3>1, <3>2, <3>3 DEF RollsUp, OverWith
    <2>6. QED
        BY <2>1, <2>4, <2>5
<1>5. ASSUME NEW u \in Runs \ early', runStatus'[u] \in RunTerminal
      PROVE  OverWith(u, runStatus[u])'
    <2>1. CASE runStatus'[u] = runStatus[u]
        <3>1. OverWith(u, runStatus[u])
            BY <1>1, <1>5, <2>1, PlanKept DEF RunsFounded
        <3>2. QED
            BY <2>1, <3>1, SettledStays DEF OverWith
    <2>2. ASSUME NEW c \in Calls, cPc[c] = "setRun", RunOfCall(c) = u,
                 runStatus'[u] = cRollUp[c]
          PROVE  OverWith(u, runStatus[u])'
        <3>1. OverWith(u, cRollUp[c])
            BY <1>1, <1>5, <2>2, PlanKept DEF RunsFounded
        <3>2. QED
            BY <2>2, <3>1, SettledStays DEF OverWith
    <2>3. QED
        BY <1>1, <1>5, <2>1, <2>2, RunShapes DEF RunShape, RunTerminal
<1>6. QED
    BY <1>2, <1>3, <1>4, <1>5 DEF ResultFirst, SkipsUngranted, RunsFounded, RunOfCall

(* What the rows, leases, results and runs have to do with each other.     *)
LEMMA RowNext == RowInv /\ [Next]_vars => RowInv'
BY TypeNext, RowLeasesNext, RowOutcomesNext, RowCallsNext DEF RowInv

-----------------------------------------------------------------------------
(* What a page has read of a finished run or job is still so. *)
PageRead ==
    /\ pPc = "listJobs" =>
           /\ pOf \in Runs
           /\ pStatus \in RunTerminal /\ pOf \notin early => runStatus[pOf] = pStatus
    /\ pPc \in {"listSteps", "job"} =>
           pOf \in Jobs /\ (pStatus \in Terminal => status[pOf] = pStatus)

PageInv == RowInv /\ PageRead /\ RunPageConsistent

(* A page changes only by its own handler. *)
LEMMA PageShape ==
    ASSUME [Next]_vars
    PROVE  \/ UNCHANGED pageVars
           \/ pPc' = "idle"
           \/ \E u \in Runs : runsGetHandler(u)
           \/ \E j \in Jobs : runsGetJobHandler(j)
<1> USE DEF vars, pageVars
<1>1. ASSUME NEW c \in Calls, CallStep(c) \/ GiveUp(c) \/ Cancelled(c)
      PROVE  UNCHANGED pageVars
    BY <1>1 DEF CallStep, ListStepsForJob, UpsertStep, StartJob, CompleteSetResult,
       CompleteToRunning, CompleteToTerminal, GateSkip, GateSkipResult, FinalizeList,
       FinalizeSet, GiveUp, Cancelled
<1>2. ASSUME \/ \E l \in Leases : \/ Stale(l)
                                  \/ \E c \in Calls : ReportStep(c, l) \/ CompleteJob(c, l)
             \/ \E j \in Jobs : LeaseLapses(j)
             \/ LeaseRow \/ ListNeeds \/ Send \/ ReapJobs
      PROVE  UNCHANGED pageVars
    BY <1>2 DEF Stale, ReportStep, CompleteJob, LeaseLapses, LeaseRow, ListNeeds, Send,
       ReapJobs
<1>3. QED
    BY <1>1, <1>2, PlanShape DEF Next, ServerStep, PageStep, WriteJSON

(* What the first SELECT of a page found finished is what the second one   *)
(* adds to.                                                                *)
LEMMA PageNext == PageInv /\ [Next]_vars => PageInv'
<1> SUFFICES ASSUME PageInv, [Next]_vars PROVE PageInv'
    OBVIOUS
<1>1. RowInv /\ TypeInv /\ RunsFounded /\ PageRead /\ RunPageConsistent
    BY DEF PageInv, RowInv
<1>2. RowInv'
    BY <1>1, RowNext
<1>3. ASSUME NEW u \in Runs, u \notin early', runStatus[u] \in RunTerminal
      PROVE  runStatus'[u] = runStatus[u]
    <2>1. u \notin early /\ OverWith(u, runStatus[u])
        BY <1>1, <1>3, PlanKept DEF RunsFounded
    <2>2. ASSUME NEW c \in Calls, cPc[c] = "setRun", RunOfCall(c) = u
          PROVE  cRollUp[c] = runStatus[u]
        BY <1>1, <2>1, <2>2 DEF RunsFounded, OverWith
    <2>3. QED
        BY <1>1, <1>3, <2>1, <2>2, RunShapes DEF RunShape, OverWith
<1>4. ASSUME NEW u \in Runs, runsGetHandler(u) PROVE PageRead' /\ RunPageConsistent'
    <2>1. UNCHANGED <<status, runStatus, early>>
        BY <1>4 DEF runsGetHandler, Elsewhere, tables, history
    <2>2. CASE pPc' = "listJobs" /\ pOf' = u /\ pStatus' = runStatus[u]
        BY <2>1, <2>2 DEF PageRead, RunPageConsistent
    <2>3. CASE /\ pPc = "listJobs" /\ pPc' = "run" /\ pOf = u /\ UNCHANGED <<pOf, pStatus>>
               /\ pRows' = [j \in Jobs |-> IF RunOf[j] = u THEN status[j] ELSE "unread"]
        <3>1. RowsOf(u, pRows') = RowsOf(u, status)
            BY <2>3 DEF RowsOf
        <3>2. \A j \in RowsOf(u, status) : pRows'[j] = status[j]
            BY <2>3 DEF RowsOf
        <3>3. /\ RunComplete(u, pRows') <=> RunComplete(u, status)
              /\ RollUp(u, pRows') = RollUp(u, status)
            BY <3>1, <3>2 DEF RunComplete, RollUp
        <3>4. ASSUME pStatus \in RunTerminal, u \notin early
              PROVE  RunComplete(u, pRows') /\ pStatus = RollUp(u, pRows')
            BY <1>1, <2>3, <3>3, <3>4 DEF PageRead, RunsFounded, OverWith
        <3>5. QED
            BY <2>1, <2>3, <3>4 DEF PageRead, RunPageConsistent
    <2>4. QED
        BY <1>4, <2>2, <2>3 DEF runsGetHandler
<1>5. ASSUME NEW j \in Jobs, runsGetJobHandler(j) PROVE PageRead' /\ RunPageConsistent'
    BY <1>1, <1>5 DEF runsGetJobHandler, Elsewhere, tables, PageRead, RunPageConsistent
<1>6. CASE UNCHANGED pageVars
    <2>1. early \subseteq early'
        BY <1>1, PlanKept
    <2>2. RunPageConsistent'
        BY <1>1, <1>6, <2>1 DEF RunPageConsistent, pageVars
    <2>3. PageRead'
        BY <1>1, <1>3, <1>6, <2>1, RowsFinal DEF PageRead, pageVars
    <2>4. QED
        BY <1>2, <2>2, <2>3 DEF PageInv
<1>7. CASE pPc' = "idle"
    BY <1>2, <1>7 DEF PageInv, PageRead, RunPageConsistent
<1>8. QED
    BY <1>2, <1>4, <1>5, <1>6, <1>7, PageShape DEF PageInv

(* The start: no page is asked for. *)
LEMMA PageInit == Init => PageInv
BY RowInit DEF Init, PageInv, PageRead, RunPageConsistent

(* The run page and its rows come from two SELECTs.  For every workflow,   *)
(* planned row by row by a Plan that may fail half way, and whatever is    *)
(* written in between: a page that shows a run as finished shows all of    *)
(* its rows finished, and rows that add up to that status, unless the      *)
(* run's status was set before its time.                                   *)
THEOREM RunPagesAddUp == Spec => []RunPageConsistent
<1>1. PageInv => RunPageConsistent
    BY DEF PageInv
<1>2. QED
    BY <1>1, PageInit, PageNext, PTL DEF Spec
-----------------------------------------------------------------------------
(* Two reports about one job that are both between their SELECT and their  *)
(* upsert leave a mark.                                                    *)
OverlapSeen ==
    \A c, d \in Calls : /\ cPc[c] = "upsertStep" /\ cPc[d] = "upsertStep"
                        /\ cJob[c] = cJob[d]
                        => c = d \/ cJob[c] \in overlapped

(* Without that mark, what a report has read is what the row still says. *)
ReadFresh ==
    \A c \in Calls : cPc[c] = "upsertStep" /\ cJob[c] \notin overlapped
        => cRead[c] = steps[cJob[c]][StepOfCall(c)]

StepInv == TypeInv /\ OverlapSeen /\ ReadFresh

(* A row of the steps table changes only by the upsert of a report. *)
LEMMA StepShape ==
    ASSUME TypeInv, [Next]_vars, NEW j \in Jobs, NEW i \in StepIds(j)
    PROVE  \/ steps'[j][i] = steps[j][i]
           \/ \E c \in Calls : /\ UpsertStep(c) /\ cPc[c] = "upsertStep"
                               /\ cJob[c] = j /\ StepOfCall(c) = i
                               /\ steps'[j][i] = StepRow(c)
<1> USE DEF vars, wideRows
<1>1. RowTypes /\ CallsOK
    BY DEF TypeInv, Typed
<1>2. ASSUME NEW c \in Calls, UpsertStep(c)
      PROVE  \/ steps'[j][i] = steps[j][i]
             \/ cJob[c] = j /\ StepOfCall(c) = i /\ steps'[j][i] = StepRow(c)
    <2>1. cPc[c] = "upsertStep" /\ cJob[c] \in Jobs
        BY <1>1, <1>2 DEF UpsertStep, CallsOK, CallOK
    <2>2. StepOfCall(c) \in StepIds(cJob[c])
        BY <2>1, StepRowTypes DEF Reporting
    <2>3. steps' = [steps EXCEPT ![cJob[c]][StepOfCall(c)] = StepRow(c)]
        BY <1>2 DEF UpsertStep
    <2>4. CASE cJob[c] # j
        BY <1>1, <2>1, <2>3, <2>4 DEF RowTypes
    <2>5. CASE cJob[c] = j
        BY <1>1, <2>1, <2>2, <2>3, <2>5 DEF RowTypes
    <2>6. QED
        BY <2>4, <2>5
<1>3. CASE UNCHANGED steps
    BY <1>3
<1>4. \A c \in Calls : UpsertStep(c) => cPc[c] = "upsertStep"
    BY DEF UpsertStep
<1>5. QED
    BY <1>2, <1>3, <1>4, PlanShape DEF Next, ServerStep, PageStep, CallStep, ListStepsForJob,
       StartJob, CompleteSetResult, CompleteToRunning, CompleteToTerminal, GateSkip,
       GateSkipResult, FinalizeList, FinalizeSet, GiveUp, Cancelled, Stale, ReportStep,
       CompleteJob, LeaseRow, ListNeeds, Send, LeaseLapses, ReapJobs, WriteJSON,
       runsGetHandler, runsGetJobHandler, Elsewhere

(* A call between its SELECT and its upsert was there before or has just   *)
(* done the SELECT.                                                        *)
LEMMA UpsertShape ==
    ASSUME TypeInv, [Next]_vars, NEW c \in Calls, cPc'[c] = "upsertStep"
    PROVE  /\ cJob'[c] = cJob[c] /\ cStep'[c] = cStep[c] /\ cLease'[c] = cLease[c]
           /\ \/ cPc[c] = "upsertStep" /\ cRead'[c] = cRead[c]
              \/ cPc[c] = "listSteps" /\ ListStepsForJob(c)
<1>1. CallTypes
    BY DEF TypeInv, Typed
<1>2. CASE Same(c)
    BY <1>2 DEF Same
<1>3. ~Leave(c)
    BY <1>1 DEF Leave, CallTypes
<1>4. ASSUME NEW from, NEW to, Goto(c, from, to)
      PROVE  /\ cPc[c] = from /\ to = "upsertStep"
             /\ cJob'[c] = cJob[c] /\ cStep'[c] = cStep[c] /\ cLease'[c] = cLease[c]
    BY <1>1, <1>4 DEF Goto, CallTypes
<1>5. CASE ListStepsForJob(c)
    BY <1>4, <1>5 DEF ListStepsForJob
<1>6. CASE GiveUp(c)
    BY <1>6 DEF GiveUp
<1>7. ~(UpsertStep(c) \/ StartJob(c) \/ Cancelled(c) \/ FinalizeList(c) \/ FinalizeSet(c))
    BY <1>3, <1>4 DEF UpsertStep, StartJob, Answer, Cancelled, FinalizeList, FinalizeSet
<1>8. ~(\/ CompleteSetResult(c) \/ CompleteToRunning(c) \/ CompleteToTerminal(c)
        \/ GateSkip(c) \/ GateSkipResult(c))
    BY <1>4 DEF CompleteSetResult, CompleteToRunning, CompleteToTerminal, GateSkip,
       GateSkipResult
<1>9. ~\E l \in Leases : ReportStep(c, l) \/ CompleteJob(c, l)
    BY <1>1 DEF ReportStep, CompleteJob, Enter, CallTypes
<1>10. QED
    BY <1>2, <1>5, <1>6, <1>7, <1>8, <1>9, CallShapes DEF Acts, CallStep

(* What a report read is what its upsert replaces, unless another report   *)
(* of the same job overlaps with it.                                       *)
LEMMA StepNext == StepInv /\ [Next]_vars => StepInv'
<1> SUFFICES ASSUME StepInv, [Next]_vars PROVE StepInv'
    OBVIOUS
<1>1. TypeInv /\ CallTypes /\ CallsOK /\ OverlapSeen /\ ReadFresh
    BY DEF StepInv, TypeInv, Typed
<1>2. TypeInv'
    BY <1>1, TypeNext
<1>3. overlapped \subseteq overlapped'
    BY HistoryShape DEF GiveUp, ListStepsForJob
<1>4. ASSUME NEW c \in Calls, NEW d \in Calls, c # d, cJob'[c] = cJob'[d],
             cPc'[c] = "upsertStep", cPc'[d] = "upsertStep", ListStepsForJob(c)
      PROVE  cJob'[c] \in overlapped'
    <2>1. Same(d)
        BY <1>1, <1>4, CallShapes DEF Acts, CallStep
    <2>2. Overlaps(c) /\ cJob'[c] = cJob[c]
        BY <1>4, <2>1 DEF Same, Overlaps, ListStepsForJob, Goto
    <2>3. QED
        BY <1>4, <2>2 DEF ListStepsForJob
<1>5. OverlapSeen'
    <2> SUFFICES ASSUME NEW c \in Calls, NEW d \in Calls, c # d, cJob'[c] = cJob'[d],
                        cPc'[c] = "upsertStep", cPc'[d] = "upsertStep"
                 PROVE  cJob'[c] \in overlapped'
        BY DEF OverlapSeen
    <2>1. CASE ListStepsForJob(c) \/ ListStepsForJob(d)
        BY <1>4, <2>1
    <2>2. CASE ~ListStepsForJob(c) /\ ~ListStepsForJob(d)
        BY <1>1, <1>3, <2>2, UpsertShape DEF OverlapSeen
    <2>3. QED
        BY <2>1, <2>2
<1>6. ReadFresh'
    <2> SUFFICES ASSUME NEW c \in Calls, cPc'[c] = "upsertStep", cJob'[c] \notin overlapped'
                 PROVE  cRead'[c] = steps'[cJob'[c]][StepOfCall(c)']
        BY DEF ReadFresh
    <2>1. /\ cJob'[c] = cJob[c] /\ StepOfCall(c)' = StepOfCall(c)
          /\ cPc[c] \in Reporting /\ cJob[c] \notin overlapped
        BY <1>1, <1>3, UpsertShape DEF StepOfCall, Reporting
    <2>2. cJob[c] \in Jobs /\ StepOfCall(c) \in StepIds(cJob[c])
        BY <1>1, <2>1, StepRowTypes DEF CallsOK, CallOK, Reporting
    <2>3. CASE ListStepsForJob(c)
        BY <1>1, <2>1, <2>3 DEF ListStepsForJob, wideRows, CallTypes
    <2>4. CASE cPc[c] = "upsertStep" /\ cRead'[c] = cRead[c]
        <3>1. cRead[c] = steps[cJob[c]][StepOfCall(c)]
            BY <1>1, <2>1, <2>4 DEF ReadFresh
        <3>2. ASSUME UpsertStep(c) PROVE FALSE
            BY <1>1, <3>2 DEF UpsertStep, Goto, Answer, Leave, CallTypes
        <3>3. \A d \in Calls : cPc[d] = "upsertStep" /\ cJob[d] = cJob[c] => d = c
            BY <1>1, <2>1, <2>4 DEF OverlapSeen
        <3>4. steps'[cJob[c]][StepOfCall(c)] = steps[cJob[c]][StepOfCall(c)]
            BY <1>1, <2>2, <3>2, <3>3, StepShape
        <3>5. QED
            BY <2>1, <2>4, <3>1, <3>4
    <2>5. QED
        BY <1>1, <2>3, <2>4, UpsertShape
<1>7. QED
    BY <1>2, <1>5, <1>6 DEF StepInv

(* The start: no report is being served. *)
LEMMA StepInit == Init => StepInv
BY TypeInit DEF Init, StepInv, OverlapSeen, ReadFresh

(* For any number of steps, runners and reports, repeated, late or from    *)
(* the next runner of the job: the time a step first started is carried    *)
(* forward, unless two reports overlap between their SELECT and their      *)
(* upsert.                                                                 *)
THEOREM StepStartsKept == Spec => StepStartKept
<1>1. ASSUME StepInv, [Next]_vars, NEW j \in Jobs \ overlapped, NEW i \in StepIds(j),
             steps[j][i].started # 0
      PROVE  steps'[j][i].started = steps[j][i].started
    <2>1. ASSUME NEW c \in Calls, cPc[c] = "upsertStep", cJob[c] = j, StepOfCall(c) = i
          PROVE  StepRow(c).started = steps[j][i].started
        <3>1. cRead[c] = steps[j][i]
            BY <1>1, <2>1 DEF StepInv, ReadFresh
        <3>2. QED
            BY <1>1, <3>1 DEF StepRow
    <2>2. QED
        BY <1>1, <2>1, StepShape DEF StepInv
<1>2. StepInv /\ [Next]_vars
        => [\A j \in Jobs \ overlapped : \A i \in StepIds(j) :
               steps[j][i].started # 0 => steps'[j][i].started = steps[j][i].started]_vars
    BY <1>1
<1>3. QED
    BY <1>2, StepInit, StepNext, PTL DEF Spec, StepStartKept
-----------------------------------------------------------------------------
(* A runner that waits for its answers does not overlap itself. *)
TidyApart == \A j \in Jobs : Tidy(j) => j \notin overlapped

(* The job is started after its step. *)
StartedFirst ==
    \A c \in Calls : cPc[c] = "startJob" /\ Tidy(cJob[c])
        => steps[cJob[c]][StepOfCall(c)].started # 0

(* A step row with its start, its end and its outcome. *)
StepDone(row) == row.status \in Terminal /\ row.started # 0 /\ row.finished # 0

(* The rows of a tidy job are as far as the reports its runner has had     *)
(* answers to.                                                             *)
StepsFollow ==
    \A j \in Jobs : Tidy(j) /\ lease[j] # 0 =>
        \A i \in StepIds(j) :
            /\ work[lease[j]] > 2 * i - 2 => steps[j][i].started # 0
            /\ work[lease[j]] > 2 * i - 1 => StepDone(steps[j][i])

(* A tidy job is finished by a runner that has reported every step. *)
FinishedAfter ==
    \A j \in Jobs : Tidy(j) /\ lease[j] # 0 /\ status[j] \in Terminal
        => work[lease[j]] >= 2 * StepsOf[j]

TidyInv ==
    /\ StepInv /\ PageInv
    /\ TidyApart /\ StartedFirst /\ StepsFollow /\ FinishedAfter
    /\ JobPageConsistent

(* The start: no row was handed out. *)
LEMMA TidyInit == Init => TidyInv
BY StepInit, PageInit DEF Init, TidyInv, TidyApart, StartedFirst, StepsFollow,
   FinishedAfter, JobPageConsistent

(* A row that is tidy was so before. *)
LEMMA TidyBefore ==
    ASSUME TypeInv, [Next]_vars, NEW j \in Jobs, Tidy(j)'
    PROVE  Tidy(j)
<1>1. untidy \subseteq untidy'
    BY HistoryShape DEF GiveUp, ListStepsForJob
<1>2. \A l \in Leases : leaseJob[l] = j => leaseJob'[l] = j
    BY BookKept
<1>3. QED
    BY <1>1, <1>2 DEF Tidy

(* The runner of a tidy row waits for every call on it, so there is one    *)
(* at a time, under the one lease of the row.                              *)
LEMMA TidyCalls ==
    ASSUME RowInv, NEW j \in Jobs, Tidy(j),
           NEW c \in Calls, cPc[c] # "idle", cJob[c] = j
    PROVE  /\ Waiting(c)
           /\ \A l \in Leases : leaseJob[l] = j => cLease[c] = l
           /\ lease[j] # 0 => cLease[c] = lease[j]
           /\ \A d \in Calls : cPc[d] # "idle" /\ cJob[d] = j => d = c
<1>1. TypeInv /\ CallsOK /\ OneAtATime /\ RowsHoldGrants /\ StoreTypeOK
    BY DEF RowInv, TypeInv, Typed, RowTypes
<1>2. \A d \in Calls : cPc[d] # "idle" /\ cJob[d] = j =>
          Waiting(d) /\ cLease[d] \in Leases /\ leaseJob[cLease[d]] = j
    BY <1>1 DEF CallsOK, CallOK, Waiting, Tidy
<1>3. \A l \in Leases : leaseJob[l] = j => cLease[c] = l
    BY <1>2 DEF Tidy
<1>4. lease[j] # 0 => lease[j] \in Leases /\ leaseJob[lease[j]] = j
    BY <1>1, StoreConstants DEF RowsHoldGrants, StoreTypeOK, Leases
<1>5. \A d \in Calls : cPc[d] # "idle" /\ cJob[d] = j => d = c
    BY <1>1, <1>2, <1>3 DEF OneAtATime
<1>6. QED
    BY <1>2, <1>3, <1>4, <1>5

(* A call that is about to start the job was there before or has just      *)
(* written a running step.                                                 *)
LEMMA StartShape ==
    ASSUME TypeInv, [Next]_vars, NEW c \in Calls, cPc'[c] = "startJob"
    PROVE  /\ cJob'[c] = cJob[c] /\ cStep'[c] = cStep[c]
           /\ \/ cPc[c] = "startJob"
              \/ /\ cPc[c] = "upsertStep" /\ UpsertStep(c)
                 /\ PhaseOfCall(c) = "running"
<1>1. CallTypes
    BY DEF TypeInv, Typed
<1>2. CASE Same(c)
    BY <1>2 DEF Same
<1>3. ~Leave(c)
    BY <1>1 DEF Leave, CallTypes
<1>4. ASSUME NEW from, NEW to, Goto(c, from, to)
      PROVE  /\ cPc[c] = from /\ to = "startJob"
             /\ cJob'[c] = cJob[c] /\ cStep'[c] = cStep[c]
    BY <1>1, <1>4 DEF Goto, CallTypes
<1>5. CASE UpsertStep(c)
    BY <1>3, <1>4, <1>5 DEF UpsertStep, Answer
<1>6. CASE GiveUp(c)
    BY <1>6 DEF GiveUp
<1>7. ~(\/ ListStepsForJob(c) \/ StartJob(c) \/ Cancelled(c)
        \/ FinalizeList(c) \/ FinalizeSet(c))
    BY <1>3, <1>4 DEF ListStepsForJob, StartJob, Answer, Cancelled, FinalizeList,
       FinalizeSet
<1>8. ~(\/ CompleteSetResult(c) \/ CompleteToRunning(c) \/ CompleteToTerminal(c)
        \/ GateSkip(c) \/ GateSkipResult(c))
    BY <1>4 DEF CompleteSetResult, CompleteToRunning, CompleteToTerminal, GateSkip,
       GateSkipResult
<1>9. ~\E l \in Leases : ReportStep(c, l) \/ CompleteJob(c, l)
    BY <1>1 DEF ReportStep, CompleteJob, Enter, CallTypes
<1>10. QED
    BY <1>2, <1>5, <1>6, <1>7, <1>8, <1>9, CallShapes DEF Acts, CallStep

(* Reports of a tidy row do not overlap. *)
LEMMA TidyApartNext ==
    ASSUME TidyInv, [Next]_vars, NEW j \in Jobs, Tidy(j)'
    PROVE  j \notin overlapped'
<1>1. RowInv /\ TypeInv /\ TidyApart
    BY DEF TidyInv, PageInv, RowInv
<1>2. Tidy(j)
    BY <1>1, TidyBefore
<1>3. ASSUME NEW c \in Calls, ListStepsForJob(c), cJob[c] = j PROVE ~Overlaps(c)
    <2>1. cPc[c] = "listSteps"
        BY <1>3 DEF ListStepsForJob, Goto
    <2>2. \A d \in Calls : cPc[d] # "idle" /\ cJob[d] = j => d = c
        BY <1>1, <1>2, <1>3, <2>1, TidyCalls
    <2>3. QED
        BY <1>3, <2>1, <2>2 DEF Overlaps
<1>4. QED
    BY <1>1, <1>2, <1>3, HistoryShape DEF TidyApart, ListStepsForJob, GiveUp

(* A running step of a tidy row is written before the job is started. *)
LEMMA StartedFirstNext ==
    ASSUME TidyInv, [Next]_vars, NEW c \in Calls, cPc'[c] = "startJob",
           Tidy(cJob[c])'
    PROVE  steps'[cJob'[c]][StepOfCall(c)'].started # 0
<1>1. RowInv /\ TypeInv /\ CallsOK /\ StartedFirst
    BY DEF TidyInv, PageInv, RowInv, TypeInv
<1>2. /\ cJob'[c] = cJob[c] /\ StepOfCall(c)' = StepOfCall(c)
      /\ cPc[c] \in Reporting /\ cPc[c] # "idle"
    BY <1>1, StartShape DEF StepOfCall, Reporting
<1>3. cJob[c] \in Jobs /\ StepOfCall(c) \in StepIds(cJob[c]) /\ cLease[c] # 0
    BY <1>1, <1>2, StepRowTypes DEF CallsOK, CallOK
<1>4. Tidy(cJob[c])
    BY <1>1, <1>2, <1>3, TidyBefore DEF Tidy
<1>5. \A d \in Calls : cPc[d] # "idle" /\ cJob[d] = cJob[c] => d = c
    BY <1>1, <1>2, <1>3, <1>4, TidyCalls
<1>6. CASE cPc[c] = "startJob"
    <2>1. steps[cJob[c]][StepOfCall(c)].started # 0
        BY <1>1, <1>4, <1>6 DEF StartedFirst
    <2>2. steps'[cJob[c]][StepOfCall(c)] = steps[cJob[c]][StepOfCall(c)]
        BY <1>1, <1>3, <1>5, <1>6, StepShape
    <2>3. QED
        BY <1>2, <2>1, <2>2
<1>7. CASE UpsertStep(c) /\ PhaseOfCall(c) = "running"
    <2>1. StepRow(c).started # 0
        BY <1>3, <1>7 DEF StepRow
    <2>2. steps' = [steps EXCEPT ![cJob[c]][StepOfCall(c)] = StepRow(c)]
        BY <1>7 DEF UpsertStep
    <2>3. steps'[cJob[c]][StepOfCall(c)] = StepRow(c)
        BY <1>1, <1>3, <2>2 DEF TypeInv, Typed, RowTypes
    <2>4. QED
        BY <1>2, <2>1, <2>3
<1>8. QED
    BY <1>1, <1>6, <1>7, StartShape

(* The step that a report is about, by the number of the call. *)
LEMMA StepNumbers ==
    ASSUME TypeInv, NEW c \in Calls, cPc[c] \in Reporting
    PROVE  /\ StepOfCall(c) \in Nat /\ cStep[c] \in Nat
           /\ cStep[c] % 2 = 0 => cStep[c] = 2 * StepOfCall(c) - 2
           /\ cStep[c] % 2 # 0 => cStep[c] = 2 * StepOfCall(c) - 1
<1>1. cStep[c] \in Nat
    BY DEF TypeInv, Typed, CallTypes
<1>2. \A n \in Nat : /\ n \div 2 \in Nat
                     /\ n % 2 = 0 \/ n % 2 = 1
                     /\ n = 2 * (n \div 2) + (n % 2)
    OBVIOUS
<1>3. QED
    BY <1>1, <1>2 DEF StepOfCall

(* What the rows of a tidy job's steps say when its runner is done with n  *)
(* calls.                                                                  *)
Follows(i, n, row) ==
    /\ n > 2 * i - 2 => row.started # 0
    /\ n > 2 * i - 1 => StepDone(row)

(* A report writes the step it is about, and the runner goes on with an    *)
(* ended step only when its row is done.                                   *)
LEMMA FollowsUpsert ==
    ASSUME TidyInv, [Next]_vars, NEW j \in Jobs, Tidy(j), lease[j] # 0,
           NEW c \in Calls, UpsertStep(c), cJob[c] = j, NEW i \in StepIds(j)
    PROVE  Follows(i, work'[lease[j]], steps'[j][i])
<1>1. RowInv /\ TypeInv /\ CallsOK /\ RowTypes /\ LeaseTypes /\ StepsFollow /\ ReadFresh
      /\ TidyApart
    BY DEF TidyInv, StepInv, PageInv, RowInv, TypeInv, Typed
<1>2. cPc[c] = "upsertStep" /\ cPc[c] \in Reporting
    BY DEF UpsertStep, Reporting
<1>3. Waiting(c) /\ cLease[c] = lease[j]
    BY <1>1, <1>2, TidyCalls
<1>4. /\ lease[j] \in Leases /\ work[lease[j]] = cStep[c]
      /\ cStep[c] \in Nat /\ StepOfCall(c) \in StepIds(j) /\ cLease[c] # 0
      /\ i \in Nat /\ i >= 1
    BY <1>1, <1>2, <1>3, WaitingBound, StepRowTypes, ViewConstants DEF StepIds
<1>5. steps'[j] = [steps[j] EXCEPT ![StepOfCall(c)] = StepRow(c)]
    BY <1>1 DEF UpsertStep, RowTypes
<1>6. /\ i = StepOfCall(c) => steps'[j][i] = StepRow(c)
      /\ i # StepOfCall(c) => steps'[j][i] = steps[j][i]
    BY <1>1, <1>4, <1>5 DEF RowTypes
<1>7. Follows(i, work[lease[j]], steps[j][i])
    BY <1>1 DEF StepsFollow, Follows
<1>8. CASE PhaseOfCall(c) = "running"
    <2>1. work' = work /\ cStep[c] = 2 * StepOfCall(c) - 2 /\ StepOfCall(c) \in Nat
        BY <1>1, <1>2, <1>8, StepNumbers, StepRowTypes DEF UpsertStep, leases
    <2>2. CASE i # StepOfCall(c)
        BY <1>6, <1>7, <2>1, <2>2
    <2>3. CASE i = StepOfCall(c)
        BY <1>4, <2>1, <2>3 DEF Follows
    <2>4. QED
        BY <2>2, <2>3
<1>9. CASE PhaseOfCall(c) # "running"
    <2>1. /\ PhaseOfCall(c) \in Terminal
          /\ cStep[c] = 2 * StepOfCall(c) - 1 /\ StepOfCall(c) \in Nat
        BY <1>1, <1>2, <1>9, StepNumbers, StepRowTypes
    <2>2. work'[lease[j]] = cStep[c] + 1
        BY <1>1, <1>3, <1>4, <1>9 DEF UpsertStep, Answer, Waiting, LeaseTypes
    <2>3. CASE i # StepOfCall(c)
        <3>1. work'[lease[j]] > 2 * i - 2 => work[lease[j]] > 2 * i - 2
            BY <1>4, <2>1, <2>2, <2>3
        <3>2. work'[lease[j]] > 2 * i - 1 => work[lease[j]] > 2 * i - 1
            BY <1>4, <2>1, <2>2, <2>3
        <3>3. QED
            BY <1>6, <1>7, <2>3, <3>1, <3>2 DEF Follows
    <2>4. CASE i = StepOfCall(c)
        <3>1. steps[j][i].started # 0
            BY <1>4, <1>7, <2>1, <2>4 DEF Follows
        <3>2. cRead[c] = steps[j][i]
            BY <1>1, <1>2, <2>4 DEF ReadFresh, TidyApart
        <3>3. StepDone(StepRow(c))
            BY <1>4, <1>9, <2>1, <3>1, <3>2 DEF StepRow, StepDone
        <3>4. QED
            BY <1>6, <2>4, <3>3 DEF Follows, StepDone
    <2>5. QED
        BY <2>3, <2>4
<1>10. QED
    BY <1>8, <1>9

(* The runner goes on to a step's end when the step has started, and past  *)
(* CompleteJob when every step is done.                                    *)
LEMMA FollowsAnswer ==
    ASSUME TidyInv, [Next]_vars, NEW j \in Jobs, Tidy(j), lease[j] # 0,
           NEW c \in Calls, StartJob(c) \/ FinalizeList(c) \/ FinalizeSet(c), cJob[c] = j,
           NEW i \in StepIds(j), work'[lease[j]] = work[lease[j]] + 1
    PROVE  Follows(i, work'[lease[j]], steps[j][i])
<1>1. RowInv /\ TypeInv /\ StepsFollow /\ StartedFirst
    BY DEF TidyInv, PageInv, RowInv
<1>2. cPc[c] \in {"startJob", "gate", "setRun"}
    BY DEF StartJob, FinalizeList, FinalizeSet
<1>3. Waiting(c) /\ cLease[c] = lease[j]
    BY <1>1, <1>2, TidyCalls
<1>4. work[lease[j]] = cStep[c] /\ cStep[c] \in Nat
    BY <1>1, <1>3, WaitingBound
<1>5. i \in Nat /\ i >= 1 /\ i <= StepsOf[j] /\ StepsOf[j] \in Nat
    BY ViewConstants DEF StepIds
<1>6. Follows(i, work[lease[j]], steps[j][i])
    BY <1>1 DEF StepsFollow, Follows
<1>7. CASE cPc[c] = "startJob"
    <2>1. cStep[c] = 2 * StepOfCall(c) - 2
        BY <1>1, <1>7, StepNumbers DEF Reporting, TypeInv, CallsOK, CallOK
    <2>2. StepOfCall(c) \in Nat /\ steps[j][StepOfCall(c)].started # 0
        BY <1>1, <1>7, StepNumbers DEF StartedFirst, Reporting
    <2>3. CASE i = StepOfCall(c)
        BY <1>4, <1>5, <2>1, <2>2, <2>3 DEF Follows
    <2>4. CASE i # StepOfCall(c)
        <3>1. work'[lease[j]] > 2 * i - 2 => work[lease[j]] > 2 * i - 2
            BY <1>4, <1>5, <2>1, <2>2, <2>4
        <3>2. work'[lease[j]] > 2 * i - 1 => work[lease[j]] > 2 * i - 1
            BY <1>4, <1>5, <2>1, <2>2, <2>4
        <3>3. QED
            BY <1>6, <3>1, <3>2 DEF Follows
    <2>5. QED
        BY <2>3, <2>4
<1>8. CASE cPc[c] # "startJob"
    <2>1. cStep[c] = 2 * StepsOf[j]
        BY <1>1, <1>2, <1>3, <1>8, WaitingBound DEF Completing
    <2>2. work[lease[j]] > 2 * i - 2 /\ work[lease[j]] > 2 * i - 1
        BY <1>4, <1>5, <2>1
    <2>3. QED
        BY <1>6, <2>2 DEF Follows
<1>9. QED
    BY <1>7, <1>8

(* The step rows of a tidy job follow its runner. *)
LEMMA StepsFollowNext ==
    ASSUME TidyInv, [Next]_vars, NEW j \in Jobs, Tidy(j)', lease'[j] # 0,
           NEW i \in StepIds(j)
    PROVE  Follows(i, work'[lease'[j]], steps'[j][i])
<1>1. RowInv /\ TypeInv /\ RowsHoldGrants /\ StoreTypeOK /\ CallsOK /\ LeaseTypes
      /\ LeaseBook /\ StepsFollow
    BY DEF TidyInv, PageInv, RowInv, TypeInv, Typed, RowTypes
<1>2. Tidy(j)
    BY <1>1, TidyBefore
<1>3. i \in Nat /\ i >= 1
    BY ViewConstants DEF StepIds
<1>4. CASE lease'[j] # lease[j]
    <2>1. LeaseRow /\ lease'[j] = nextLease'
        BY <1>1, <1>4, RowShapes DEF RowShape
    <2>2. /\ nextLease' = nextLease + 1 /\ nextLease \in Nat
          /\ nextLease' \in Leases /\ work' = work
        BY <1>1, <2>1, StoreConstants DEF LeaseRow, LeaseTypes, Leases
    <2>3. work[nextLease'] = Unsent
        BY <1>1, <2>2 DEF LeaseBook
    <2>4. QED
        BY <1>3, <2>1, <2>2, <2>3 DEF Follows, Unsent
<1>5. CASE lease'[j] = lease[j]
    <2>1. lease[j] \in Leases /\ leaseJob[lease[j]] = j
        BY <1>1, <1>5, StoreConstants DEF RowsHoldGrants, StoreTypeOK, Leases
    <2>2. CASE \E c \in Calls : UpsertStep(c) /\ cJob[c] = j
        BY <1>2, <1>5, <2>2, FollowsUpsert
    <2>3. CASE ~\E c \in Calls : UpsertStep(c) /\ cJob[c] = j
        <3>1. steps'[j][i] = steps[j][i]
            BY <1>1, <2>3, StepShape
        <3>2. CASE work'[lease[j]] = work[lease[j]]
            BY <1>1, <1>2, <1>5, <3>1, <3>2 DEF StepsFollow, Follows
        <3>3. CASE work'[lease[j]] = 0
            BY <1>3, <1>5, <3>3 DEF Follows
        <3>4. ~Stale(lease[j])
            BY DEF Stale, GetByLease
        <3>5. ASSUME NEW c \in Calls, Waiting(c), cLease[c] = lease[j]
              PROVE  cJob[c] = j /\ ~GiveUp(c)
            <4>1. cJob[c] = j
                BY <1>1, <2>1, <3>5 DEF Waiting, CallsOK, CallOK
            <4>2. QED
                BY <4>1 DEF GiveUp, Tidy
        <3>6. ASSUME NEW c \in Calls, Waiting(c), cLease[c] = lease[j], Answers(c),
                     work'[lease[j]] = work[lease[j]] + 1
              PROVE  Follows(i, work'[lease[j]], steps[j][i])
            <4>1. cJob[c] = j
                BY <3>5, <3>6
            <4>2. StartJob(c) \/ FinalizeList(c) \/ FinalizeSet(c)
                BY <2>3, <3>6, <4>1 DEF Answers
            <4>3. QED
                BY <1>2, <1>5, <3>6, <4>1, <4>2, FollowsAnswer
        <3>7. QED
            BY <1>1, <1>5, <2>1, <3>1, <3>2, <3>3, <3>4, <3>5, <3>6, WorkShapes DEF WorkShape
    <2>4. QED
        BY <2>2, <2>3
<1>6. QED
    BY <1>4, <1>5

(* A tidy job is finished by the call that follows all of its steps. *)
LEMMA FinishedAfterNext ==
    ASSUME TidyInv, [Next]_vars, NEW j \in Jobs, Tidy(j)', lease'[j] # 0,
           status'[j] \in Terminal
    PROVE  work'[lease'[j]] >= 2 * StepsOf[j]
<1>1. RowInv /\ TypeInv /\ RowsHoldGrants /\ StoreTypeOK /\ CallsOK /\ LeaseTypes
      /\ LeaseBook /\ FinishedAfter /\ StepsOf[j] \in Nat
    BY ViewConstants DEF TidyInv, PageInv, RowInv, TypeInv, Typed, RowTypes
<1>2. Tidy(j)
    BY <1>1, TidyBefore
<1>3. ASSUME NEW c \in Calls, CompleteToTerminal(c), cPc[c] = "toTerminal", cJob[c] = j,
             lease'[j] = lease[j]
      PROVE  work'[lease'[j]] >= 2 * StepsOf[j]
    <2>1. Waiting(c) /\ cLease[c] = lease[j]
        BY <1>1, <1>2, <1>3, TidyCalls
    <2>2. work[lease[j]] = 2 * StepsOf[j]
        BY <1>1, <1>3, <2>1, WaitingBound DEF Completing
    <2>3. work' = work
        BY <1>3 DEF CompleteToTerminal, leases
    <2>4. QED
        BY <1>1, <1>3, <2>2, <2>3
<1>4. CASE lease'[j] = lease[j] /\ status'[j] = status[j]
    <2>1. lease[j] \in Leases /\ work[lease[j]] >= 2 * StepsOf[j]
        BY <1>1, <1>2, <1>4, StoreConstants DEF FinishedAfter, StoreTypeOK, Leases
    <2>2. work[lease[j]] \in Nat
        BY <1>1, <2>1 DEF LeaseTypes, Unsent
    <2>3. ~(Send /\ lease[j] = nextLease)
        BY <1>1, <2>2 DEF Send, LeaseBook, Unsent
    <2>4. ~Stale(lease[j])
        BY DEF Stale, GetByLease
    <2>5. work'[lease[j]] \in {work[lease[j]], work[lease[j]] + 1}
        BY <1>1, <2>1, <2>3, <2>4, WorkShapes DEF WorkShape
    <2>6. QED
        BY <1>1, <1>4, <2>1, <2>2, <2>5
<1>5. QED
    BY <1>1, <1>3, <1>4, RowShapes DEF RowShape, RowsHoldGrants, Terminal

(* A job page of a tidy job is consistent when its steps are read. *)
LEMMA JobPageNext ==
    ASSUME TidyInv, [Next]_vars
    PROVE  JobPageConsistent'
<1>1. TypeInv /\ PageRead /\ StepsFollow /\ FinishedAfter /\ JobPageConsistent
    BY DEF TidyInv, PageInv, RowInv
<1>2. CASE UNCHANGED vars
    BY <1>1, <1>2 DEF vars, pageVars, tables, leases, history, JobPageConsistent, Tidy
<1>3. CASE pPc' # "job"
    BY <1>3 DEF JobPageConsistent
<1>4. ASSUME NEW j \in Jobs, runsGetJobHandler(j), pPc' = "job" PROVE JobPageConsistent'
    <2>1. /\ pPc = "listSteps" /\ pOf = j /\ pOf' = j /\ pStatus' = pStatus
          /\ pSteps' = steps[j]
          /\ UNCHANGED <<lease, leaseJob, untidy>>
        BY <1>4 DEF runsGetJobHandler, Elsewhere, tables, leases, history
    <2>2. SUFFICES ASSUME Tidy(j), pStatus \in Terminal, lease[j] # 0
                   PROVE  \A i \in StepIds(j) : StepDone(steps[j][i])
        BY <2>1 DEF JobPageConsistent, Tidy, StepDone
    <2>3. status[j] \in Terminal
        BY <1>1, <2>1, <2>2 DEF PageRead
    <2>4. work[lease[j]] >= 2 * StepsOf[j] /\ lease[j] \in Leases
        BY <1>1, <2>2, <2>3, StoreConstants
        DEF FinishedAfter, TypeInv, Typed, RowTypes, StoreTypeOK, Leases
    <2>5. work[lease[j]] \in Int /\ StepsOf[j] \in Nat
        BY <1>1, <2>4, ViewConstants DEF TypeInv, Typed, LeaseTypes, Unsent
    <2>6. \A i \in StepIds(j) : work[lease[j]] > 2 * i - 1
        BY <2>4, <2>5 DEF StepIds
    <2>7. QED
        BY <1>1, <2>2, <2>6 DEF StepsFollow
<1>5. CASE pPc = "job" /\ ~UNCHANGED vars
    <2>1. pPc' = "idle"
        BY <1>5 DEF Next, WriteJSON
    <2>2. QED
        BY <1>3, <2>1
<1>6. QED
    BY <1>2, <1>3, <1>4, <1>5, PageShape DEF pageVars, runsGetHandler

(* All of TidyInv is inductive. *)
LEMMA TidyNext == TidyInv /\ [Next]_vars => TidyInv'
<1> SUFFICES ASSUME TidyInv, [Next]_vars PROVE TidyInv'
    OBVIOUS
<1>1. StepInv' /\ PageInv'
    BY StepNext, PageNext DEF TidyInv
<1>2. TidyApart'
    BY TidyApartNext DEF TidyApart
<1>3. StartedFirst'
    BY StartedFirstNext DEF StartedFirst, Tidy
<1>4. StepsFollow'
    BY StepsFollowNext DEF StepsFollow, Follows, StepIds
<1>5. FinishedAfter'
    BY FinishedAfterNext DEF FinishedAfter
<1>6. JobPageConsistent'
    BY JobPageNext
<1>7. QED
    BY <1>1, <1>2, <1>3, <1>4, <1>5, <1>6 DEF TidyInv

(* The job page and its steps come from two SELECTs and a step row from    *)
(* several statements.  For any number of steps and calls: a page that     *)
(* shows a job as finished by the one runner it was given to shows each of *)
(* its steps started, ended and with the outcome.                          *)
THEOREM JobPagesComplete == Spec => []JobPageConsistent
<1>1. TidyInv => JobPageConsistent
    BY DEF TidyInv
<1>2. QED
    BY <1>1, TidyInit, TidyNext, PTL DEF Spec
-----------------------------------------------------------------------------
(* The pass that looks for the canonical row of a need. *)

(* A set of numbers has a least one. *)
LEMMA LeastNat ==
    ASSUME NEW T \in SUBSET Nat, T # {}
    PROVE  \E i \in T : \A k \in T : ~(k < i)
<1>1. PICK i \in T : \A k \in T : <<k, i>> \notin OpToRel(<, Nat)
    BY WFMin, NatLessThanWellFounded
<1>2. \A k \in Nat, l \in Nat : k < l => <<k, l>> \in OpToRel(<, Nat)
    BY DEF OpToRel
<1>3. QED
    BY <1>1, <1>2, Zenon

(* A listing of a finite set lists all of it. *)
LEMMA ListingFacts ==
    ASSUME NEW S, IsFiniteSet(S), NEW rows \in SetToSeqs(S)
    PROVE  /\ rows \in Seq(S)
           /\ \A n \in S : \E i \in 1 .. Len(rows) : rows[i] = n
<1> DEFINE N == Cardinality(S)
<1>1. N \in Nat
    BY FS_CardinalityType
<1>2. rows \in [1 .. N -> S] /\ \A i, k \in 1 .. N : i # k => rows[i] # rows[k]
    BY DEF SetToSeqs
<1>3. rows \in Injection(1 .. N, S)
    BY <1>2 DEF Injection, IsInjective
<1>4. rows \in Surjection(1 .. N, S)
    <2>1. Cardinality(1 .. N) = N
        BY <1>1, FS_Interval
    <2>2. QED
        BY <1>3, <2>1, FS_Injection
<1> HIDE DEF N
<1>5. rows \in Seq(S) /\ Len(rows) = N
    BY <1>1, <1>2
<1>6. QED
    BY <1>4, <1>5 DEF Surjection

(* The pass goes through the rows one by one: the recursive definition has *)
(* a solution on every prefix of the rows, since it has none on a shortest *)
(* one only if it has none on a shorter one.                               *)
LEMMA PassSteps ==
    ASSUME NEW rows, Len(rows) \in Nat
    PROVE  /\ canonical(rows)[0] = NoJob
           /\ \A i \in 1 .. Len(rows) :
                 canonical(rows)[i] =
                    IF Takes(rows[i], canonical(rows)[i - 1]) THEN rows[i]
                                                             ELSE canonical(rows)[i - 1]
<1> DEFINE After(i, m) == IF Takes(rows[i], m) THEN rows[i] ELSE m
           Solves(f, n) == f = [i \in 0 .. n |-> IF i = 0 THEN NoJob ELSE After(i, f[i - 1])]
           bad == {n \in Nat : n <= Len(rows) /\ ~\E f : Solves(f, n)}
<1>1. bad = {}
    <2>1. SUFFICES ASSUME bad # {} PROVE FALSE
        OBVIOUS
    <2>2. PICK n \in bad : \A k \in bad : ~(k < n)
        <3>1. bad \in SUBSET Nat
            OBVIOUS
        <3> HIDE DEF bad
        <3>2. QED
            BY <2>1, <3>1, LeastNat
    <2>3. n \in Nat /\ n <= Len(rows) /\ ~\E f : Solves(f, n)
        OBVIOUS
    <2>4. CASE n = 0
        <3>1. Solves([i \in 0 .. 0 |-> NoJob], 0)
            OBVIOUS
        <3>2. QED
            BY <2>3, <2>4, <3>1
    <2>5. CASE n # 0
        <3>1. n - 1 \in Nat /\ n - 1 <= Len(rows) /\ n - 1 \notin bad
            <4>1. n - 1 \in Nat /\ n - 1 <= Len(rows) /\ n - 1 < n
                BY <2>3, <2>5
            <4> HIDE DEF bad
            <4>2. QED
                BY <2>2, <4>1
        <3>2. PICK f : Solves(f, n - 1)
            BY <3>1
        <3> DEFINE g == [i \in 0 .. n |-> IF i < n THEN f[i] ELSE After(n, f[n - 1])]
        <3> HIDE DEF After
        <3>3. \A i \in 0 .. n - 1 : f[i] = IF i = 0 THEN NoJob ELSE After(i, f[i - 1])
            BY <3>2
        <3>4. \A i \in 0 .. n : g[i] = IF i = 0 THEN NoJob ELSE After(i, g[i - 1])
            <4> TAKE i \in 0 .. n
            <4>1. CASE i = 0
                BY <2>3, <2>5, <3>3, <4>1
            <4>2. CASE i # 0 /\ i < n
                <5>1. i \in 0 .. n - 1 /\ i - 1 \in 0 .. n /\ i - 1 < n
                    BY <2>3, <4>2
                <5>2. g[i] = f[i] /\ g[i - 1] = f[i - 1]
                    BY <4>2, <5>1
                <5>3. f[i] = After(i, f[i - 1])
                    BY <3>3, <4>2, <5>1
                <5> HIDE DEF g
                <5>4. QED
                    BY <4>2, <5>2, <5>3
            <4>3. CASE i = n
                BY <2>3, <2>5, <4>3
            <4>4. QED
                BY <2>3, <4>1, <4>2, <4>3
        <3>5. Solves(g, n)
            BY <3>4
        <3>6. QED
            BY <2>3, <3>5
    <2>6. QED
        BY <2>4, <2>5
<1>2. \E f : Solves(f, Len(rows))
    BY <1>1
<1>3. canonical(rows) = CHOOSE f : Solves(f, Len(rows))
    BY DEF canonical
<1>4. Solves(canonical(rows), Len(rows))
    BY <1>2, <1>3
<1> HIDE DEF After
<1>5. \A i \in 0 .. Len(rows) : canonical(rows)[i] =
          IF i = 0 THEN NoJob ELSE After(i, canonical(rows)[i - 1])
    BY <1>4
<1>6. \A i \in 1 .. Len(rows) : canonical(rows)[i] = After(i, canonical(rows)[i - 1])
    BY <1>5
<1>7. QED
    BY <1>5, <1>6 DEF After

(* Row n finished before row p, or at the same time with the smaller id. *)
Before(n, p) ==
    \/ finishedAt[n] < finishedAt[p]
    \/ finishedAt[n] = finishedAt[p] /\ Rank[n] < Rank[p]

(* Row p has a result and comes after every other row that has one of the  *)
(* first i rows.                                                           *)
BestOf(p, rows, i) ==
    /\ \E k \in 1 .. i : p = rows[k]
    /\ result[p] # NoResult
    /\ \A k \in 1 .. i : result[rows[k]] # NoResult => rows[k] = p \/ Before(rows[k], p)

NoneOf(rows, i) == \A k \in 1 .. i : result[rows[k]] = NoResult

(* Of two rows with results, the later one stands in for both. *)
LEMMA TakesLater ==
    ASSUME RowInv, NEW n \in Jobs, NEW p \in Jobs,
           result[n] # NoResult, result[p] # NoResult
    PROVE  /\ Later(n, p) => Before(p, n)
           /\ ~Later(n, p) => n = p \/ Before(n, p)
           /\ \A m \in Jobs : Before(m, p) /\ Before(p, n) => Before(m, n)
<1>1. finishedAt[n] # 0 /\ finishedAt[p] # 0
    BY DEF RowInv, ResultFounded
<1>2. \A m \in Jobs : finishedAt[m] \in Int /\ Rank[m] \in Int
    BY ViewConstants DEF RowInv, TypeInv, Typed, RowTypes
<1>3. Rank[n] = Rank[p] => n = p
    BY ViewConstants
<1>4. QED
    BY <1>1, <1>2, <1>3 DEF Later, Before

(* After each row, the pass holds the last to finish of the rows so far,   *)
(* or none if none of them has a result.                                   *)
LEMMA PassBest ==
    ASSUME RowInv, NEW rows \in Seq(Jobs), NEW i \in 0 .. Len(rows)
    PROVE  \/ canonical(rows)[i] = NoJob /\ NoneOf(rows, i)
           \/ canonical(rows)[i] \in Jobs /\ BestOf(canonical(rows)[i], rows, i)
<1> DEFINE c == canonical(rows)
           Good(k) == \/ c[k] = NoJob /\ NoneOf(rows, k)
                      \/ c[k] \in Jobs /\ BestOf(c[k], rows, k)
           bad == {k \in Nat : k <= Len(rows) /\ ~Good(k)}
<1>1. /\ Len(rows) \in Nat
      /\ \A k \in 1 .. Len(rows) : rows[k] \in Jobs
    OBVIOUS
<1>2. /\ c[0] = NoJob
      /\ \A k \in 1 .. Len(rows) : c[k] = IF Takes(rows[k], c[k - 1]) THEN rows[k] ELSE c[k - 1]
    BY <1>1, PassSteps
<1> HIDE DEF c
<1>3. bad = {}
    <2>1. SUFFICES ASSUME bad # {} PROVE FALSE
        OBVIOUS
    <2>2. PICK n \in bad : \A k \in bad : ~(k < n)
        <3>1. bad \in SUBSET Nat
            OBVIOUS
        <3> HIDE DEF bad
        <3>2. QED
            BY <2>1, <3>1, LeastNat
    <2>3. n \in Nat /\ n <= Len(rows) /\ ~Good(n)
        OBVIOUS
    <2>4. n # 0
        <3>1. Good(0)
            BY <1>2 DEF NoneOf
        <3>2. QED
            BY <2>3, <3>1
    <2>5. Good(n - 1)
        <3>1. n - 1 \in Nat /\ n - 1 <= Len(rows) /\ n - 1 < n
            BY <1>1, <2>3, <2>4
        <3>2. n - 1 \notin bad
            <4> HIDE DEF bad
            <4> QED
                BY <2>2, <3>1
        <3>3. QED
            BY <3>1, <3>2
    <2> DEFINE m == c[n - 1]
               r == rows[n]
    <2>6. n \in 1 .. Len(rows) /\ r \in Jobs /\ c[n] = IF Takes(r, m) THEN r ELSE m
        BY <1>1, <1>2, <2>3, <2>4
    <2>7. \A k \in 1 .. n : k = n \/ k \in 1 .. n - 1
        BY <2>3
    <2>8. \A k \in 1 .. n - 1 : k \in 1 .. n /\ rows[k] \in Jobs
        BY <1>1, <2>3
    <2>9. n \in 1 .. n
        BY <2>3, <2>4
    <2> HIDE DEF m, r, bad
    <2>10. \/ m = NoJob /\ NoneOf(rows, n - 1)
           \/ m \in Jobs /\ BestOf(m, rows, n - 1)
        BY <2>5 DEF m
    <2>11. CASE result[r] = NoResult
        <3>1. c[n] = m
            BY <2>6, <2>11 DEF Takes
        <3>2. CASE m = NoJob /\ NoneOf(rows, n - 1)
            <4>1. NoneOf(rows, n)
                BY <2>7, <2>11, <3>2 DEF NoneOf, r
            <4>2. QED
                BY <2>3, <3>1, <3>2, <4>1
        <3>3. CASE m \in Jobs /\ BestOf(m, rows, n - 1)
            <4>1. BestOf(m, rows, n)
                BY <2>7, <2>8, <2>11, <3>3 DEF BestOf, r
            <4>2. QED
                BY <2>3, <3>1, <3>3, <4>1
        <3>4. QED
            BY <2>10, <3>2, <3>3
    <2>12. CASE result[r] # NoResult /\ m = NoJob
        <3>1. c[n] = r
            BY <2>6, <2>12 DEF Takes
        <3>2. NoneOf(rows, n - 1)
            BY <2>10, <2>12, ViewConstants
        <3>3. BestOf(r, rows, n)
            BY <2>7, <2>9, <2>12, <3>2 DEF BestOf, NoneOf, r
        <3>4. QED
            BY <2>3, <2>6, <3>1, <3>3
    <2>13. CASE result[r] # NoResult /\ m # NoJob
        <3>1. m \in Jobs /\ BestOf(m, rows, n - 1) /\ result[m] # NoResult
            BY <2>10, <2>13 DEF BestOf
        <3>2. CASE Later(r, m)
            <4>1. c[n] = r
                BY <2>6, <2>13, <3>2 DEF Takes
            <4>2. /\ Before(m, r)
                  /\ \A x \in Jobs : Before(x, m) /\ Before(m, r) => Before(x, r)
                BY <2>6, <2>13, <3>1, <3>2, TakesLater
            <4>3. \A k \in 1 .. n - 1 : result[rows[k]] # NoResult => Before(rows[k], r)
                BY <2>8, <3>1, <4>2 DEF BestOf
            <4>4. BestOf(r, rows, n)
                BY <2>7, <2>9, <2>13, <4>3 DEF BestOf, r
            <4>5. QED
                BY <2>3, <2>6, <4>1, <4>4
        <3>3. CASE ~Later(r, m)
            <4>1. c[n] = m
                BY <2>6, <2>13, <3>3 DEF Takes
            <4>2. r = m \/ Before(r, m)
                BY <2>6, <2>13, <3>1, <3>3, TakesLater
            <4>3. BestOf(m, rows, n)
                BY <2>7, <2>8, <3>1, <4>2 DEF BestOf, r
            <4>4. QED
                BY <2>3, <3>1, <4>1, <4>3
        <3>4. QED
            BY <3>2, <3>3
    <2>14. QED
        BY <2>11, <2>12, <2>13
<1>4. i \in Nat /\ i <= Len(rows) /\ i \notin bad
    BY <1>1, <1>3
<1>5. Good(i)
    BY <1>4
<1>6. QED
    BY <1>5 DEF c

(* What canonicalNeedRow returns for the rows of a need, whatever order    *)
(* they are listed in.                                                     *)
LEMMA CanonicalPick ==
    ASSUME RowInv, NEW u \in Runs, NEW y \in JobIds, NEW rows \in Listings(u, y)
    PROVE  LET pick == canonicalNeedRow(rows)
               done == {n \in Group(u, y, status) : result[n] # NoResult}
           IN  /\ Group(u, y, status) # {} => pick \in Group(u, y, status)
               /\ done # {} => pick \in done /\ \A n \in done \ {pick} : Before(n, pick)
<1> DEFINE S == Group(u, y, status)
           pick == canonicalNeedRow(rows)
           done == {n \in S : result[n] # NoResult}
           last == canonical(rows)[Len(rows)]
<1>1. S \subseteq Jobs /\ IsFiniteSet(S)
    BY FS_Subset, ViewConstants DEF Group, Cells
<1>3. rows \in SetToSeqs(S)
    BY DEF Listings
<1> HIDE DEF S
<1>4. rows \in Seq(S) /\ \A n \in S : \E i \in 1 .. Len(rows) : rows[i] = n
    BY <1>1, <1>3, ListingFacts
<1>5. rows \in Seq(Jobs) /\ Len(rows) \in Nat /\ Len(rows) \in 0 .. Len(rows)
      /\ \A k \in 1 .. Len(rows) : rows[k] \in S
    <2>1. \A k \in 1 .. Len(rows) : rows[k] \in S
        BY <1>4
    <2>2. Len(rows) \in Nat /\ rows \in Seq(Jobs)
        BY <1>1, <1>4, SeqMonotonic
    <2>3. QED
        BY <2>1, <2>2
<1>6. \/ last = NoJob /\ NoneOf(rows, Len(rows))
      \/ last \in Jobs /\ BestOf(last, rows, Len(rows))
    BY <1>5, PassBest
<1>7. pick = IF last = NoJob /\ rows # <<>> THEN rows[1] ELSE last
    BY DEF canonicalNeedRow
<1>8. NoJob \notin Jobs
    BY ViewConstants
<1> HIDE DEF pick, last
<1>9. CASE last = NoJob /\ NoneOf(rows, Len(rows))
    <2>1. done = {}
        BY <1>4, <1>9 DEF NoneOf
    <2>2. ASSUME S # {} PROVE pick \in S
        <3>1. Len(rows) >= 1 /\ rows # <<>>
            BY <1>4, <1>5, <2>2
        <3>2. QED
            BY <1>5, <1>7, <1>9, <3>1
    <2>3. QED
        BY <2>1, <2>2 DEF S, pick
<1>10. CASE last \in Jobs /\ BestOf(last, rows, Len(rows))
    <2>1. pick = last /\ last \in S
        BY <1>5, <1>7, <1>8, <1>10 DEF BestOf
    <2>2. pick \in done
        BY <1>10, <2>1 DEF BestOf
    <2>3. \A n \in done \ {pick} : Before(n, pick)
        <3>1. SUFFICES ASSUME NEW n \in S, result[n] # NoResult, n # pick
                       PROVE  Before(n, pick)
            OBVIOUS
        <3>2. PICK k \in 1 .. Len(rows) : rows[k] = n
            BY <1>4
        <3>3. QED
            BY <1>10, <2>1, <3>1, <3>2 DEF BestOf
    <2>4. QED
        BY <2>1, <2>2, <2>3 DEF S, pick
<1>11. QED
    BY <1>6, <1>9, <1>10

(* Of the rows of a matrix job, canonicalNeedRow picks the one that        *)
(* finished last, in whatever order the rows come, for any number of rows  *)
(* and any times.                                                          *)
THEOREM CanonicalLast == Spec => []CanonicalIsLast
<1>1. RowInv => CanonicalIsLast
    BY CanonicalPick DEF CanonicalIsLast, Before
<1>2. QED
    BY <1>1, RowInit, RowNext, PTL DEF Spec
-----------------------------------------------------------------------------
ToldInv == RowInv /\ NeedsTold

(* What AcquireJob's lease says of need y of row j. *)
ToldRight(j, y, res) ==
    (\A n \in Cells(RunOf[j], y) : ~Contested(n)) =>
        /\ \/ \E n \in Cells(RunOf[j], y) : res = status[n]
           \/ res = NoResult /\ \A n \in Cells(RunOf[j], y) : status[n] = "skipped"
                                                             /\ lease[n] = 0
        /\ j \notin IfOverride => res = "success"

(* The rows that a granted row needs have finished, and well unless it     *)
(* asked to run in any case.                                               *)
LEMMA GrantedNeeds ==
    ASSUME RowInv, NEW j \in Jobs, status[j] # "absent", Leasable(j, status),
           NEW y \in Needs[j]
    PROVE  /\ Cells(RunOf[j], y) # {}
           /\ \A n \in Cells(RunOf[j], y) :
                 /\ n \in Jobs /\ status[n] \in Terminal
                 /\ j \notin IfOverride => status[n] = "success"
<1>1. \A n \in NeedRows(j) : n \in Jobs /\ status[n] # "absent"
    BY NeedRowsFacts DEF RowInv, PlannedRows
<1>2. \A n \in Cells(RunOf[j], y) : n \in NeedRows(j)
    BY DEF NeedRows
<1>3. Cells(RunOf[j], y) # {}
    BY PlanIsStaged
<1>4. Needs[j] # {} /\ AllTerminal(j, status)
    BY DEF Leasable
<1>5. \A n \in NeedRows(j) : status[n] \in Terminal
    BY <1>1, <1>4, AllTerminalRows
<1>6. ASSUME j \notin IfOverride, NEW n \in NeedRows(j) PROVE status[n] = "success"
    <2>1. ~AnyBlocking(j, status)
        BY <1>4, <1>6 DEF Leasable, hasDefaultIfExpr
    <2>2. status[n] \notin TerminalNonSuccess
        BY <2>1, AnyBlockingRows
    <2>3. QED
        BY <1>5, <1>6, <2>2 DEF Terminal, TerminalNonSuccess
<1>7. QED
    BY <1>1, <1>2, <1>3, <1>5, <1>6

(* A row whose runners agree has the status that its result says. *)
LEMMA ResultIsStatus ==
    ASSUME RowInv, NEW n \in Jobs, status[n] \in Terminal, ~Contested(n)
    PROVE  /\ result[n] # NoResult => result[n] = status[n]
           /\ result[n] = NoResult => status[n] = "skipped" /\ lease[n] = 0
<1>1. StatusFounded /\ ResultFounded /\ RowsHoldGrants /\ StoreTypeOK
    BY DEF RowInv, TypeInv, Typed, RowTypes
<1>2. NoResult \notin Terminal
    BY StoreConstants
<1>3. ASSUME result[n] # NoResult PROVE result[n] = status[n]
    <2>1. CASE RanTo(n, result[n])
        <3>1. PICK l \in Leases : leaseJob[l] = n /\ verdict[l] = result[n]
            BY <2>1 DEF RanTo
        <3>2. PICK m \in Leases : leaseJob[m] = n /\ verdict[m] = status[n]
            BY <1>1, <3>1 DEF StatusFounded, RanTo, Ungranted
        <3>3. QED
            BY <1>2, <1>3, <3>1, <3>2 DEF Contested
    <2>2. CASE result[n] = "skipped" /\ status[n] = "skipped"
        BY <2>2
    <2>3. QED
        BY <1>1, <1>3, <2>1, <2>2 DEF ResultFounded
<1>4. ASSUME result[n] = NoResult PROVE status[n] = "skipped" /\ lease[n] = 0
    <2>1. status[n] = "skipped" /\ Ungranted(n)
        BY <1>1, <1>4 DEF StatusFounded
    <2>2. lease[n] # 0 => lease[n] \in Leases /\ leaseJob[lease[n]] = n
        BY <1>1, StoreConstants DEF RowsHoldGrants, StoreTypeOK, Leases
    <2>3. QED
        BY <2>1, <2>2 DEF Ungranted
<1>5. QED
    BY <1>3, <1>4

(* buildNeedsOutputs tells the result of the canonical row. *)
LEMMA ToldAtList ==
    ASSUME RowInv, NEW j \in Jobs, status[j] # "absent", Leasable(j, status),
           NEW y \in Needs[j], NEW rows \in Listings(RunOf[j], y)
    PROVE  LET pick == canonicalNeedRow(rows)
           IN  pick # NoJob /\ ToldRight(j, y, result[pick])
<1> DEFINE S == Cells(RunOf[j], y)
           pick == canonicalNeedRow(rows)
<1>1. RunOf[j] \in Runs /\ y \in JobIds
    BY WorkflowTypes
<1>2. S # {} /\ \A n \in S : n \in Jobs /\ status[n] \in Terminal
                           /\ (j \notin IfOverride => status[n] = "success")
    BY GrantedNeeds
<1>3. /\ pick \in S
      /\ (\E n \in S : result[n] # NoResult) => result[pick] # NoResult
    <2>1. Group(RunOf[j], y, status) = S
        BY <1>2 DEF Group, Terminal
    <2>2. QED
        BY <1>1, <1>2, <2>1, CanonicalPick
<1>4. pick # NoJob
    BY <1>2, <1>3, ViewConstants
<1> HIDE DEF pick, S
<1>5. ASSUME \A n \in S : ~Contested(n)
      PROVE  /\ \/ \E n \in S : result[pick] = status[n]
                \/ result[pick] = NoResult /\ \A n \in S : status[n] = "skipped" /\ lease[n] = 0
             /\ j \notin IfOverride => result[pick] = "success"
    <2>1. \A n \in S : /\ result[n] # NoResult => result[n] = status[n]
                       /\ result[n] = NoResult => status[n] = "skipped" /\ lease[n] = 0
        BY <1>2, <1>5, ResultIsStatus
    <2>2. CASE result[pick] # NoResult
        BY <1>2, <1>3, <2>1, <2>2
    <2>3. CASE result[pick] = NoResult
        <3>1. \A n \in S : status[n] = "skipped" /\ lease[n] = 0
            BY <1>3, <2>1, <2>3
        <3>2. j \in IfOverride
            BY <1>2, <1>3, <3>1
        <3>3. QED
            BY <2>3, <3>1, <3>2
    <2>4. QED
        BY <2>2, <2>3
<1>6. QED
    BY <1>4, <1>5 DEF ToldRight, S, pick

(* What runners disagree about stays disagreed about. *)
LEMMA ContestedStays ==
    ASSUME TypeInv, [Next]_vars, NEW n \in Jobs, Contested(n)
    PROVE  Contested(n)'
<1>1. PICK l \in Leases, m \in Leases : /\ leaseJob[l] = n /\ leaseJob[m] = n
                                        /\ verdict[l] # NoResult
                                        /\ verdict[l] # verdict[m] /\ verdict[m] # NoResult
    BY DEF Contested
<1>2. verdict[l] \in Reports /\ verdict[m] \in Reports
    BY <1>1 DEF TypeInv, Typed, LeaseTypes
<1>3. /\ leaseJob'[l] = n /\ leaseJob'[m] = n
      /\ verdict'[l] = verdict[l] /\ verdict'[m] = verdict[m]
    BY <1>1, <1>2, BookKept
<1>4. QED
    BY <1>1, <1>3 DEF Contested

(* The row of the stream was granted, so its needs are settled. *)
LEMMA StreamRow ==
    ASSUME RowInv, sPc # "idle"
    PROVE  sJob \in Jobs /\ status[sJob] # "absent" /\ Leasable(sJob, status)
<1>1. LeaseBook /\ LeaseTypes /\ GrantedLeasable /\ PlannedRows
    BY DEF RowInv, TypeInv, Typed
<1>2. nextLease \in Leases /\ leaseJob[nextLease] = sJob
    BY <1>1 DEF LeaseBook
<1>3. sJob \in Jobs
    BY <1>1, <1>2 DEF LeaseBook, LeaseTypes
<1>4. QED
    BY <1>1, <1>2, <1>3 DEF GrantedLeasable, PlannedRows

(* From its making to its sending, a lease tells the truth. *)
LEMMA ToldNext == ToldInv /\ [Next]_vars => ToldInv'
<1> SUFFICES ASSUME ToldInv, [Next]_vars PROVE ToldInv'
    OBVIOUS
<1>1. RowInv /\ TypeInv /\ NeedsTold
    BY DEF ToldInv, RowInv
<1>2. RowInv'
    BY <1>1, RowNext
<1>3. NeedsTold <=> (sPc = "send" => \A y \in Needs[sJob] : ToldRight(sJob, y, told[y]))
    BY DEF NeedsTold, ToldRight
<1>4. SUFFICES ASSUME sPc' = "send", NEW y \in Needs[sJob']
               PROVE  ToldRight(sJob, y, told[y])'
    BY <1>2 DEF ToldInv, NeedsTold, ToldRight
<1>5. CASE LeaseRow
    <2>1. Needs[sJob'] = {}
        BY <1>4, <1>5 DEF LeaseRow
    <2>2. QED
        BY <1>4, <2>1
<1>6. CASE ListNeeds
    <2>1. sPc = "listJobs" /\ sJob' = sJob /\ UNCHANGED <<status, lease, leaseJob, verdict, result>>
        BY <1>6 DEF ListNeeds, tables, leases
    <2>2. /\ sJob \in Jobs /\ status[sJob] # "absent" /\ Leasable(sJob, status)
          /\ y \in Needs[sJob] /\ y \in JobIds
        BY <1>1, <1>4, <2>1, StreamRow, WorkflowTypes
    <2>3. PICK pick \in [Needs[sJob] -> Jobs \cup {NoJob}] :
              /\ \A z \in Needs[sJob] : \E rows \in Listings(RunOf[sJob], z) :
                     pick[z] = canonicalNeedRow(rows)
              /\ told' = [z \in JobIds |->
                             IF z \in Needs[sJob] /\ pick[z] # NoJob THEN result[pick[z]]
                                                                   ELSE NoResult]
        BY <1>6 DEF ListNeeds
    <2>4. PICK rows \in Listings(RunOf[sJob], y) : pick[y] = canonicalNeedRow(rows)
        BY <2>2, <2>3
    <2>5. pick[y] # NoJob /\ ToldRight(sJob, y, result[pick[y]])
        BY <1>1, <2>2, <2>4, ToldAtList
    <2>6. told'[y] = result[pick[y]]
        BY <2>2, <2>3, <2>5
    <2>7. QED
        BY <2>1, <2>5, <2>6 DEF ToldRight, Contested
<1>7. CASE UNCHANGED streamVars
    <2>1. sPc = "send" /\ sJob' = sJob /\ told' = told
        BY <1>4, <1>7 DEF streamVars
    <2>2. sJob \in Jobs /\ status[sJob] # "absent" /\ Leasable(sJob, status) /\ y \in Needs[sJob]
        BY <1>1, <1>4, <2>1, StreamRow
    <2>3. \A n \in Cells(RunOf[sJob], y) : n \in Jobs /\ status[n] \in Terminal
        BY <1>1, <2>2, GrantedNeeds
    <2>4. \A n \in Cells(RunOf[sJob], y) : /\ status'[n] = status[n] /\ lease'[n] = lease[n]
                                           /\ Contested(n) => Contested(n)'
        BY <1>1, <2>3, RowsFinal, ContestedStays
    <2>5. ToldRight(sJob, y, told[y])
        BY <1>1, <1>3, <2>1, <2>2
    <2>6. QED
        BY <2>1, <2>4, <2>5 DEF ToldRight
<1>8. CASE Send
    BY <1>4, <1>8 DEF Send
<1>9. QED
    BY <1>5, <1>6, <1>7, <1>8, StreamShape

(* For every workflow, any number of cells and leases, and whatever        *)
(* happens between the SELECT and the Send: a dependent is told of each of *)
(* its needs what one of the need's rows really ended with, nothing only   *)
(* of a need skipped by rule, and successes only unless it asked to run in *)
(* any case.                                                               *)
THEOREM NeedsToldRight == Spec => []NeedsTold
<1>1. Init => ToldInv
    BY RowInit DEF Init, ToldInv, NeedsTold
<1>2. ToldInv => NeedsTold
    BY DEF ToldInv
<1>3. QED
    BY <1>1, <1>2, ToldNext, PTL DEF Spec
=============================================================================
