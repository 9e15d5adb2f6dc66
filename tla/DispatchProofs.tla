--------------------------- MODULE DispatchProofs ---------------------------
(***************************************************************************)
(* What module Dispatch guarantees for every workflow, every number of     *)
(* runs, runners and concurrent calls, and every bound: the types, the     *)
(* refinement of JobLifecycle, and what leases and outcomes have to do     *)
(* with each other.                                                        *)
(***************************************************************************)
EXTENDS Dispatch, WorkflowProofs

(* A CompleteJob or ReportStatus call past its first read has resolved its *)
(* lease to a row.                                                         *)
CallsBusy ==
    \A c \in Calls : cPc[c] # "idle" => cJob[c] \in Jobs /\ cLease[c] \in Leases

TypeInv == TypeOK /\ CallsBusy

(* The start: the types hold before any handler runs. *)
LEMMA TypeInit == Init => TypeInv
BY StoreConstants, DispatchConstants
   DEF Init, TypeInv, TypeOK, StoreTypeOK, StreamTypeOK, CallTypeOK,
       RunnerTypeOK, CallsBusy, Unread, Statuses,
       RunTerminal, Leases, StreamPcs, CallPcs

(* A stream that goes on with some of the rows keeps its types. *)
LEMMA ContinueTypes ==
    ASSUME StreamTypeOK, NEW r \in Runners, NEW rest \in SUBSET Jobs,
           NEW rows \in [Jobs -> Statuses \cup {"unread"}],
           Continue(r, rest, rows)
    PROVE  /\ sPc' \in [Runners -> StreamPcs]
           /\ sBatch' \in [Runners -> SUBSET Jobs]
           /\ sCache' \in [Runners -> [Jobs -> Statuses \cup {"unread"}]]
<1>1. sPc' \in [Runners -> StreamPcs]
    BY DEF StreamTypeOK, Continue, StreamPcs
<1>2. sBatch' \in [Runners -> SUBSET Jobs]
    BY DEF StreamTypeOK, Continue
<1>3. Unread \in [Jobs -> Statuses \cup {"unread"}]
    BY DEF Unread
<1>4. sCache' \in [Runners -> [Jobs -> Statuses \cup {"unread"}]]
    BY <1>3 DEF StreamTypeOK, Continue
<1>5. QED
    BY <1>1, <1>2, <1>4

(* Every statement of every handler keeps the types. *)
LEMMA TypeNext == TypeInv /\ [Next]_vars => TypeInv'
<1> SUFFICES ASSUME TypeInv, [Next]_vars PROVE TypeInv'
    OBVIOUS
<1> USE StoreConstants, DispatchConstants
    DEF TypeInv, TypeOK, StoreTypeOK, StreamTypeOK, CallTypeOK,
        RunnerTypeOK, CallsBusy, Leases, vars, tables,
        jobsTable, streamVars, callVars, runnerVars, budgets
<1>1. ASSUME NEW u \in Runs, PlanStep(u) \/ CreateJobFails(u) PROVE TypeInv'
    <2>1. CASE CreateRun(u)
        BY <2>1 DEF CreateRun, SetRunStatus
    <2>2. CASE InsertJob(u)
        BY <2>2 DEF InsertJob, CreateJob, Missing, Statuses
    <2>3. CASE PlanFails(u)
        BY <2>3 DEF PlanFails, SetRunStatus, RunTerminal
    <2>4. CASE CreateJobFails(u)
        BY <2>4 DEF CreateJobFails
    <2>5. QED
        BY <1>1, <2>1, <2>2, <2>3, <2>4 DEF PlanStep
<1> DEFINE Rows == [Jobs -> Statuses \cup {"unread"}]
           ContinueOK == /\ sPc' \in [Runners -> StreamPcs]
                         /\ sBatch' \in [Runners -> SUBSET Jobs]
                         /\ sCache' \in [Runners -> Rows]
<1>2. ASSUME NEW r \in Runners, ListQueued(r) PROVE TypeInv'
    <2>1. Candidates \in SUBSET Jobs /\ Unread \in Rows
        BY DEF Candidates, Queued, Unread
    <2>2. ContinueOK
        BY <1>2, <2>1, ContinueTypes DEF ListQueued
    <2>3. QED
        BY <1>2, <2>2 DEF ListQueued
<1>3. ASSUME NEW r \in Runners, ReadRun(r) PROVE TypeInv'
    <2> DEFINE RowsRead(u) == [k \in Jobs |-> IF RunOf[k] = u THEN status[k]
                                                             ELSE sCache[r][k]]
               Waiting(u) == {k \in sBatch[r] : /\ RunOf[k] = u
                                                /\ ~AllTerminal(k, RowsRead(u))}
    <2>1. PICK j \in Jobs : Continue(r, sBatch[r] \ Waiting(RunOf[j]),
                                     RowsRead(RunOf[j]))
        BY <1>3 DEF ReadRun
    <2>2. RowsRead(RunOf[j]) \in Rows
        <3>1. sCache[r] \in Rows
            OBVIOUS
        <3>2. QED
            BY <3>1
    <2>3. sBatch[r] \ Waiting(RunOf[j]) \in SUBSET Jobs
        OBVIOUS
    <2> HIDE DEF RowsRead, Waiting
    <2>4. ContinueOK
        BY <2>1, <2>2, <2>3, ContinueTypes
    <2>5. QED
        BY <1>3, <2>4 DEF ReadRun
<1>4. ASSUME NEW r \in Runners, CandidateLost(r) PROVE TypeInv'
    <2>1. PICK j \in Jobs : Continue(r, sBatch[r] \ {j}, sCache[r])
        BY <1>4 DEF CandidateLost
    <2>2. sBatch[r] \ {j} \in SUBSET Jobs /\ sCache[r] \in Rows
        OBVIOUS
    <2>3. ContinueOK
        BY <2>1, <2>2, ContinueTypes
    <2>4. QED
        BY <1>4, <2>3 DEF CandidateLost
<1>5. ASSUME NEW r \in Runners, SkipCandidate(r) PROVE TypeInv'
    BY <1>5 DEF SkipCandidate, TransitionStatus, StreamPcs, Statuses, Terminal
<1>6. ASSUME NEW r \in Runners, SkipCandidateResult(r) PROVE TypeInv'
    <2>1. sBatch[r] \in SUBSET Jobs /\ sCache[r] \in Rows
        OBVIOUS
    <2>2. ContinueOK
        BY <1>6, <2>1, ContinueTypes DEF SkipCandidateResult
    <2>3. QED
        BY <1>6, <2>2 DEF SkipCandidateResult, SetResult, Terminal
<1>7. ASSUME NEW r \in Runners, LeaseCandidate(r) PROVE TypeInv'
    <2>1. PICK j \in Jobs : Lease(j, nextLease + 1, r) /\ LeaseApplies(j)
                            /\ leaseJob' = [leaseJob EXCEPT ![nextLease + 1] = j]
                            /\ sJob' = [sJob EXCEPT ![r] = j]
        BY <1>7 DEF LeaseCandidate
    <2>2. nextLease + 1 \in Leases /\ nextLease' = nextLease + 1
        BY <1>7 DEF LeaseCandidate
    <2>3. StoreTypeOK'
        <3>1. /\ status' = [status EXCEPT ![j] = "leased"]
              /\ lease' = [lease EXCEPT ![j] = nextLease + 1]
              /\ holder' = [holder EXCEPT ![j] = r]
              /\ expired' = expired \ {j}
              /\ UNCHANGED result
            BY <2>1 DEF Lease
        <3>2. nextLease + 1 \in 0..MaxLeases
            BY <2>2
        <3>3. UNCHANGED <<outputs, runStatus>>
            BY <1>7 DEF LeaseCandidate
        <3>4. QED
            BY <3>1, <3>2, <3>3 DEF Statuses
    <2>4. StreamTypeOK'
        BY <1>7, <2>1, <2>2 DEF LeaseCandidate, Unread, StreamPcs
    <2>5. RunnerTypeOK'
        BY <1>7, <2>1, <2>2 DEF LeaseCandidate
    <2>6. QED
        BY <1>7, <2>3, <2>4, <2>5 DEF LeaseCandidate
<1>8. ASSUME NEW r \in Runners, SendLease(r) PROVE TypeInv'
    <2>1. StreamTypeOK'
        BY <1>8 DEF SendLease, Rewind, Unread, StreamPcs
    <2>2. RunnerTypeOK'
        BY <1>8 DEF SendLease
    <2>3. QED
        BY <1>8, <2>1, <2>2 DEF SendLease
<1>9. ASSUME NEW r \in Runners,
             StreamFails(r) \/ StreamCloses(r) \/ RunnerDies(r)
      PROVE  TypeInv'
    <2>1. ASSUME NEW pc \in StreamPcs, Rewind(r, pc) PROVE StreamTypeOK'
        BY <2>1 DEF Rewind, Unread
    <2>2. CASE StreamFails(r)
        BY <2>1, <2>2 DEF StreamFails, StreamPcs
    <2>3. CASE StreamCloses(r)
        BY <2>1, <2>3 DEF StreamCloses, StreamPcs
    <2>4. CASE RunnerDies(r)
        BY <2>4 DEF RunnerDies
    <2>5. QED
        BY <1>9, <2>2, <2>3, <2>4
<1>10. ASSUME NEW c \in Calls, ReportRunning(c) PROVE TypeInv'
    BY <1>10 DEF ReportRunning, Enter, CallPcs
<1>11. ASSUME NEW c \in Calls, ReportTransition(c) PROVE TypeInv'
    BY <1>11 DEF ReportTransition, TransitionStatus, Leave, CallPcs, Statuses
<1>12. ASSUME NEW c \in Calls, NEW l \in Leases, CompleteJob(c, l) PROVE TypeInv'
    BY <1>12 DEF CompleteJob, Enter, CallPcs
<1>13. ASSUME NEW c \in Calls, CompleteSetResult(c) PROVE TypeInv'
    BY <1>13 DEF CompleteSetResult, Goto, SetResult, CallPcs
<1>14. ASSUME NEW c \in Calls, CompleteToRunning(c) PROVE TypeInv'
    BY <1>14 DEF CompleteToRunning, Goto, TransitionStatus, CallPcs, Statuses
<1>15. ASSUME NEW c \in Calls, CompleteToTerminal(c) PROVE TypeInv'
    BY <1>15 DEF CompleteToTerminal, Goto, TransitionStatus, TransitionApplies,
                 isLegalJobTransition, jobTransitions, CallPcs, Statuses, Terminal
<1>16. ASSUME NEW c \in Calls, CompleteOutputs(c) PROVE TypeInv'
    BY <1>16 DEF CompleteOutputs, Goto, UpsertOutputs, CallPcs
<1>17. ASSUME NEW c \in Calls, GateList(c) PROVE TypeInv'
    BY <1>17 DEF GateList, Goto, PassDone, CallPcs
<1>18. ASSUME NEW c \in Calls, GateSkip(c) PROVE TypeInv'
    BY <1>18 DEF GateSkip, Goto, TransitionStatus, CallPcs, Statuses, Terminal
<1>19. ASSUME NEW c \in Calls, GateSkipLost(c) PROVE TypeInv'
    BY <1>19 DEF GateSkipLost, Goto, PassDone, CallPcs
<1>20. ASSUME NEW c \in Calls, GateSkipResult(c) PROVE TypeInv'
    BY <1>20 DEF GateSkipResult, Goto, PassDone, SetResult, CallPcs, Terminal
<1>21. ASSUME NEW c \in Calls, FinalizeList(c) PROVE TypeInv'
    <2>1. RollUp(RunOfCall(c), status) \in RunTerminal
        BY DEF RollUp, RunTerminal
    <2>2. cRollUp' \in [Calls -> RunTerminal \cup {"queued"}]
        BY <1>21, <2>1 DEF FinalizeList
    <2>3. /\ cPc[c] # "idle"
          /\ \/ cPc' = [cPc EXCEPT ![c] = "setRun"]
             \/ cPc' = [cPc EXCEPT ![c] = "reply"]
          /\ UNCHANGED <<cLease, cJob, cTodo, cSkip, cProgressed>>
        BY <1>21 DEF FinalizeList, Goto
    <2>4. cPc' \in [Calls -> CallPcs]
        BY <2>3 DEF CallPcs
    <2>5. \A d \in Calls : cPc'[d] # "idle" => cPc[d] # "idle"
        BY <2>3
    <2>6. QED
        BY <1>21, <2>2, <2>3, <2>4, <2>5 DEF FinalizeList
<1>22. ASSUME NEW c \in Calls, FinalizeSet(c) PROVE TypeInv'
    BY <1>22 DEF FinalizeSet, Goto, SetRunStatus, CallPcs
<1>23. ASSUME NEW c \in Calls, Reply(c) \/ GateFails(c) \/ CallFails(c) PROVE TypeInv'
    <2>1. CASE Reply(c)
        <3>1. CallTypeOK' /\ CallsBusy'
            BY <2>1 DEF Reply, Leave, CallPcs
        <3>2. RunnerTypeOK'
            BY <2>1 DEF Reply
        <3>3. QED
            BY <2>1, <3>1, <3>2 DEF Reply
    <2>2. CASE GateFails(c)
        BY <2>2 DEF GateFails, Goto, CallPcs
    <2>3. CASE CallFails(c)
        BY <2>3 DEF CallFails, Leave, CallPcs
    <2>4. QED
        BY <1>23, <2>1, <2>2, <2>3
<1>24. ASSUME NEW l \in Leases, CompleteStale(l) \/ HeartbeatRenew(l) PROVE TypeInv'
    <2>1. CASE CompleteStale(l)
        BY <2>1 DEF CompleteStale
    <2>2. CASE HeartbeatRenew(l)
        BY <2>2 DEF HeartbeatRenew, RenewLease
    <2>3. QED
        BY <1>24, <2>1, <2>2
<1>25. ASSUME NEW j \in Jobs, LeaseLapses(j) PROVE TypeInv'
    BY <1>25, SMTT(30) DEF LeaseLapses
<1>26. ASSUME ReapJobs PROVE TypeInv'
    BY <1>26 DEF ReapJobs, RequeueExpired, Statuses
<1>27. CASE UNCHANGED vars
    BY <1>27
<1>28. QED
    BY <1>1, <1>2, <1>3, <1>4, <1>5, <1>6, <1>7, <1>8, <1>9, <1>10, <1>11,
       <1>12, <1>13, <1>14, <1>15, <1>16, <1>17, <1>18, <1>19, <1>20, <1>21,
       <1>22, <1>23, <1>24, <1>25, <1>26, <1>27
    DEF Next, StreamStep, CallStep

(* Every column and every handler's local state keep their types. *)
THEOREM TypeCorrect == Spec => []TypeOK
<1>1. TypeInv => TypeOK
    BY DEF TypeInv
<1>2. QED
    BY <1>1, TypeInit, TypeNext, PTL DEF Spec
-----------------------------------------------------------------------------
(* Refinement.  The decisions of AcquireJob and gateRun are taken on rows  *)
(* read earlier.  They are still right when acted upon because a row is    *)
(* inserted after all the rows it needs, a snapshot is read after the      *)
(* candidates it decides about, and a finished row never changes.          *)

NeedsInserted ==
    \A j \in Jobs : status[j] # "absent"
        => \A n \in NeedRows(j) : status[n] # "absent"

(* Candidates exist, and no row that one of them needs was missing when    *)
(* the cached rows were read.                                              *)
BatchInserted ==
    \A r \in Runners : \A j \in sBatch[r] :
        /\ status[j] # "absent"
        /\ \A n \in NeedRows(j) : sCache[r][n] # "absent"

(* What a cached row says about a finished job is still so. *)
CacheTrue ==
    \A r \in Runners : \A n \in Jobs :
        sCache[r][n] \in Terminal => status[n] = sCache[r][n]

(* The rows gateRun set out to skip are still to be skipped by rule. *)
TodoTrue ==
    \A c \in Calls : \A j \in cTodo[c] :
        status[j] # "absent" /\ SkipByRule(j, status)

GateInv == TypeInv /\ NeedsInserted /\ BatchInserted /\ CacheTrue /\ TodoTrue

(* The gating decisions of the abstract specification are the ones of      *)
(* module Workflow.                                                        *)
LEMMA SameDecisions ==
    ASSUME NEW j \in Jobs
    PROVE  /\ Leasable(j, status) <=> Lifecycle!Leasable(j, status)
           /\ SkipByRule(j, status) <=> Lifecycle!SkipByRule(j, status)
           /\ Terminal = Lifecycle!Terminal
BY DEF Leasable, Lifecycle!Leasable, SkipByRule, Lifecycle!SkipByRule,
       AllTerminal, Lifecycle!AllTerminal, AnyBlocking, Lifecycle!AnyBlocking,
       hasDefaultIfExpr, Lifecycle!hasDefaultIfExpr, Group, Lifecycle!Group,
       Cells, Lifecycle!Cells, Terminal, Lifecycle!Terminal,
       TerminalNonSuccess, Lifecycle!TerminalNonSuccess

(* A candidate's verdict on the cached rows is its verdict now. *)
LEMMA CandidateDecided ==
    ASSUME GateInv, NEW r \in Runners, NEW j \in Jobs, At(r, j)
    PROVE  /\ SkipByRule(j, sCache[r]) => SkipByRule(j, status)
           /\ Leasable(j, sCache[r]) => Leasable(j, status)
<1>1. \A n \in NeedRows(j) : n \in Jobs
    BY NeedRowsFacts
<1>2. j \in sBatch[r]
    BY DEF At
<1>3. \A n \in NeedRows(j) : sCache[r][n] # "absent"
    BY <1>2 DEF GateInv, BatchInserted
<1>4. \A n \in NeedRows(j) : sCache[r][n] \in Terminal => status[n] = sCache[r][n]
    BY <1>1 DEF GateInv, CacheTrue
<1>5. QED
    BY <1>3, <1>4, DecisionsAgree

(* A transition through the conditional UPDATE, as the abstract            *)
(* specification sees it.                                                  *)
LEMMA TransitionMoves ==
    ASSUME StoreTypeOK, NEW j \in Jobs, NEW from, NEW to,
           TransitionStatus(j, from, to)
    PROVE  \/ status' = status
           \/ TransitionApplies(j, from, to) /\ Lifecycle!Move(j, from, to)
<1>1. CASE TransitionApplies(j, from, to)
    BY <1>1 DEF TransitionStatus, TransitionApplies, Lifecycle!Move, StoreTypeOK
<1>2. CASE ~TransitionApplies(j, from, to)
    BY <1>2 DEF TransitionStatus, StoreTypeOK
<1>3. QED
    BY <1>1, <1>2

(* Every step moves the status column as a step of JobLifecycle or not at  *)
(* all.                                                                    *)
LEMMA StepRefines == GateInv /\ [Next]_vars => [Lifecycle!Next]_status
<1> SUFFICES ASSUME GateInv, [Next]_vars PROVE [Lifecycle!Next]_status
    OBVIOUS
<1> USE DEF tables, jobsTable, vars
<1>1. StoreTypeOK /\ CallsBusy
    BY DEF GateInv, TypeInv, TypeOK
<1>2. ASSUME NEW u \in Runs, InsertJob(u) PROVE Lifecycle!Next
    <2>1. PICK j \in Missing(u) : /\ \A k \in Missing(u) : Stage[j] <= Stage[k]
                                  /\ CreateJob(j)
        BY <1>2 DEF InsertJob
    <2>2. j \in Jobs /\ RunOf[j] = u /\ status[j] = "absent"
        BY <2>1 DEF Missing
    <2>3. \A k \in Jobs : RunOf[k] = RunOf[j] /\ Stage[k] < Stage[j]
                              => status[k] # "absent"
        BY <2>1, <2>2, WorkflowTypes DEF Missing
    <2>4. Lifecycle!Plan(j)
        BY <2>1, <2>2, <2>3 DEF CreateJob, Lifecycle!Plan, Lifecycle!Move
    <2>5. QED
        BY <2>2, <2>4 DEF Lifecycle!Next
<1>3. ASSUME NEW r \in Runners, SkipCandidate(r) PROVE [Lifecycle!Next]_status
    <2>1. PICK j \in Jobs : /\ At(r, j)
                            /\ SkipByRule(j, sCache[r])
                            /\ TransitionStatus(j, "queued", "skipped")
        BY <1>3 DEF SkipCandidate
    <2>2. Lifecycle!SkipByRule(j, status)
        BY <2>1, CandidateDecided, SameDecisions
    <2>3. QED
        BY <1>1, <2>1, <2>2, TransitionMoves DEF Lifecycle!Next, Lifecycle!Skip
<1>4. ASSUME NEW r \in Runners, LeaseCandidate(r) PROVE Lifecycle!Next
    <2>1. PICK j \in Jobs : /\ At(r, j)
                            /\ Leasable(j, sCache[r])
                            /\ LeaseApplies(j)
                            /\ Lease(j, nextLease + 1, r)
        BY <1>4 DEF LeaseCandidate
    <2>2. Lifecycle!Leasable(j, status)
        BY <2>1, CandidateDecided, SameDecisions
    <2>3. Lifecycle!Move(j, "queued", "leased")
        BY <2>1 DEF Lease, LeaseApplies, Lifecycle!Move
    <2>4. QED
        BY <2>2, <2>3 DEF Lifecycle!Next, Lifecycle!Lease
<1>5. ASSUME NEW c \in Calls, GateSkip(c) PROVE [Lifecycle!Next]_status
    <2>1. PICK j \in cTodo[c] : TransitionStatus(j, "queued", "skipped")
        BY <1>5 DEF GateSkip
    <2>2. j \in Jobs
        BY <2>1 DEF GateInv, TypeInv, TypeOK, CallTypeOK
    <2>3. Lifecycle!SkipByRule(j, status)
        BY <2>1, <2>2, SameDecisions DEF GateInv, TodoTrue
    <2>4. QED
        BY <1>1, <2>1, <2>2, <2>3, TransitionMoves DEF Lifecycle!Next, Lifecycle!Skip
<1>6. ASSUME NEW c \in Calls, ReportTransition(c) \/ CompleteToRunning(c)
      PROVE  [Lifecycle!Next]_status
    <2>1. cJob[c] \in Jobs /\ TransitionStatus(cJob[c], "leased", "running")
        BY <1>1, <1>6 DEF ReportTransition, CompleteToRunning, Goto, CallsBusy
    <2>2. QED
        BY <1>1, <2>1, TransitionMoves DEF Lifecycle!Next, Lifecycle!Start
<1>7. ASSUME NEW c \in Calls, CompleteToTerminal(c) PROVE [Lifecycle!Next]_status
    <2>1. /\ cJob[c] \in Jobs
          /\ TransitionStatus(cJob[c], "running", verdict[cLease[c]])
        BY <1>1, <1>7 DEF CompleteToTerminal, Goto, CallsBusy
    <2>2. TransitionApplies(cJob[c], "running", verdict[cLease[c]])
            => verdict[cLease[c]] \in Lifecycle!Terminal
        BY DEF TransitionApplies, isLegalJobTransition, jobTransitions,
               Lifecycle!Terminal
    <2>3. QED
        BY <1>1, <2>1, <2>2, TransitionMoves DEF Lifecycle!Next, Lifecycle!Finish
<1>8. ASSUME ReapJobs PROVE Lifecycle!Next
    <2>1. ExpiredRows \in SUBSET {j \in Jobs : status[j] = "leased"}
        BY <1>1 DEF ExpiredRows, StoreTypeOK
    <2>2. status' = [j \in Jobs |-> IF j \in ExpiredRows THEN "queued" ELSE status[j]]
        BY <1>8 DEF ReapJobs, RequeueExpired
    <2>3. QED
        BY <2>1, <2>2 DEF Lifecycle!Next, Lifecycle!Requeue
<1>9. ASSUME NEW u \in Runs, CreateRun(u) \/ PlanFails(u) \/ CreateJobFails(u) PROVE status' = status
    BY <1>9 DEF CreateRun, PlanFails, CreateJobFails
<1>10. ASSUME NEW r \in Runners,
              \/ ListQueued(r) \/ ReadRun(r) \/ CandidateLost(r)
              \/ SkipCandidateResult(r) \/ SendLease(r) \/ StreamCloses(r)
              \/ StreamFails(r) \/ RunnerDies(r)
       PROVE  status' = status
    BY <1>10 DEF ListQueued, ReadRun, CandidateLost, SkipCandidateResult,
                 SetResult, SendLease, StreamCloses, StreamFails, RunnerDies
<1>11. ASSUME NEW c \in Calls,
              \/ ReportRunning(c) \/ CompleteSetResult(c) \/ CompleteOutputs(c)
              \/ GateList(c) \/ GateSkipLost(c) \/ GateSkipResult(c)
              \/ FinalizeList(c) \/ FinalizeSet(c) \/ Reply(c)
              \/ GateFails(c) \/ CallFails(c)
       PROVE  status' = status
    BY <1>11 DEF ReportRunning, CompleteSetResult, SetResult, CompleteOutputs,
                 GateList, GateSkipLost, GateSkipResult, FinalizeList,
                 FinalizeSet, Reply, GateFails, CallFails
<1>12. ASSUME NEW l \in Leases,
              \/ CompleteStale(l) \/ HeartbeatRenew(l)
              \/ \E c \in Calls : CompleteJob(c, l)
       PROVE  status' = status
    BY <1>12 DEF CompleteStale, HeartbeatRenew, RenewLease, CompleteJob
<1>13. ASSUME NEW j \in Jobs, LeaseLapses(j) PROVE status' = status
    BY <1>13 DEF LeaseLapses
<1>14. QED
    BY <1>2, <1>3, <1>4, <1>5, <1>6, <1>7, <1>8, <1>9, <1>10, <1>11, <1>12, <1>13
    DEF Next, PlanStep, StreamStep, CallStep

(* In the abstract specification finished rows are final, and rows stay. *)
LEMMA RowsSettle ==
    ASSUME StoreTypeOK, [Lifecycle!Next]_status, NEW j \in Jobs
    PROVE  /\ status[j] \in Terminal => status'[j] = status[j]
           /\ status[j] # "absent" => status'[j] # "absent"
BY DEF StoreTypeOK, Lifecycle!Next, Lifecycle!Plan, Lifecycle!Lease,
       Lifecycle!Skip, Lifecycle!Start, Lifecycle!Finish, Lifecycle!Requeue,
       Lifecycle!Move, Lifecycle!Terminal, Terminal

(* How the candidates and the cached rows of a stream may change. *)
StreamStepShape(r) ==
    \/ sBatch'[r] \subseteq sBatch[r] /\ sCache'[r] = sCache[r]
    \/ sBatch'[r] = {} /\ sCache'[r] = Unread
    \/ /\ status' = status
       /\ sBatch'[r] \subseteq Queued
       /\ sCache'[r] = Unread
    \/ /\ status' = status
       /\ sBatch'[r] \subseteq sBatch[r]
       /\ \E u : sCache'[r] = [k \in Jobs |-> IF RunOf[k] = u THEN status[k]
                                                             ELSE sCache[r][k]]

(* An AcquireJob stream changes its batch and its cached rows in no other  *)
(* way, whichever handler runs.                                            *)
LEMMA StreamShapes ==
    ASSUME TypeInv, [Next]_vars, NEW r \in Runners
    PROVE  StreamStepShape(r)
<1> USE DEF tables, jobsTable, vars, streamVars, StreamStepShape
<1>1. StreamTypeOK
    BY DEF TypeInv, TypeOK
<1>2. ASSUME NEW q \in Runners, ListQueued(q) PROVE StreamStepShape(r)
    BY <1>1, <1>2 DEF ListQueued, Continue, Candidates, StreamTypeOK
<1>3. ASSUME NEW q \in Runners, ReadRun(q) PROVE StreamStepShape(r)
    <2>1. PICK u, waiting : /\ Continue(q, sBatch[q] \ waiting,
                                       [k \in Jobs |-> IF RunOf[k] = u THEN status[k]
                                                                      ELSE sCache[q][k]])
                            /\ status' = status
        BY <1>3 DEF ReadRun
    <2>2. CASE r = q
        BY <1>1, <2>1, <2>2 DEF Continue, StreamTypeOK
    <2>3. CASE r # q
        BY <1>1, <2>1, <2>3 DEF Continue, StreamTypeOK
    <2>4. QED
        BY <2>2, <2>3
<1>4. ASSUME NEW q \in Runners, CandidateLost(q) PROVE StreamStepShape(r)
    BY <1>1, <1>4 DEF CandidateLost, Continue, StreamTypeOK
<1>5. ASSUME NEW q \in Runners, SkipCandidate(q) PROVE StreamStepShape(r)
    BY <1>1, <1>5 DEF SkipCandidate, StreamTypeOK
<1>6. ASSUME NEW q \in Runners, SkipCandidateResult(q) PROVE StreamStepShape(r)
    BY <1>1, <1>6 DEF SkipCandidateResult, Continue, StreamTypeOK
<1>7. ASSUME NEW q \in Runners, LeaseCandidate(q) PROVE StreamStepShape(r)
    BY <1>1, <1>7 DEF LeaseCandidate, StreamTypeOK
<1>8. ASSUME NEW q \in Runners, SendLease(q) \/ StreamFails(q) \/ StreamCloses(q)
      PROVE  StreamStepShape(r)
    <2>1. PICK pc : Rewind(q, pc)
        BY <1>8 DEF SendLease, StreamFails, StreamCloses
    <2>2. QED
        BY <1>1, <2>1 DEF Rewind, StreamTypeOK
<1>9. ASSUME UNCHANGED streamVars PROVE StreamStepShape(r)
    BY <1>9
<1>10. ASSUME NEW u \in Runs, PlanStep(u) \/ CreateJobFails(u)
       PROVE  UNCHANGED streamVars
    BY <1>10 DEF PlanStep, CreateRun, InsertJob, PlanFails, CreateJobFails
<1>11. ASSUME NEW c \in Calls,
              CallStep(c) \/ ReportRunning(c) \/ GateFails(c) \/ CallFails(c)
       PROVE  UNCHANGED streamVars
    BY <1>11 DEF CallStep, ReportTransition, CompleteSetResult, CompleteToRunning,
                 CompleteToTerminal, CompleteOutputs, GateList, GateSkip,
                 GateSkipLost, GateSkipResult, FinalizeList, FinalizeSet, Reply,
                 ReportRunning, GateFails, CallFails
<1>12. ASSUME \/ \E l \in Leases : \/ CompleteStale(l) \/ HeartbeatRenew(l)
                                   \/ \E c \in Calls : CompleteJob(c, l)
              \/ \E j \in Jobs : LeaseLapses(j)
              \/ \E q \in Runners : RunnerDies(q)
              \/ ReapJobs
       PROVE  UNCHANGED streamVars
    BY <1>12 DEF CompleteStale, HeartbeatRenew, CompleteJob, LeaseLapses,
                 RunnerDies, ReapJobs
<1>13. QED
    BY <1>2, <1>3, <1>4, <1>5, <1>6, <1>7, <1>8, <1>9, <1>10, <1>11, <1>12
    DEF Next, StreamStep

(* gateRun only adds rows to its pass that it has just read as skippable. *)
TodoStepShape(c) ==
    \/ cTodo'[c] \subseteq cTodo[c]
    \/ status' = status /\ \A j \in cTodo'[c] : /\ status[j] = "queued"
                                                /\ SkipByRule(j, status)

(* A gateRun call's list of rows to skip only shrinks, until the next pass *)
(* reads it anew.                                                          *)
LEMMA TodoShapes ==
    ASSUME TypeInv, [Next]_vars, NEW c \in Calls
    PROVE  TodoStepShape(c)
<1> USE DEF tables, vars, callVars, TodoStepShape
<1>1. CallTypeOK
    BY DEF TypeInv, TypeOK
<1>2. ASSUME NEW d \in Calls, GateList(d) PROVE TodoStepShape(c)
    BY <1>1, <1>2 DEF GateList, CallTypeOK
<1>3. ASSUME NEW d \in Calls, GateSkip(d) \/ GateSkipLost(d) PROVE TodoStepShape(c)
    <2>1. PICK j \in cTodo[d] : cTodo' = [cTodo EXCEPT ![d] = @ \ {j}]
        BY <1>3 DEF GateSkip, GateSkipLost
    <2>2. cTodo'[c] \subseteq cTodo[c]
        BY <1>1, <2>1 DEF CallTypeOK
    <2>3. QED
        BY <2>2
<1>4. ASSUME NEW d \in Calls, ReportTransition(d) \/ Reply(d) \/ CallFails(d)
      PROVE  TodoStepShape(c)
    <2>1. cTodo' = [cTodo EXCEPT ![d] = {}]
        BY <1>4 DEF ReportTransition, Reply, CallFails, Leave
    <2>2. QED
        BY <1>1, <2>1 DEF CallTypeOK
<1>5. ASSUME NEW d \in Calls,
             \/ CompleteSetResult(d) \/ CompleteToRunning(d)
             \/ CompleteToTerminal(d) \/ CompleteOutputs(d) \/ GateSkipResult(d)
             \/ FinalizeList(d) \/ FinalizeSet(d) \/ GateFails(d)
             \/ ReportRunning(d) \/ \E l \in Leases : CompleteJob(d, l)
      PROVE  UNCHANGED cTodo
    BY <1>5 DEF CompleteSetResult, CompleteToRunning, CompleteToTerminal,
                CompleteOutputs, GateSkipResult, FinalizeList, FinalizeSet,
                GateFails, ReportRunning, CompleteJob, Enter
<1>6. ASSUME NEW u \in Runs, PlanStep(u) \/ CreateJobFails(u) PROVE UNCHANGED cTodo
    BY <1>6 DEF PlanStep, CreateRun, InsertJob, PlanFails, CreateJobFails
<1>7. ASSUME NEW r \in Runners, StreamStep(r) \/ StreamFails(r) \/ RunnerDies(r)
      PROVE  UNCHANGED cTodo
    BY <1>7 DEF StreamStep, ListQueued, ReadRun, CandidateLost, SkipCandidate,
                SkipCandidateResult, LeaseCandidate, SendLease, StreamCloses,
                StreamFails, RunnerDies
<1>8. ASSUME \/ \E l \in Leases : CompleteStale(l) \/ HeartbeatRenew(l)
             \/ \E j \in Jobs : LeaseLapses(j)
             \/ ReapJobs
      PROVE  UNCHANGED cTodo
    BY <1>8 DEF CompleteStale, HeartbeatRenew, LeaseLapses, ReapJobs
<1>9. QED
    BY <1>2, <1>3, <1>4, <1>5, <1>6, <1>7, <1>8 DEF Next, CallStep

(* The start: no snapshot has been read. *)
LEMMA GateInit == Init => GateInv
<1> SUFFICES ASSUME Init PROVE GateInv
    OBVIOUS
<1>1. TypeInv
    BY TypeInit
<1>2. NeedsInserted
    BY NeedRowsFacts DEF Init, NeedsInserted
<1>3. BatchInserted /\ TodoTrue
    BY DEF Init, BatchInserted, TodoTrue
<1>4. CacheTrue
    BY DEF Init, CacheTrue, Unread, Terminal
<1>5. QED
    BY <1>1, <1>2, <1>3, <1>4 DEF GateInv

(* Every statement keeps the snapshots in force true: what they decided    *)
(* about a row's needs is what the table says.                             *)
LEMMA GateNext == GateInv /\ [Next]_vars => GateInv'
<1> SUFFICES ASSUME GateInv, [Next]_vars PROVE GateInv'
    OBVIOUS
<1>1. TypeInv /\ TypeInv' /\ StoreTypeOK
    BY TypeNext DEF GateInv, TypeInv, TypeOK
<1>2. [Lifecycle!Next]_status
    BY StepRefines
<1>3. \A j \in Jobs : /\ status[j] \in Terminal => status'[j] = status[j]
                      /\ status[j] # "absent" => status'[j] # "absent"
    BY <1>1, <1>2, RowsSettle
<1>4. \A j \in Jobs : \A n \in NeedRows(j) : n \in Jobs
    BY NeedRowsFacts
<1>5. NeedsInserted'
    <2> SUFFICES ASSUME NEW j \in Jobs, status'[j] # "absent", NEW n \in NeedRows(j)
                 PROVE  status'[n] # "absent"
        BY DEF NeedsInserted
    <2>1. CASE status[j] # "absent"
        BY <2>1, <1>3, <1>4 DEF GateInv, NeedsInserted
    <2>2. CASE status[j] = "absent"
        <3>1. Lifecycle!Plan(j)
            BY <1>1, <1>2, <2>2 DEF Lifecycle!Next, Lifecycle!Plan, Lifecycle!Lease,
               Lifecycle!Skip, Lifecycle!Start, Lifecycle!Finish,
               Lifecycle!Requeue, Lifecycle!Move, StoreTypeOK
        <3>2. status[n] # "absent"
            BY <3>1, NeedRowsFacts DEF Lifecycle!Plan
        <3>3. QED
            BY <3>2, <1>3, <1>4
    <2>3. QED
        BY <2>1, <2>2
<1>6. BatchInserted'
    <2> SUFFICES ASSUME NEW r \in Runners, NEW j \in sBatch'[r]
                 PROVE  /\ status'[j] # "absent"
                        /\ \A n \in NeedRows(j) : sCache'[r][n] # "absent"
        BY DEF BatchInserted
    <2>1. j \in Jobs
        BY <1>1 DEF TypeInv, TypeOK, StreamTypeOK
    <2>2. StreamStepShape(r)
        BY <1>1, StreamShapes
    <2>3. CASE sBatch'[r] \subseteq sBatch[r] /\ sCache'[r] = sCache[r]
        BY <2>1, <2>3, <1>3 DEF GateInv, BatchInserted
    <2>4. CASE sBatch'[r] \subseteq Queued /\ sCache'[r] = Unread
        BY <2>1, <2>4, <1>3, <1>4 DEF Queued, Unread
    <2>5. CASE /\ sBatch'[r] \subseteq sBatch[r]
               /\ \E u : sCache'[r] = [k \in Jobs |-> IF RunOf[k] = u THEN status[k]
                                                                     ELSE sCache[r][k]]
        <3>1. status[j] # "absent" /\ \A n \in NeedRows(j) : sCache[r][n] # "absent"
            BY <2>5 DEF GateInv, BatchInserted
        <3>2. \A n \in NeedRows(j) : status[n] # "absent"
            BY <2>1, <3>1 DEF GateInv, NeedsInserted
        <3>3. QED
            BY <2>1, <2>5, <3>1, <3>2, <1>3, <1>4
    <2>6. QED
        BY <2>2, <2>3, <2>4, <2>5 DEF StreamStepShape
<1>7. CacheTrue'
    <2> SUFFICES ASSUME NEW r \in Runners, NEW n \in Jobs, sCache'[r][n] \in Terminal
                 PROVE  status'[n] = sCache'[r][n]
        BY DEF CacheTrue
    <2>1. StreamStepShape(r)
        BY <1>1, StreamShapes
    <2>2. CASE sCache'[r] = sCache[r]
        BY <2>2, <1>3 DEF GateInv, CacheTrue
    <2>3. CASE sCache'[r] = Unread
        BY <2>3 DEF Unread, Terminal
    <2>4. CASE \E u : sCache'[r] = [k \in Jobs |-> IF RunOf[k] = u THEN status[k]
                                                                  ELSE sCache[r][k]]
        BY <2>4, <1>3 DEF GateInv, CacheTrue
    <2>5. QED
        BY <2>1, <2>2, <2>3, <2>4 DEF StreamStepShape
<1>8. TodoTrue'
    <2> SUFFICES ASSUME NEW c \in Calls, NEW j \in cTodo'[c]
                 PROVE  status'[j] # "absent" /\ SkipByRule(j, status')
        BY DEF TodoTrue, SkipByRule, AllTerminal, AnyBlocking, Group
    <2>1. j \in Jobs
        BY <1>1 DEF TypeInv, TypeOK, CallTypeOK
    <2>2. status[j] # "absent" /\ SkipByRule(j, status)
        BY <1>1, TodoShapes DEF TodoStepShape, GateInv, TodoTrue
    <2>3. \A n \in NeedRows(j) : /\ status[n] # "absent"
                                 /\ status[n] \in Terminal => status'[n] = status[n]
        BY <2>1, <2>2, <1>3, <1>4 DEF GateInv, NeedsInserted
    <2>4. QED
        BY <2>1, <2>2, <2>3, <1>3, DecisionsAgree
<1>9. QED
    BY <1>1, <1>5, <1>6, <1>7, <1>8 DEF GateInv

(* Racing handlers that act on stale snapshots through conditional UPDATEs *)
(* implement the atomic lifecycle.                                         *)
THEOREM DispatchRefines == Spec => ImplementsLifecycle
<1>1. Init => Lifecycle!Init
    BY DEF Init, Lifecycle!Init
<1>2. QED
    BY <1>1, GateInit, GateNext, StepRefines, PTL
    DEF Spec, ImplementsLifecycle, Lifecycle!Spec

-----------------------------------------------------------------------------
(* What the lifecycle promises, for the dispatcher itself. *)

SafeInv == GateInv /\ NeedsSafe /\ BlockedNeverRuns

(* The ways a step can change the status of row j, and what it then rests  *)
(* on; a step that hands a row out or moves it on changes no other row.    *)
StatusShape(j) ==
    \/ status'[j] = status[j]
    \/ status[j] \in {"absent", "leased"} /\ status'[j] = "queued"
    \/ /\ status[j] = "queued"
       /\ \/ status'[j] = "leased" /\ Leasable(j, status)
          \/ status'[j] = "skipped" /\ SkipByRule(j, status)
       /\ \A k \in Jobs : k # j => status'[k] = status[k]
    \/ /\ status[j] \in {"leased", "running"}
       /\ status'[j] \in {"running"} \cup Terminal
       /\ \A k \in Jobs : k # j => status'[k] = status[k]

(* Every step moves a row in one of these ways. *)
LEMMA StatusShapes ==
    ASSUME GateInv, [Next]_vars, NEW j \in Jobs
    PROVE  StatusShape(j)
<1>1. [Lifecycle!Next]_status /\ StoreTypeOK
    BY StepRefines DEF GateInv, TypeInv, TypeOK
<1>2. CASE UNCHANGED status
    BY <1>2 DEF StatusShape
<1>3. ASSUME NEW k \in Jobs, NEW from, NEW to, Lifecycle!Move(k, from, to)
      PROVE  /\ status[k] = from /\ status'[k] = to
             /\ \A i \in Jobs : i # k => status'[i] = status[i]
    BY <1>1, <1>3 DEF Lifecycle!Move, StoreTypeOK
<1>4. ASSUME NEW k \in Jobs,
             \/ Lifecycle!Plan(k) \/ Lifecycle!Lease(k) \/ Lifecycle!Skip(k)
             \/ Lifecycle!Start(k) \/ Lifecycle!Finish(k)
      PROVE  StatusShape(j)
    BY <1>3, <1>4, SameDecisions
    DEF StatusShape, Lifecycle!Plan, Lifecycle!Lease, Lifecycle!Skip,
        Lifecycle!Start, Lifecycle!Finish, Terminal
<1>5. CASE Lifecycle!Requeue
    BY <1>5, <1>1 DEF Lifecycle!Requeue, StatusShape, StoreTypeOK
<1>6. QED
    BY <1>1, <1>2, <1>4, <1>5 DEF Lifecycle!Next

(* The two properties over the rows of module Workflow. *)
LEMMA SafeMeans ==
    /\ NeedsSafe <=>
           \A j \in Jobs : status[j] \notin {"absent", "queued"}
               => \A n \in NeedRows(j) : status[n] \in Terminal
    /\ BlockedNeverRuns <=>
           \A j \in Jobs \ IfOverride :
               (\E n \in NeedRows(j) : status[n] \in TerminalNonSuccess)
                   => status[j] \in {"absent", "queued", "skipped"}
BY DEF NeedsSafe, Lifecycle!NeedsSafe, BlockedNeverRuns, Lifecycle!BlockedNeverRuns,
       NeedRows, Lifecycle!NeedRows, Cells, Lifecycle!Cells, Terminal,
       Lifecycle!Terminal, TerminalNonSuccess, Lifecycle!TerminalNonSuccess

(* A row's needs are still finished, and as blocking, after any step. *)
LEMMA SafeNext == SafeInv /\ [Next]_vars => SafeInv'
<1> SUFFICES ASSUME SafeInv, [Next]_vars PROVE SafeInv'
    OBVIOUS
<1>1. GateInv /\ GateInv' /\ StoreTypeOK
    BY GateNext DEF SafeInv, GateInv, TypeInv, TypeOK
<1>2. \A j \in Jobs : status[j] \in Terminal => status'[j] = status[j]
    BY <1>1, StepRefines, RowsSettle
<1>3. \A j \in Jobs : StatusShape(j)
    BY <1>1, StatusShapes
<1>4. \A j \in Jobs : status[j] \notin {"absent", "queued"}
          => \A n \in NeedRows(j) : status[n] \in Terminal
    BY SafeMeans DEF SafeInv
<1>5. ASSUME NEW j \in Jobs, status[j] = "queued", status'[j] # "queued"
      PROVE  /\ \A n \in NeedRows(j) : status[n] \in Terminal
             /\ status'[j] # "skipped" /\ j \notin IfOverride
                   => \A n \in NeedRows(j) : status[n] \notin TerminalNonSuccess
    <2>1. \/ status'[j] = "leased" /\ Leasable(j, status)
          \/ status'[j] = "skipped" /\ SkipByRule(j, status)
        BY <1>3, <1>5 DEF StatusShape
    <2>2. \A n \in NeedRows(j) : status[n] # "absent"
        BY <1>1, <1>5 DEF GateInv, NeedsInserted
    <2>3. CASE Needs[j] = {}
        BY <2>3 DEF NeedRows
    <2>4. CASE Needs[j] # {}
        BY <2>1, <2>2, <2>4, AllTerminalRows, AnyBlockingRows
        DEF Leasable, SkipByRule, hasDefaultIfExpr
    <2>5. QED
        BY <2>3, <2>4
<1>6. NeedsSafe'
    <2> SUFFICES ASSUME NEW j \in Jobs, status'[j] \notin {"absent", "queued"},
                        NEW n \in NeedRows(j)
                 PROVE  status'[n] \in Terminal
        BY DEF NeedsSafe, Lifecycle!NeedsSafe, NeedRows, Lifecycle!NeedRows,
               Cells, Lifecycle!Cells, Terminal, Lifecycle!Terminal
    <2>1. n \in Jobs
        BY NeedRowsFacts
    <2>2. status[n] \in Terminal
        BY <1>3, <1>4, <1>5 DEF StatusShape
    <2>3. QED
        BY <2>1, <2>2, <1>2
<1>7. BlockedNeverRuns'
    <2> SUFFICES ASSUME NEW j \in Jobs \ IfOverride, NEW n \in NeedRows(j),
                        status'[n] \in TerminalNonSuccess
                 PROVE  status'[j] \in {"absent", "queued", "skipped"}
        BY DEF BlockedNeverRuns, Lifecycle!BlockedNeverRuns, NeedRows,
               Lifecycle!NeedRows, Cells, Lifecycle!Cells,
               TerminalNonSuccess, Lifecycle!TerminalNonSuccess
    <2>1. n \in Jobs /\ n # j
        BY NeedRowsFacts
    <2>2. CASE status[n] \in Terminal
        <3>1. status[n] \in TerminalNonSuccess
            BY <2>1, <2>2, <1>2
        <3>2. status[j] \in {"absent", "queued", "skipped"}
            BY <3>1, SafeMeans DEF SafeInv
        <3>3. QED
            BY <3>1, <3>2, <1>2, <1>3, <1>5 DEF StatusShape, Terminal
    <2>3. CASE status[n] \notin Terminal
        <3>1. status[j] \in {"absent", "queued"}
            BY <1>4, <2>3
        <3>2. QED
            BY <3>1, <2>3, <1>3, <1>5 DEF StatusShape
    <2>4. QED
        BY <2>2, <2>3
<1>8. QED
    BY <1>1, <1>6, <1>7 DEF SafeInv

(* Nothing is handed out yet. *)
LEMMA SafeInit == Init => SafeInv
<1> SUFFICES ASSUME Init PROVE SafeInv
    OBVIOUS
<1>1. \A j \in Jobs : status[j] \in {"absent", "queued"}
    BY DEF Init
<1>2. NeedsSafe /\ BlockedNeverRuns
    BY <1>1, SafeMeans
<1>3. QED
    BY <1>2, GateInit DEF SafeInv

(* Nothing is handed out or skipped before all it needs has finished, for  *)
(* any workflow, any number of streams and calls, stale as their rows are. *)
THEOREM DispatchNeedsSafe == Spec => []NeedsSafe
<1>1. SafeInv => NeedsSafe
    BY DEF SafeInv
<1>2. QED
    BY <1>1, SafeInit, SafeNext, PTL DEF Spec

(* A row without an override never reaches a runner once something it      *)
(* needs did not succeed, whichever handler gets to it first.              *)
THEOREM DispatchBlocked == Spec => []BlockedNeverRuns
<1>1. SafeInv => BlockedNeverRuns
    BY DEF SafeInv
<1>2. QED
    BY <1>1, SafeInit, SafeNext, PTL DEF Spec

(* No late, repeated or racing call and no reaper tick changes the status  *)
(* of a finished row.                                                      *)
THEOREM DispatchFinal == Spec => TerminalIsFinal
<1>1. GateInv /\ [Next]_vars
        => [\A j \in Jobs : status[j] \in Terminal => status'[j] = status[j]]_status
    BY StepRefines, RowsSettle DEF GateInv, TypeInv, TypeOK
<1>2. QED
    BY <1>1, GateInit, GateNext, PTL DEF Spec, TerminalIsFinal
-----------------------------------------------------------------------------
(***************************************************************************)
(* Leases and outcomes: a finished row carries an outcome that was         *)
(* reported for it, its result is stored, and a run's status is that of    *)
(* its finished rows, for every workflow and any number of runners, calls, *)
(* lapsed leases and faults.                                               *)
(***************************************************************************)

(* Lease ids are drawn in order. *)
GrantsInOrder ==
    \A l \in Leases : l > nextLease => leaseJob[l] = NoJob

(* A row holds only a lease that was granted for it. *)
RowsHoldGrants ==
    \A j \in Jobs : lease[j] # 0 => leaseJob[lease[j]] = j

(* A row in the queue holds no lease. *)
QueuedUnleased ==
    \A j \in Jobs : status[j] \in {"absent", "queued"} => lease[j] = 0

(* A row that was ever granted is still leasable by the rules, so it is    *)
(* never skipped by rule when the reaper has put it back into the queue.   *)
GrantedLeasable ==
    \A l \in Leases : leaseJob[l] # NoJob
        => Leasable(leaseJob[l], status) /\ status[leaseJob[l]] # "absent"

(* A call works on the row that its lease was granted for, even if the row *)
(* has lost that lease since.                                              *)
CallsGranted ==
    \A c \in Calls : cPc[c] # "idle" => leaseJob[cLease[c]] = cJob[c]

VerdictGiven ==
    \A c \in Calls : cPc[c] \notin {"idle", "report"}
        => verdict[cLease[c]] # NoResult

ResultGiven ==
    \A c \in Calls : cPc[c] \notin {"idle", "report", "setResult"}
        => result[cJob[c]] # NoResult

LeaseInv ==
    /\ GateInv
    /\ GrantsInOrder /\ RowsHoldGrants /\ QueuedUnleased /\ GrantedLeasable
    /\ CallsGranted /\ VerdictGiven /\ ResultGiven
    /\ OutcomeWasReported /\ ReportedResultStored
-----------------------------------------------------------------------------
(* How a row and its lease may change. *)
RowStepShape(j) ==
    \/ lease'[j] = lease[j] /\ status'[j] = status[j]
    \/ status[j] = "absent" /\ status'[j] = "queued" /\ lease'[j] = lease[j]
    \/ /\ status[j] = "queued" /\ status'[j] = "skipped" /\ lease'[j] = lease[j]
       /\ SkipByRule(j, status)
    \/ /\ status[j] = "queued" /\ status'[j] = "leased"
       /\ nextLease + 1 \in Leases
       /\ lease'[j] = nextLease + 1
       /\ nextLease' = nextLease + 1
       /\ leaseJob' = [leaseJob EXCEPT ![nextLease + 1] = j]
       /\ Leasable(j, status)
    \/ status[j] = "leased" /\ status'[j] = "running" /\ lease'[j] = lease[j]
    \/ /\ status[j] = "running" /\ lease'[j] = lease[j]
       /\ \E c \in Calls : /\ cPc[c] = "toTerminal" /\ cJob[c] = j
                           /\ status'[j] = verdict[cLease[c]]
    \/ status[j] = "leased" /\ status'[j] = "queued" /\ lease'[j] = 0

(* No statement changes a row and its lease in any other way. *)
LEMMA RowShapes ==
    ASSUME GateInv, [Next]_vars, NEW j \in Jobs
    PROVE  RowStepShape(j)
<1> USE DEF tables, jobsTable, vars, RowStepShape
<1>1. StoreTypeOK /\ CallsBusy /\ RunnerTypeOK
    BY DEF GateInv, TypeInv, TypeOK
<1>2. ASSUME NEW u \in Runs, InsertJob(u) PROVE RowStepShape(j)
    BY <1>1, <1>2 DEF InsertJob, CreateJob, Missing, StoreTypeOK
<1>3. ASSUME NEW k \in Jobs, NEW from, NEW to, TransitionStatus(k, from, to)
      PROVE  /\ lease' = lease
             /\ \/ status' = status
                \/ /\ TransitionApplies(k, from, to)
                   /\ status[k] = from
                   /\ status' = [status EXCEPT ![k] = to]
    <2>1. CASE TransitionApplies(k, from, to)
        BY <1>3, <2>1 DEF TransitionStatus, TransitionApplies
    <2>2. CASE ~TransitionApplies(k, from, to)
        BY <1>1, <1>3, <2>2 DEF TransitionStatus, StoreTypeOK
    <2>3. QED
        BY <2>1, <2>2
<1>4. ASSUME NEW r \in Runners, SkipCandidate(r) PROVE RowStepShape(j)
    <2>1. PICK k \in Jobs : /\ At(r, k)
                            /\ SkipByRule(k, sCache[r])
                            /\ TransitionStatus(k, "queued", "skipped")
        BY <1>4 DEF SkipCandidate
    <2>2. SkipByRule(k, status)
        BY <2>1, CandidateDecided
    <2>3. QED
        BY <1>1, <1>3, <2>1, <2>2 DEF StoreTypeOK
<1>5. ASSUME NEW r \in Runners, LeaseCandidate(r) PROVE RowStepShape(j)
    <2>1. PICK k \in Jobs : /\ At(r, k)
                            /\ Leasable(k, sCache[r])
                            /\ LeaseApplies(k)
                            /\ Lease(k, nextLease + 1, r)
                            /\ leaseJob' = [leaseJob EXCEPT ![nextLease + 1] = k]
        BY <1>5 DEF LeaseCandidate
    <2>2. Leasable(k, status)
        BY <2>1, CandidateDecided
    <2>3. nextLease + 1 \in Leases /\ nextLease' = nextLease + 1
        BY <1>1, <1>5, StoreConstants DEF LeaseCandidate, RunnerTypeOK, Leases
    <2>4. /\ status[k] = "queued"
          /\ status' = [status EXCEPT ![k] = "leased"]
          /\ lease' = [lease EXCEPT ![k] = nextLease + 1]
        BY <2>1 DEF Lease, LeaseApplies
    <2>5. QED
        BY <1>1, <2>1, <2>2, <2>3, <2>4 DEF StoreTypeOK
<1>6. ASSUME NEW c \in Calls, GateSkip(c) PROVE RowStepShape(j)
    <2>1. PICK k \in cTodo[c] : TransitionStatus(k, "queued", "skipped")
        BY <1>6 DEF GateSkip
    <2>2. k \in Jobs /\ SkipByRule(k, status)
        BY <2>1 DEF GateInv, TypeInv, TypeOK, CallTypeOK, TodoTrue
    <2>3. QED
        BY <1>1, <1>3, <2>1, <2>2 DEF StoreTypeOK
<1>7. ASSUME NEW c \in Calls, ReportTransition(c) \/ CompleteToRunning(c)
      PROVE  RowStepShape(j)
    <2>1. cJob[c] \in Jobs /\ TransitionStatus(cJob[c], "leased", "running")
        BY <1>1, <1>7 DEF ReportTransition, CompleteToRunning, Goto, CallsBusy
    <2>2. QED
        BY <1>1, <1>3, <2>1 DEF StoreTypeOK
<1>8. ASSUME NEW c \in Calls, CompleteToTerminal(c) PROVE RowStepShape(j)
    <2>1. /\ cJob[c] \in Jobs
          /\ cPc[c] = "toTerminal"
          /\ TransitionStatus(cJob[c], "running", verdict[cLease[c]])
        BY <1>1, <1>8 DEF CompleteToTerminal, Goto, CallsBusy
    <2>2. QED
        BY <1>1, <1>3, <2>1 DEF StoreTypeOK
<1>9. ASSUME ReapJobs PROVE RowStepShape(j)
    BY <1>1, <1>9 DEF ReapJobs, RequeueExpired, ExpiredRows, StoreTypeOK
<1>10. ASSUME NEW u \in Runs, CreateRun(u) \/ PlanFails(u) \/ CreateJobFails(u)
       PROVE  UNCHANGED <<status, lease>>
    BY <1>10 DEF CreateRun, PlanFails, CreateJobFails
<1>11. ASSUME NEW r \in Runners,
              \/ ListQueued(r) \/ ReadRun(r) \/ CandidateLost(r)
              \/ SkipCandidateResult(r) \/ SendLease(r) \/ StreamCloses(r)
              \/ StreamFails(r) \/ RunnerDies(r)
       PROVE  UNCHANGED <<status, lease>>
    BY <1>11 DEF ListQueued, ReadRun, CandidateLost, SkipCandidateResult,
                 SetResult, SendLease, StreamCloses, StreamFails, RunnerDies
<1>12. ASSUME NEW c \in Calls,
              \/ ReportRunning(c) \/ CompleteSetResult(c) \/ CompleteOutputs(c)
              \/ GateList(c) \/ GateSkipLost(c) \/ GateSkipResult(c)
              \/ FinalizeList(c) \/ FinalizeSet(c) \/ Reply(c)
              \/ GateFails(c) \/ CallFails(c)
       PROVE  UNCHANGED <<status, lease>>
    BY <1>12 DEF ReportRunning, CompleteSetResult, SetResult, CompleteOutputs,
                 GateList, GateSkipLost, GateSkipResult, FinalizeList,
                 FinalizeSet, Reply, GateFails, CallFails
<1>13. ASSUME \/ \E l \in Leases : \/ CompleteStale(l) \/ HeartbeatRenew(l)
                                   \/ \E c \in Calls : CompleteJob(c, l)
              \/ \E k \in Jobs : LeaseLapses(k)
       PROVE  UNCHANGED <<status, lease>>
    BY <1>13 DEF CompleteStale, HeartbeatRenew, RenewLease, CompleteJob, LeaseLapses
<1>14. QED
    BY <1>2, <1>4, <1>5, <1>6, <1>7, <1>8, <1>9, <1>10, <1>11, <1>12, <1>13
    DEF Next, PlanStep, StreamStep, CallStep

(* How the lease book and the runners' verdicts may change. *)
HistoryStep ==
    /\ \/ UNCHANGED <<nextLease, leaseJob>>
       \/ \E k \in Jobs : /\ nextLease + 1 \in Leases
                          /\ nextLease' = nextLease + 1
                          /\ leaseJob' = [leaseJob EXCEPT ![nextLease + 1] = k]
                          /\ status[k] = "queued" /\ status' = [status EXCEPT ![k] = "leased"]
                          /\ Leasable(k, status)
    /\ \A l \in Leases : verdict[l] # NoResult => verdict'[l] = verdict[l]

(* Leases are granted one by one, and a verdict is never changed. *)
LEMMA HistoryGrows ==
    ASSUME GateInv, [Next]_vars
    PROVE  HistoryStep
<1> USE DEF vars, runnerVars, HistoryStep
<1>1. StoreTypeOK /\ RunnerTypeOK
    BY DEF GateInv, TypeInv, TypeOK
<1>2. ASSUME NEW r \in Runners, LeaseCandidate(r) PROVE HistoryStep
    <2>1. PICK k \in Jobs : /\ At(r, k)
                            /\ Leasable(k, sCache[r])
                            /\ LeaseApplies(k)
                            /\ Lease(k, nextLease + 1, r)
                            /\ leaseJob' = [leaseJob EXCEPT ![nextLease + 1] = k]
        BY <1>2 DEF LeaseCandidate
    <2>2. Leasable(k, status)
        BY <2>1, CandidateDecided
    <2>3. nextLease + 1 \in Leases /\ nextLease' = nextLease + 1 /\ verdict' = verdict
        BY <1>1, <1>2, StoreConstants DEF LeaseCandidate, RunnerTypeOK, Leases
    <2>4. status[k] = "queued" /\ status' = [status EXCEPT ![k] = "leased"]
        BY <2>1 DEF Lease, LeaseApplies
    <2>5. QED
        BY <2>1, <2>2, <2>3, <2>4
<1>3. ASSUME NEW c \in Calls, NEW l \in Leases, CompleteJob(c, l) PROVE HistoryStep
    BY <1>1, <1>3 DEF CompleteJob, RunnerTypeOK
<1>4. ASSUME UNCHANGED <<nextLease, leaseJob, verdict>> PROVE HistoryStep
    BY <1>4
<1>5. ASSUME NEW u \in Runs, PlanStep(u) \/ CreateJobFails(u)
      PROVE  UNCHANGED <<nextLease, leaseJob, verdict>>
    BY <1>5 DEF PlanStep, CreateRun, InsertJob, PlanFails, CreateJobFails
<1>6. ASSUME NEW r \in Runners,
             \/ ListQueued(r) \/ ReadRun(r) \/ CandidateLost(r) \/ SkipCandidate(r)
             \/ SkipCandidateResult(r) \/ SendLease(r) \/ StreamCloses(r)
             \/ StreamFails(r) \/ RunnerDies(r)
      PROVE  UNCHANGED <<nextLease, leaseJob, verdict>>
    BY <1>6 DEF ListQueued, ReadRun, CandidateLost, SkipCandidate,
                SkipCandidateResult, SendLease, StreamCloses, StreamFails, RunnerDies
<1>7. ASSUME NEW c \in Calls,
             CallStep(c) \/ ReportRunning(c) \/ GateFails(c) \/ CallFails(c)
      PROVE  UNCHANGED <<nextLease, leaseJob, verdict>>
    BY <1>7 DEF CallStep, ReportTransition, CompleteSetResult, CompleteToRunning,
                CompleteToTerminal, CompleteOutputs, GateList, GateSkip,
                GateSkipLost, GateSkipResult, FinalizeList, FinalizeSet, Reply,
                ReportRunning, GateFails, CallFails
<1>8. ASSUME \/ \E l \in Leases : CompleteStale(l) \/ HeartbeatRenew(l)
             \/ \E j \in Jobs : LeaseLapses(j)
             \/ ReapJobs
      PROVE  UNCHANGED <<nextLease, leaseJob, verdict>>
    BY <1>8 DEF CompleteStale, HeartbeatRenew, LeaseLapses, ReapJobs
<1>9. QED
    BY <1>2, <1>3, <1>4, <1>5, <1>6, <1>7, <1>8 DEF Next, StreamStep

(* How a call may change. *)
CallStepShape(c) ==
    \/ cPc'[c] = "idle"
    \/ /\ cPc[c] # "idle"
       /\ cLease'[c] = cLease[c] /\ cJob'[c] = cJob[c]
       /\ cPc[c] = "report" => cPc'[c] = "report"
       /\ cPc[c] = "setResult" /\ cPc'[c] # "setResult"
             => result' = [result EXCEPT ![cJob[c]] = verdict[cLease[c]]]
    \/ /\ cPc[c] = "idle"
       /\ cLease'[c] \in Leases
       /\ Resolves(cLease'[c], cJob'[c])
       /\ \/ cPc'[c] = "report"
          \/ cPc'[c] = "setResult" /\ verdict'[cLease'[c]] \in Reports

(* A call keeps its lease and row, and passes "setResult" by storing. *)
LEMMA CallShapes ==
    ASSUME TypeInv, [Next]_vars, NEW c \in Calls
    PROVE  CallStepShape(c)
<1> USE DEF vars, callVars, CallStepShape
<1>1. CallTypeOK /\ RunnerTypeOK
    BY DEF TypeInv, TypeOK
<1>2. ASSUME UNCHANGED callVars PROVE CallStepShape(c)
    BY <1>2
<1>3. ASSUME NEW d \in Calls, Leave(d) PROVE CallStepShape(c)
    BY <1>1, <1>3 DEF Leave, CallTypeOK
<1>4. ASSUME NEW d \in Calls, NEW from, NEW to, Goto(d, from, to),
             from \notin {"idle", "report"},
             from = "setResult"
                => result' = [result EXCEPT ![cJob[d]] = verdict[cLease[d]]]
      PROVE  CallStepShape(c)
    BY <1>1, <1>4 DEF Goto, CallTypeOK
<1>5. ASSUME NEW d \in Calls, NEW l \in Leases, NEW j \in Jobs,
             Enter(d, l, j, "report")
      PROVE  CallStepShape(c)
    BY <1>1, <1>5 DEF Enter, CallTypeOK
<1>6. ASSUME NEW d \in Calls, NEW l \in Leases, CompleteJob(d, l)
      PROVE  CallStepShape(c)
    <2>1. PICK j \in Jobs : Enter(d, l, j, "setResult")
        BY <1>6 DEF CompleteJob
    <2>2. verdict'[l] \in Reports
        BY <1>1, <1>6 DEF CompleteJob, RunnerTypeOK
    <2>3. QED
        BY <1>1, <2>1, <2>2 DEF Enter, CallTypeOK
<1>7. ASSUME NEW d \in Calls, CallStep(d) PROVE CallStepShape(c)
    <2>1. CASE ReportTransition(d) \/ Reply(d)
        BY <1>3, <2>1 DEF ReportTransition, Reply
    <2>2. CASE CompleteSetResult(d)
        BY <1>4, <2>2 DEF CompleteSetResult, SetResult
    <2>3. CASE CompleteToRunning(d) \/ CompleteToTerminal(d) \/ CompleteOutputs(d)
        BY <1>4, <2>3 DEF CompleteToRunning, CompleteToTerminal, CompleteOutputs
    <2>4. CASE GateList(d)
        <3>1. PICK to : Goto(d, "gateList", to)
            BY <2>4 DEF GateList
        <3>2. QED
            BY <1>4, <3>1
    <2>5. CASE GateSkip(d)
        BY <1>4, <2>5 DEF GateSkip
    <2>6. CASE GateSkipLost(d)
        BY <1>4, <2>6 DEF GateSkipLost
    <2>7. CASE GateSkipResult(d)
        BY <1>4, <2>7 DEF GateSkipResult
    <2>8. CASE FinalizeList(d)
        BY <1>4, <2>8 DEF FinalizeList
    <2>9. CASE FinalizeSet(d)
        BY <1>4, <2>9 DEF FinalizeSet
    <2>10. QED
        BY <1>7, <2>1, <2>2, <2>3, <2>4, <2>5, <2>6, <2>7, <2>8, <2>9 DEF CallStep
<1>8. ASSUME NEW d \in Calls, ReportRunning(d) \/ GateFails(d) \/ CallFails(d)
      PROVE  CallStepShape(c)
    <2>1. CASE ReportRunning(d)
        BY <1>5, <2>1 DEF ReportRunning
    <2>2. CASE GateFails(d)
        BY <1>4, <2>2 DEF GateFails
    <2>3. CASE CallFails(d)
        BY <1>3, <2>3 DEF CallFails
    <2>4. QED
        BY <1>8, <2>1, <2>2, <2>3
<1>9. ASSUME \/ \E u \in Runs : PlanStep(u) \/ CreateJobFails(u)
             \/ \E r \in Runners : StreamStep(r) \/ StreamFails(r) \/ RunnerDies(r)
             \/ \E l \in Leases : CompleteStale(l) \/ HeartbeatRenew(l)
             \/ \E j \in Jobs : LeaseLapses(j)
             \/ ReapJobs
      PROVE  UNCHANGED callVars
    <2>1. CASE \E u \in Runs : PlanStep(u) \/ CreateJobFails(u)
        BY <2>1 DEF PlanStep, CreateRun, InsertJob, PlanFails, CreateJobFails
    <2>2. CASE \E r \in Runners : StreamStep(r) \/ StreamFails(r) \/ RunnerDies(r)
        BY <2>2 DEF StreamStep, ListQueued, ReadRun, CandidateLost, SkipCandidate,
                    SkipCandidateResult, LeaseCandidate, SendLease, StreamCloses,
                    StreamFails, RunnerDies
    <2>3. CASE \/ \E l \in Leases : CompleteStale(l) \/ HeartbeatRenew(l)
               \/ \E j \in Jobs : LeaseLapses(j)
               \/ ReapJobs
        BY <2>3 DEF CompleteStale, HeartbeatRenew, LeaseLapses, ReapJobs
    <2>4. QED
        BY <1>9, <2>1, <2>2, <2>3
<1>10. QED
    BY <1>2, <1>6, <1>7, <1>8, <1>9 DEF Next

(* What the rules allowed once they go on allowing. *)
LEMMA LeasableStays ==
    ASSUME GateInv, [Next]_vars, NEW j \in Jobs, status[j] # "absent",
           Leasable(j, status)
    PROVE  Leasable(j, status') /\ status'[j] # "absent"
<1>1. StoreTypeOK /\ [Lifecycle!Next]_status
    BY StepRefines DEF GateInv, TypeInv, TypeOK
<1>2. \A n \in NeedRows(j) : n \in Jobs /\ status[n] # "absent"
    BY NeedRowsFacts DEF GateInv, NeedsInserted
<1>3. \A n \in NeedRows(j) : status[n] \in Terminal => status'[n] = status[n]
    BY <1>1, <1>2, RowsSettle
<1>4. QED
    BY <1>1, <1>2, <1>3, RowsSettle, DecisionsAgree

(* Stored results stay: every SetResult stores a reported outcome or       *)
(* "skipped".                                                              *)
LEMMA ResultsStay ==
    ASSUME TypeInv, VerdictGiven, [Next]_vars, NEW j \in Jobs,
           result[j] # NoResult
    PROVE  result'[j] # NoResult
<1> USE DEF vars, tables, jobsTable
<1>1. StoreTypeOK /\ StreamTypeOK /\ CallTypeOK
    BY DEF TypeInv, TypeOK
<1>2. "skipped" # NoResult
    BY StoreConstants DEF Terminal
<1>3. ASSUME NEW k, NEW res, SetResult(k, res), res # NoResult
      PROVE  result'[j] # NoResult
    BY <1>1, <1>3 DEF SetResult, StoreTypeOK
<1>4. ASSUME NEW c \in Calls, CompleteSetResult(c) PROVE result'[j] # NoResult
    BY <1>3, <1>4 DEF CompleteSetResult, Goto, VerdictGiven
<1>5. ASSUME NEW c \in Calls, GateSkipResult(c) PROVE result'[j] # NoResult
    BY <1>2, <1>3, <1>5 DEF GateSkipResult
<1>6. ASSUME NEW r \in Runners, SkipCandidateResult(r) PROVE result'[j] # NoResult
    BY <1>2, <1>3, <1>6 DEF SkipCandidateResult
<1>7. ASSUME NEW u \in Runs, PlanStep(u) \/ CreateJobFails(u) PROVE UNCHANGED result
    BY <1>7 DEF PlanStep, CreateRun, InsertJob, CreateJob, PlanFails, CreateJobFails
<1>8. ASSUME NEW r \in Runners,
             \/ ListQueued(r) \/ ReadRun(r) \/ CandidateLost(r) \/ SkipCandidate(r)
             \/ LeaseCandidate(r) \/ SendLease(r) \/ StreamCloses(r)
             \/ StreamFails(r) \/ RunnerDies(r)
      PROVE  UNCHANGED result
    BY <1>8 DEF ListQueued, ReadRun, CandidateLost, SkipCandidate, TransitionStatus,
                LeaseCandidate, Lease, SendLease, StreamCloses, StreamFails, RunnerDies
<1>9. ASSUME NEW c \in Calls,
             \/ ReportTransition(c) \/ CompleteToRunning(c) \/ CompleteToTerminal(c)
             \/ CompleteOutputs(c) \/ GateList(c) \/ GateSkip(c) \/ GateSkipLost(c)
             \/ FinalizeList(c) \/ FinalizeSet(c) \/ Reply(c) \/ ReportRunning(c)
             \/ GateFails(c) \/ CallFails(c)
      PROVE  UNCHANGED result
    BY <1>9 DEF ReportTransition, CompleteToRunning, CompleteToTerminal,
                TransitionStatus, CompleteOutputs, GateList, GateSkip, GateSkipLost,
                FinalizeList, FinalizeSet, Reply, ReportRunning, GateFails, CallFails
<1>10. ASSUME \/ \E l \in Leases : \/ CompleteStale(l) \/ HeartbeatRenew(l)
                                   \/ \E c \in Calls : CompleteJob(c, l)
              \/ \E k \in Jobs : LeaseLapses(k)
              \/ ReapJobs
       PROVE  UNCHANGED result
    BY <1>10 DEF CompleteStale, HeartbeatRenew, RenewLease, CompleteJob, LeaseLapses,
                 ReapJobs, RequeueExpired
<1>11. QED
    BY <1>4, <1>5, <1>6, <1>7, <1>8, <1>9, <1>10 DEF Next, StreamStep, CallStep

(* The start: nothing is granted, reported or finished. *)
LEMMA LeaseInit == Init => LeaseInv
<1> SUFFICES ASSUME Init PROVE LeaseInv
    OBVIOUS
<1>1. GateInv
    BY GateInit
<1>2. GrantsInOrder /\ RowsHoldGrants /\ QueuedUnleased
    BY DEF Init, GrantsInOrder, RowsHoldGrants, QueuedUnleased
<1>3. GrantedLeasable /\ CallsGranted /\ VerdictGiven /\ ResultGiven
    BY DEF Init, GrantedLeasable, CallsGranted, VerdictGiven, ResultGiven
<1>4. OutcomeWasReported /\ ReportedResultStored
    BY DEF Init, OutcomeWasReported, ReportedResultStored, Terminal
<1>5. QED
    BY <1>1, <1>2, <1>3, <1>4 DEF LeaseInv

(* Every statement keeps the books on leases and outcomes in order. *)
LEMMA LeaseNext == LeaseInv /\ [Next]_vars => LeaseInv'
<1> SUFFICES ASSUME LeaseInv, [Next]_vars PROVE LeaseInv'
    OBVIOUS
<1>1. GateInv /\ TypeInv /\ StoreTypeOK /\ RunnerTypeOK /\ CallTypeOK /\ CallsBusy
    BY DEF LeaseInv, GateInv, TypeInv, TypeOK
<1>2. GateInv' /\ TypeInv' /\ StoreTypeOK' /\ RunnerTypeOK' /\ CallTypeOK' /\ CallsBusy'
    BY <1>1, GateNext DEF GateInv, TypeInv, TypeOK
<1>3. HistoryStep
    BY <1>1, HistoryGrows
<1>4. nextLease \in Int /\ \A l \in Leases : l \in Int
    BY <1>1, StoreConstants DEF RunnerTypeOK, Leases
<1>5. /\ \A l \in Leases : leaseJob[l] # NoJob => leaseJob'[l] = leaseJob[l]
      /\ GrantsInOrder'
    <2>1. CASE UNCHANGED <<nextLease, leaseJob>>
        BY <2>1 DEF LeaseInv, GrantsInOrder
    <2>2. ASSUME NEW k \in Jobs,
                 nextLease + 1 \in Leases,
                 nextLease' = nextLease + 1,
                 leaseJob' = [leaseJob EXCEPT ![nextLease + 1] = k]
          PROVE  /\ \A l \in Leases : leaseJob[l] # NoJob => leaseJob'[l] = leaseJob[l]
                 /\ GrantsInOrder'
        <3>1. nextLease + 1 > nextLease
            BY <1>4
        <3>2. leaseJob[nextLease + 1] = NoJob
            BY <2>2, <3>1 DEF LeaseInv, GrantsInOrder
        <3>3. \A l \in Leases : l # nextLease + 1 => leaseJob'[l] = leaseJob[l]
            BY <1>1, <2>2 DEF RunnerTypeOK
        <3>4. \A l \in Leases : l > nextLease' => l # nextLease + 1 /\ l > nextLease
            BY <1>4, <2>2
        <3>5. QED
            BY <3>2, <3>3, <3>4 DEF LeaseInv, GrantsInOrder
    <2>3. QED
        BY <1>3, <2>1, <2>2 DEF HistoryStep
<1>6. \A j \in Jobs : RowStepShape(j)
    BY <1>1, RowShapes
<1>7. \A c \in Calls : CallStepShape(c)
    BY <1>1, CallShapes
<1>8. \A j \in Jobs : result[j] # NoResult => result'[j] # NoResult
    BY <1>1, ResultsStay DEF LeaseInv
<1>9. \A l \in Leases : verdict[l] # NoResult => verdict'[l] = verdict[l]
    BY <1>3 DEF HistoryStep
<1>10. NoJob \notin Jobs /\ NoResult \notin Terminal
    BY StoreConstants, DispatchConstants
<1>11. RowsHoldGrants'
    <2> SUFFICES ASSUME NEW j \in Jobs, lease'[j] # 0
                 PROVE  leaseJob'[lease'[j]] = j
        BY DEF RowsHoldGrants
    <2>1. CASE lease'[j] = lease[j]
        <3>1. lease[j] \in Leases /\ leaseJob[lease[j]] = j
            BY <1>1, <2>1, StoreConstants DEF StoreTypeOK, Leases, LeaseInv, RowsHoldGrants
        <3>2. QED
            BY <1>5, <1>10, <2>1, <3>1
    <2>2. CASE lease'[j] # lease[j]
        BY <1>1, <1>6, <2>2 DEF RowStepShape, RunnerTypeOK
    <2>3. QED
        BY <2>1, <2>2
<1>12. QueuedUnleased'
    <2> SUFFICES ASSUME NEW j \in Jobs, status'[j] \in {"absent", "queued"}
                 PROVE  lease'[j] = 0
        BY DEF QueuedUnleased
    <2>1. \A c \in Calls : cPc[c] = "toTerminal" => verdict[cLease[c]] \in Terminal
        BY <1>1 DEF LeaseInv, VerdictGiven, CallsBusy, RunnerTypeOK
    <2>2. QED
        BY <1>6, <2>1 DEF RowStepShape, LeaseInv, QueuedUnleased, Terminal
<1>13. GrantedLeasable'
    <2> SUFFICES ASSUME NEW l \in Leases, leaseJob'[l] # NoJob
                 PROVE  /\ Leasable(leaseJob'[l], status')
                        /\ status'[leaseJob'[l]] # "absent"
        BY DEF GrantedLeasable
    <2>1. leaseJob'[l] \in Jobs
        BY <1>2 DEF RunnerTypeOK
    <2>2. Leasable(leaseJob'[l], status) /\ status[leaseJob'[l]] # "absent"
        <3>1. CASE leaseJob[l] # NoJob
            BY <1>5, <3>1 DEF LeaseInv, GrantedLeasable
        <3>2. CASE leaseJob[l] = NoJob
            BY <1>1, <1>3, <3>2 DEF HistoryStep, RunnerTypeOK
        <3>3. QED
            BY <3>1, <3>2
    <2>3. QED
        BY <1>1, <2>1, <2>2, LeasableStays
<1>14. CallsGranted'
    <2> SUFFICES ASSUME NEW c \in Calls, cPc'[c] # "idle"
                 PROVE  leaseJob'[cLease'[c]] = cJob'[c]
        BY DEF CallsGranted
    <2>1. CASE cPc[c] # "idle"
        BY <1>1, <1>5, <1>7, <1>10, <2>1
        DEF CallStepShape, LeaseInv, CallsGranted, CallsBusy
    <2>2. CASE cPc[c] = "idle"
        <3>1. /\ cLease'[c] \in Leases
              /\ cJob'[c] \in Jobs
              /\ lease[cJob'[c]] = cLease'[c]
            BY <1>7, <2>2 DEF CallStepShape, Resolves, GetByLease
        <3>2. leaseJob[cLease'[c]] = cJob'[c]
            BY <3>1 DEF LeaseInv, RowsHoldGrants, Leases
        <3>3. QED
            BY <1>5, <1>10, <3>1, <3>2
    <2>3. QED
        BY <2>1, <2>2
<1>15. VerdictGiven'
    <2> SUFFICES ASSUME NEW c \in Calls, cPc'[c] \notin {"idle", "report"}
                 PROVE  verdict'[cLease'[c]] # NoResult
        BY DEF VerdictGiven
    <2>1. CASE cPc[c] # "idle"
        BY <1>1, <1>7, <1>9, <2>1
        DEF CallStepShape, LeaseInv, VerdictGiven, CallsBusy
    <2>2. CASE cPc[c] = "idle"
        BY <1>7, <1>10, <2>2, DispatchConstants DEF CallStepShape
    <2>3. QED
        BY <2>1, <2>2
<1>16. ResultGiven'
    <2> SUFFICES ASSUME NEW c \in Calls, cPc'[c] \notin {"idle", "report", "setResult"}
                 PROVE  result'[cJob'[c]] # NoResult
        BY DEF ResultGiven
    <2>1. /\ cPc[c] \notin {"idle", "report"}
          /\ cJob'[c] = cJob[c]
          /\ cPc[c] = "setResult"
                => result' = [result EXCEPT ![cJob[c]] = verdict[cLease[c]]]
        BY <1>7 DEF CallStepShape
    <2>2. cJob[c] \in Jobs
        BY <1>1, <2>1 DEF CallsBusy
    <2>3. CASE cPc[c] = "setResult"
        BY <1>1, <2>1, <2>2, <2>3 DEF LeaseInv, VerdictGiven, StoreTypeOK
    <2>4. CASE cPc[c] # "setResult"
        BY <1>8, <2>1, <2>2, <2>4 DEF LeaseInv, ResultGiven
    <2>5. QED
        BY <2>3, <2>4
<1>17. ASSUME NEW j \in Jobs, status'[j] \in Terminal, status[j] \notin Terminal
       PROVE  \/ /\ status[j] = "queued" /\ status'[j] = "skipped"
                 /\ lease'[j] = lease[j] /\ SkipByRule(j, status)
              \/ \E c \in Calls : /\ cPc[c] = "toTerminal" /\ cJob[c] = j
                                  /\ status'[j] = verdict[cLease[c]]
    BY <1>6, <1>17 DEF RowStepShape, Terminal
<1>18. OutcomeWasReported'
    <2> SUFFICES ASSUME NEW j \in Jobs, status'[j] \in Terminal
                 PROVE  IF \E l \in Leases : leaseJob'[l] = j
                        THEN \E l \in Leases : leaseJob'[l] = j /\ verdict'[l] = status'[j]
                        ELSE status'[j] = "skipped"
        BY DEF OutcomeWasReported
    <2>1. ASSUME NEW l \in Leases, leaseJob'[l] = j, leaseJob[l] # j
          PROVE  status[j] = "queued" /\ status'[j] = "leased"
        BY <1>1, <1>3, <2>1 DEF HistoryStep, RunnerTypeOK, StoreTypeOK
    <2>2. \A l \in Leases : leaseJob'[l] = j <=> leaseJob[l] = j
        BY <1>5, <1>10, <2>1 DEF Terminal
    <2>3. CASE status[j] \in Terminal
        <3>1. status'[j] = status[j]
            BY <1>1, <2>3, StepRefines, RowsSettle
        <3>2. CASE \E l \in Leases : leaseJob[l] = j
            <4>1. PICK l \in Leases : leaseJob[l] = j /\ verdict[l] = status[j]
                BY <2>3, <3>2 DEF LeaseInv, OutcomeWasReported
            <4>2. verdict'[l] = status'[j]
                BY <1>9, <1>10, <2>3, <3>1, <4>1
            <4>3. QED
                BY <2>2, <4>1, <4>2
        <3>3. CASE ~\E l \in Leases : leaseJob[l] = j
            BY <2>2, <2>3, <3>1, <3>3 DEF LeaseInv, OutcomeWasReported
        <3>4. QED
            BY <3>2, <3>3
    <2>4. CASE status[j] \notin Terminal
        <3>1. CASE /\ status[j] = "queued" /\ status'[j] = "skipped"
                   /\ SkipByRule(j, status)
            <4>1. ~Leasable(j, status)
                BY <3>1 DEF SkipByRule, Leasable
            <4>2. \A l \in Leases : leaseJob[l] # j
                BY <1>10, <4>1 DEF LeaseInv, GrantedLeasable
            <4>3. QED
                BY <2>2, <3>1, <4>2
        <3>2. ASSUME NEW c \in Calls, cPc[c] = "toTerminal", cJob[c] = j,
                     status'[j] = verdict[cLease[c]]
              PROVE  \E l \in Leases : leaseJob'[l] = j /\ verdict'[l] = status'[j]
            <4>1. cLease[c] \in Leases /\ leaseJob[cLease[c]] = j
                BY <1>1, <3>2 DEF CallsBusy, LeaseInv, CallsGranted
            <4>2. verdict[cLease[c]] # NoResult
                BY <3>2 DEF LeaseInv, VerdictGiven
            <4>3. QED
                BY <1>9, <2>2, <3>2, <4>1, <4>2
        <3>3. QED
            BY <1>17, <2>4, <3>1, <3>2
    <2>5. QED
        BY <2>3, <2>4
<1>19. ReportedResultStored'
    <2> SUFFICES ASSUME NEW j \in Jobs, status'[j] \in Terminal, lease'[j] # 0
                 PROVE  result'[j] # NoResult
        BY DEF ReportedResultStored
    <2>1. CASE status[j] \in Terminal
        <3>1. lease'[j] = lease[j]
            BY <1>6, <2>1 DEF RowStepShape, Terminal
        <3>2. QED
            BY <1>8, <2>1, <3>1 DEF LeaseInv, ReportedResultStored
    <2>2. CASE status[j] \notin Terminal
        <3>1. PICK c \in Calls : cPc[c] = "toTerminal" /\ cJob[c] = j
            BY <1>17, <2>2 DEF LeaseInv, QueuedUnleased
        <3>2. QED
            BY <1>8, <3>1 DEF LeaseInv, ResultGiven
    <2>3. QED
        BY <2>1, <2>2
<1>20. QED
    BY <1>2, <1>5, <1>11, <1>12, <1>13, <1>14, <1>15, <1>16, <1>18, <1>19 DEF LeaseInv

(* Whatever is requeued, repeated or late, a finished row that was handed  *)
(* out carries an outcome its runners reported for it.                     *)
THEOREM OutcomesReported == Spec => []OutcomeWasReported
<1>1. LeaseInv => OutcomeWasReported
    BY DEF LeaseInv
<1>2. QED
    BY <1>1, LeaseInit, LeaseNext, PTL DEF Spec

(* A row finished by a runner has its result stored when it turns terminal. *)
THEOREM ResultsStored == Spec => []ReportedResultStored
<1>1. LeaseInv => ReportedResultStored
    BY DEF LeaseInv
<1>2. QED
    BY <1>1, LeaseInit, LeaseNext, PTL DEF Spec
-----------------------------------------------------------------------------
(* The roll-up.  CompleteJob reads the rows in finalizeRunIfComplete and   *)
(* writes workflow_runs.status in a statement of its own; what it computed *)
(* is still right then because every row of the run is there and finished, *)
(* and a finished row never changes.                                       *)

(* The planner is done with a run planned before dispatch started, and all *)
(* of its rows are there.                                                  *)
RowsThere ==
    \A u \in PrePlanned :
        plan[u] = "done" /\ \A j \in Jobs : RunOf[j] = u => status[j] # "absent"

(* The status a call is about to write is that of the run as it is now. *)
RollUpTrue ==
    \A c \in Calls : cPc[c] = "setRun" /\ RunOfCall(c) \in PrePlanned
        => /\ RunComplete(RunOfCall(c), status)
           /\ cRollUp[c] = RollUp(RunOfCall(c), status)

RollUpInv == GateInv /\ RowsThere /\ RollUpTrue /\ RollUpSound

(* How a run planned before dispatch started may change. *)
RunStepShape(u) ==
    /\ plan'[u] = plan[u]
    /\ \/ runStatus'[u] = runStatus[u]
       \/ \E c \in Calls : /\ cPc[c] = "setRun" /\ RunOfCall(c) = u
                           /\ runStatus'[u] = cRollUp[c]
                           /\ status' = status

(* How a call may come to the write of the roll-up. *)
RollUpStepShape(c) ==
    cPc'[c] = "setRun" =>
        /\ cJob'[c] = cJob[c]
        /\ \/ cPc[c] = "setRun" /\ cRollUp'[c] = cRollUp[c]
           \/ /\ cPc[c] = "finalize" /\ status' = status
              /\ RunComplete(RunOfCall(c), status)
              /\ cRollUp'[c] = RollUp(RunOfCall(c), status)

(* Only FinalizeSet writes the status of a run the planner is done with. *)
LEMMA RunShapes ==
    ASSUME TypeInv, [Next]_vars, NEW u \in Runs, plan[u] = "done"
    PROVE  RunStepShape(u)
<1> USE DEF vars, tables, jobsTable, RunStepShape
<1>1. /\ plan \in [Runs -> {"new", "inserting", "failing", "done", "failed"}]
      /\ runStatus \in [Runs -> RunTerminal \cup {"absent", "queued"}]
      /\ CallsBusy
    BY DEF TypeInv, TypeOK, StoreTypeOK
<1>2. ASSUME NEW v \in Runs, PlanStep(v) \/ CreateJobFails(v) PROVE RunStepShape(u)
    BY <1>1, <1>2 DEF PlanStep, CreateRun, InsertJob, PlanFails, CreateJobFails, SetRunStatus
<1>3. ASSUME NEW c \in Calls, FinalizeSet(c) PROVE RunStepShape(u)
    <2>1. /\ cPc[c] = "setRun"
          /\ runStatus' = [runStatus EXCEPT ![RunOfCall(c)] = cRollUp[c]]
          /\ status' = status /\ plan' = plan
        BY <1>3 DEF FinalizeSet, Goto, SetRunStatus
    <2>2. QED
        BY <1>1, <2>1
<1>4. ASSUME NEW r \in Runners, StreamStep(r) \/ StreamFails(r) \/ RunnerDies(r)
      PROVE  UNCHANGED <<plan, runStatus>>
    BY <1>4 DEF StreamStep, ListQueued, ReadRun, CandidateLost, SkipCandidate,
                SkipCandidateResult, LeaseCandidate, SendLease, StreamCloses,
                StreamFails, RunnerDies
<1>5. ASSUME NEW c \in Calls,
             \/ ReportTransition(c) \/ CompleteSetResult(c) \/ CompleteToRunning(c)
             \/ CompleteToTerminal(c) \/ CompleteOutputs(c) \/ GateList(c)
             \/ GateSkip(c) \/ GateSkipLost(c) \/ GateSkipResult(c)
             \/ FinalizeList(c) \/ Reply(c) \/ ReportRunning(c)
             \/ GateFails(c) \/ CallFails(c)
      PROVE  UNCHANGED <<plan, runStatus>>
    BY <1>5 DEF ReportTransition, CompleteSetResult, CompleteToRunning,
                CompleteToTerminal, CompleteOutputs, GateList, GateSkip, GateSkipLost,
                GateSkipResult, FinalizeList, Reply, ReportRunning, GateFails, CallFails
<1>6. ASSUME \/ \E l \in Leases : \/ CompleteStale(l) \/ HeartbeatRenew(l)
                                  \/ \E c \in Calls : CompleteJob(c, l)
             \/ \E k \in Jobs : LeaseLapses(k)
             \/ ReapJobs
      PROVE  UNCHANGED <<plan, runStatus>>
    BY <1>6 DEF CompleteStale, HeartbeatRenew, CompleteJob, LeaseLapses, ReapJobs
<1>7. QED
    BY <1>2, <1>3, <1>4, <1>5, <1>6 DEF Next, CallStep

(* A call comes to the write of the roll-up from FinalizeList only, with   *)
(* what that computed, and its row does not change.                        *)
LEMMA RollUpShapes ==
    ASSUME TypeInv, [Next]_vars, NEW c \in Calls
    PROVE  RollUpStepShape(c)
<1> USE DEF vars, tables, jobsTable, callVars, RollUpStepShape
<1>1. CallTypeOK
    BY DEF TypeInv, TypeOK
<1>2. CASE UNCHANGED callVars
    BY <1>2
<1>3. ASSUME NEW d \in Calls, Leave(d) PROVE RollUpStepShape(c)
    BY <1>1, <1>3 DEF Leave, CallTypeOK
<1>4. ASSUME NEW d \in Calls, NEW from, NEW to, Goto(d, from, to), to # "setRun",
             UNCHANGED cRollUp
      PROVE  RollUpStepShape(c)
    BY <1>1, <1>4 DEF Goto, CallTypeOK
<1>5. ASSUME NEW d \in Calls, NEW l, NEW j, NEW pc, Enter(d, l, j, pc), pc # "setRun"
      PROVE  RollUpStepShape(c)
    BY <1>1, <1>5 DEF Enter, CallTypeOK
<1>6. ASSUME NEW d \in Calls, FinalizeList(d) PROVE RollUpStepShape(c)
    <2>1. CASE RunComplete(RunOfCall(d), status)
        BY <1>1, <1>6, <2>1 DEF FinalizeList, Goto, CallTypeOK
    <2>2. CASE ~RunComplete(RunOfCall(d), status)
        BY <1>4, <1>6, <2>2 DEF FinalizeList
    <2>3. QED
        BY <2>1, <2>2
<1>7. \A todo, progressed : PassDone(todo, progressed) # "setRun"
    BY DEF PassDone
<1>8. ASSUME NEW d \in Calls, CallStep(d) \/ GateFails(d) PROVE RollUpStepShape(c)
    <2>1. CASE ReportTransition(d) \/ Reply(d)
        BY <1>3, <2>1 DEF ReportTransition, Reply
    <2>2. CASE \/ CompleteSetResult(d) \/ CompleteToRunning(d)
               \/ CompleteToTerminal(d) \/ CompleteOutputs(d) \/ FinalizeSet(d)
               \/ GateFails(d)
        BY <1>4, <2>2 DEF CompleteSetResult, CompleteToRunning, CompleteToTerminal,
                          CompleteOutputs, FinalizeSet, GateFails
    <2>3. CASE GateList(d)
        BY <1>4, <1>7, <2>3 DEF GateList
    <2>4. CASE GateSkip(d)
        BY <1>4, <2>4 DEF GateSkip
    <2>5. CASE GateSkipLost(d)
        BY <1>4, <1>7, <2>5 DEF GateSkipLost
    <2>6. CASE GateSkipResult(d)
        BY <1>4, <1>7, <2>6 DEF GateSkipResult
    <2>7. QED
        BY <1>6, <1>8, <2>1, <2>2, <2>3, <2>4, <2>5, <2>6 DEF CallStep
<1>9. ASSUME NEW d \in Calls, ReportRunning(d) \/ CallFails(d) PROVE RollUpStepShape(c)
    BY <1>3, <1>5, <1>9 DEF ReportRunning, CallFails
<1>10. ASSUME NEW d \in Calls, NEW l \in Leases, CompleteJob(d, l)
       PROVE  RollUpStepShape(c)
    BY <1>5, <1>10 DEF CompleteJob
<1>11. ASSUME NEW u \in Runs, PlanStep(u) \/ CreateJobFails(u) PROVE UNCHANGED callVars
    BY <1>11 DEF PlanStep, CreateRun, InsertJob, PlanFails, CreateJobFails
<1>12. ASSUME NEW r \in Runners, StreamStep(r) \/ StreamFails(r) \/ RunnerDies(r)
       PROVE  UNCHANGED callVars
    BY <1>12 DEF StreamStep, ListQueued, ReadRun, CandidateLost, SkipCandidate,
                 SkipCandidateResult, LeaseCandidate, SendLease, StreamCloses,
                 StreamFails, RunnerDies
<1>13. ASSUME \/ \E l \in Leases : CompleteStale(l) \/ HeartbeatRenew(l)
              \/ \E k \in Jobs : LeaseLapses(k)
              \/ ReapJobs
       PROVE  UNCHANGED callVars
    BY <1>13 DEF CompleteStale, HeartbeatRenew, LeaseLapses, ReapJobs
<1>14. QED
    BY <1>2, <1>8, <1>9, <1>10, <1>11, <1>12, <1>13 DEF Next

(* A complete run whose rows are all there stays complete and rolls up to  *)
(* the same status.                                                        *)
LEMMA RollUpStays ==
    ASSUME StoreTypeOK, [Lifecycle!Next]_status, NEW u,
           \A j \in Jobs : RunOf[j] = u => status[j] # "absent",
           RunComplete(u, status)
    PROVE  RunComplete(u, status') /\ RollUp(u, status') = RollUp(u, status)
<1>1. \A j \in Jobs : RunOf[j] = u
          => status[j] \in Terminal /\ status'[j] = status[j]
    BY RowsSettle DEF RunComplete, RowsOf
<1>2. RowsOf(u, status') = RowsOf(u, status)
    BY <1>1 DEF RowsOf
<1>3. \A j \in RowsOf(u, status) : status'[j] = status[j] /\ status[j] \in Terminal
    BY <1>1 DEF RowsOf
<1>4. RunComplete(u, status')
    BY <1>2, <1>3 DEF RunComplete
<1>5. RollUp(u, status') = RollUp(u, status)
    BY <1>2, <1>3 DEF RollUp
<1>6. QED
    BY <1>4, <1>5

(* Every statement keeps what was written, and what is about to be, true. *)
LEMMA RollUpNext == RollUpInv /\ [Next]_vars => RollUpInv'
<1> SUFFICES ASSUME RollUpInv, [Next]_vars PROVE RollUpInv'
    OBVIOUS
<1>1. GateInv /\ TypeInv /\ StoreTypeOK /\ CallTypeOK /\ RowsThere
    BY DEF RollUpInv, GateInv, TypeInv, TypeOK
<1>2. GateInv'
    BY <1>1, GateNext
<1>3. [Lifecycle!Next]_status
    BY <1>1, StepRefines
<1>4. \A u \in PrePlanned : u \in Runs /\ RunStepShape(u)
    BY <1>1, RunShapes, DispatchConstants DEF RowsThere
<1>5. RowsThere'
    BY <1>1, <1>3, <1>4, RowsSettle DEF RowsThere, RunStepShape
<1>6. \A u \in PrePlanned : RunComplete(u, status)
          => RunComplete(u, status') /\ RollUp(u, status') = RollUp(u, status)
    BY <1>1, <1>3, RollUpStays DEF RowsThere
<1>7. RollUpTrue'
    <2> SUFFICES ASSUME NEW c \in Calls, cPc'[c] = "setRun",
                        RunOf[cJob'[c]] \in PrePlanned
                 PROVE  /\ RunComplete(RunOf[cJob'[c]], status')
                        /\ cRollUp'[c] = RollUp(RunOf[cJob'[c]], status')
        BY DEF RollUpTrue, RunOfCall
    <2>1. cJob'[c] = cJob[c] /\ RunOfCall(c) \in PrePlanned
        BY <1>1, RollUpShapes DEF RollUpStepShape, RunOfCall
    <2>2. RunComplete(RunOfCall(c), status) /\ cRollUp'[c] = RollUp(RunOfCall(c), status)
        BY <1>1, <2>1, RollUpShapes DEF RollUpStepShape, RollUpInv, RollUpTrue
    <2>3. QED
        BY <1>6, <2>1, <2>2 DEF RunOfCall
<1>8. RollUpSound'
    <2> SUFFICES ASSUME NEW u \in PrePlanned, runStatus'[u] \in RunTerminal
                 PROVE  /\ RunComplete(u, status')
                        /\ runStatus'[u] = RollUp(u, status')
        BY DEF RollUpSound
    <2>1. CASE runStatus'[u] = runStatus[u]
        BY <1>6, <2>1 DEF RollUpInv, RollUpSound
    <2>2. ASSUME NEW c \in Calls, cPc[c] = "setRun", RunOfCall(c) = u,
                 runStatus'[u] = cRollUp[c]
          PROVE  /\ RunComplete(u, status')
                 /\ runStatus'[u] = RollUp(u, status')
        BY <1>6, <2>2 DEF RollUpInv, RollUpTrue
    <2>3. QED
        BY <1>4, <2>1, <2>2 DEF RunStepShape
<1>9. QED
    BY <1>2, <1>5, <1>7, <1>8 DEF RollUpInv

(* The start: no run is rolled up and no call is under way. *)
LEMMA RollUpInit == Init => RollUpInv
<1> SUFFICES ASSUME Init PROVE RollUpInv
    OBVIOUS
<1>1. RowsThere
    BY DispatchConstants DEF Init, RowsThere
<1>2. RollUpTrue /\ RollUpSound
    BY DispatchConstants DEF Init, RollUpTrue, RollUpSound, RunTerminal
<1>3. QED
    BY <1>1, <1>2, GateInit DEF RollUpInv

(* However many CompleteJob calls gate and finalize a run at the same      *)
(* time, the status they leave is that of the finished run.                *)
THEOREM RollUpsSound == Spec => []RollUpSound
<1>1. RollUpInv => RollUpSound
    BY DEF RollUpInv
<1>2. QED
    BY <1>1, RollUpInit, RollUpNext, PTL DEF Spec
=============================================================================
