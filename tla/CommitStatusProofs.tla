------------------------- MODULE CommitStatusProofs -------------------------
(***************************************************************************)
(* Webhook deliveries and checks, for any requests, workflow files and     *)
(* filters, and any number of concurrent deliveries and finalizing calls.  *)
(***************************************************************************)
EXTENDS CommitStatus, FiniteSetTheorems, WellFoundedInduction, TLAPS

Outcomes == {"success", "failure", "cancelled"}

RunStatuses == Outcomes \cup {"none", "absent", "queued"}
HandlerPcs == {"new", "github", "gitlab", "files", "plan", "planFailed", "pending", "done"}

CommitTypeOK ==
    /\ pc \in [Deliveries -> HandlerPcs]
    /\ req \in [Deliveries -> Requests]
    /\ todo \in [Deliveries -> SUBSET Entries]
    /\ file \in [Deliveries -> Entries \cup {NoFile}]
    /\ runIDs \in [Deliveries -> SUBSET Entries]
    /\ answer \in [Deliveries -> {"none", "unauthorized", "ignored", "bad", "error",
                                  "runs"}]
    /\ run \in [RunIds -> RunStatuses]
    /\ rows \in [RunIds -> {"none", "busy", "done"}]
    /\ worst \in [RunIds -> Outcomes]
    /\ call \in [RunIds \X Calls -> {"none", "set", "post", "posted", "lost"}]
    /\ runStatus \in [RunIds \X Calls -> Outcomes \cup {"none"}]
    /\ shown \in [Shas -> {"none", "pending", "success", "failure", "error"}]
    /\ late \subseteq RunIds
    /\ faults \in Nat
    /\ \A d \in Deliveries : pc[d] \in {"plan", "planFailed", "pending"} =>
                                 file[d] \in Entries

(* What Gate answers. *)
LEMMA GateAnswers ==
    ASSUME NEW r
    PROVE  Gate(r) \in {"unauthorized", "ignored", "bad", "go"}
BY DEF Gate, githubAnswer, gitlabAnswer

(* The start: nothing is planned, posted or answered. *)
LEMMA CommitTypeInit == Init => CommitTypeOK
BY DEF Init, CommitTypeOK, Outcomes, RunStatuses, HandlerPcs

(* The steps of a handler, one by one. *)
HandlerStep(d) ==
    \/ Receive(d) \/ ListWorkflows(d) \/ PlanFile(d) \/ PlanFileFails(d)
    \/ PlanFirst(d) \/ DeliveryFails(d)
    \/ InsertRow(d) \/ PlanDone(d) \/ PlanFails(d) \/ SetPlanFailure(d)
    \/ PostPending(d) \/ PostPendingFails(d) \/ Answer(d)

(* The steps of a finalizing call, and of the rows it lists. *)
CallStep(x, k) ==
    \/ FinalizeList(x, k) \/ FinalizeSet(x, k)
    \/ ReportCommitStatus(x, k) \/ FinalizeFails(x, k)

(* Every step of a handler keeps the types. *)
LEMMA HandlerTypes ==
    ASSUME CommitTypeOK, NEW d \in Deliveries, HandlerStep(d)
    PROVE  CommitTypeOK'
<1> USE DEF CommitTypeOK, handlerVars, rowVars, callVars, HandlerPcs
<1>1. CASE Receive(d)
    <2>1. req[d].host \in {"github", "gitlab"}
        BY CommitConstants
    <2>2. QED
        BY <1>1, <2>1, GateAnswers DEF Receive, Finish
<1>2. CASE ListWorkflows(d)
    <2>1. listWorkflows(req[d]) \subseteq Entries
        BY CommitConstants DEF listWorkflows
    <2>2. QED
        BY <1>2, <2>1 DEF ListWorkflows
<1>3. CASE PlanFile(d)
    <2>1. PICK f \in todo[d] :
              /\ todo' = [todo EXCEPT ![d] = @ \ {f}]
              /\ \/ CreateRun(d, f)
                 \/ UNCHANGED <<run, file, pc>>
        BY <1>3 DEF PlanFile
    <2>2. UNCHANGED <<req, runIDs, answer, rowVars, callVars, shown, late, faults>>
        BY <1>3 DEF PlanFile
    <2>3. run' \in [RunIds -> RunStatuses]
        BY <2>1 DEF CreateRun, RunStatuses
    <2>4. /\ pc' \in [Deliveries -> HandlerPcs]
          /\ todo' \in [Deliveries -> SUBSET Entries]
          /\ file' \in [Deliveries -> Entries \cup {NoFile}]
          /\ \A e \in Deliveries : pc'[e] \in {"plan", "planFailed", "pending"} =>
                                       file'[e] \in Entries
        BY <2>1, SMTT(30) DEF CreateRun
    <2>5. QED
        BY <2>2, <2>3, <2>4
<1>4. CASE PlanFileFails(d)
    BY <1>4 DEF PlanFileFails
<1>5. CASE PlanFirst(d)
    <2>1. req[d].tree \subseteq Entries
        BY CommitConstants
    <2>2. run' \in [RunIds -> RunStatuses]
        BY <1>5 DEF PlanFirst, CreateRun, RunStatuses
    <2>3. UNCHANGED <<req, todo, runIDs, rowVars, callVars, shown, late, faults>>
        BY <1>5 DEF PlanFirst
    <2>4. CASE gitlabFile(req[d]) \in req[d].tree
        <3>1. CreateRun(d, gitlabFile(req[d])) /\ UNCHANGED answer
            BY <1>5, <2>4 DEF PlanFirst
        <3>2. gitlabFile(req[d]) \in Entries
            BY <2>1, <2>4
        <3>3. QED
            BY <2>2, <2>3, <3>1, <3>2 DEF CreateRun
    <2>5. CASE gitlabFile(req[d]) \notin req[d].tree
        BY <1>5, <2>2, <2>3, <2>5 DEF PlanFirst, Finish
    <2>6. QED
        BY <2>4, <2>5
<1>6. CASE DeliveryFails(d)
    BY <1>6 DEF DeliveryFails, Finish
<1>7. CASE InsertRow(d)
    BY <1>7 DEF InsertRow
<1>8. CASE PlanDone(d)
    BY <1>8, SMTT(30) DEF PlanDone, Finish
<1>9. CASE PlanFails(d)
    BY <1>9 DEF PlanFails
<1>10. CASE SetPlanFailure(d)
    <2>1. run' \in [RunIds -> RunStatuses]
        BY <1>10 DEF SetPlanFailure, RunStatuses, Outcomes
    <2>2. QED
        BY <1>10, <2>1 DEF SetPlanFailure, Finish
<1>11. CASE PostPending(d)
    <2>1. <<d, file[d]>> \in RunIds
        BY <1>11 DEF PostPending, RunIds
    <2>2. QED
        BY <1>11, <2>1 DEF PostPending, ReportStatus, validCommitStatusStates
<1>12. CASE PostPendingFails(d)
    BY <1>12 DEF PostPendingFails
<1>13. CASE Answer(d)
    BY <1>13 DEF Answer, Finish
<1>14. QED
    BY <1>1, <1>2, <1>3, <1>4, <1>5, <1>6, <1>7, <1>8, <1>9, <1>10, <1>11, <1>12,
       <1>13 DEF HandlerStep

(* Every step of the dispatcher does, too. *)
LEMMA CommitTypeNext == CommitTypeOK /\ [Next]_vars => CommitTypeOK'
<1> SUFFICES ASSUME CommitTypeOK, [Next]_vars PROVE CommitTypeOK'
    OBVIOUS
<1> USE DEF CommitTypeOK, handlerVars, rowVars, callVars
<1>1. ASSUME NEW d \in Deliveries, HandlerStep(d) PROVE CommitTypeOK'
    BY <1>1, HandlerTypes
<1>2. ASSUME NEW x \in RunIds, FinishRows(x) PROVE CommitTypeOK'
    BY <1>2 DEF FinishRows, AtLeast, Outcomes
<1>3. ASSUME NEW x \in RunIds, NEW k \in Calls, FinalizeList(x, k) PROVE CommitTypeOK'
    BY <1>3 DEF FinalizeList
<1>4. ASSUME NEW x \in RunIds, NEW k \in Calls, FinalizeSet(x, k) PROVE CommitTypeOK'
    BY <1>4 DEF FinalizeSet, RunStatuses
<1>5. ASSUME NEW x \in RunIds, NEW k \in Calls, ReportCommitStatus(x, k) PROVE CommitTypeOK'
    <2>1. commitStatusForRunStatus(runStatus[<<x, k>>]) \in {"success", "failure", "error"}
        BY DEF commitStatusForRunStatus
    <2>2. QED
        BY <1>5, <2>1 DEF ReportCommitStatus, ReportStatus
<1>6. ASSUME NEW x \in RunIds, NEW k \in Calls, FinalizeFails(x, k) PROVE CommitTypeOK'
    BY <1>6 DEF FinalizeFails
<1>7. CASE UNCHANGED vars
    BY <1>7 DEF vars
<1>8. QED
    BY <1>1, <1>2, <1>3, <1>4, <1>5, <1>6, <1>7 DEF Next, HandlerStep
-----------------------------------------------------------------------------
(* The runs and the check. *)

(* Calls are made for runs with rows and carry an outcome.  Unless a call  *)
(* listed the rows while Plan was at work, a run that was listed has all   *)
(* its rows, they are finished, and all calls carry what they add up to.   *)
RunInv(x) ==
    /\ rows[x] # "none" => run[x] # "absent"
    /\ \A k \in Calls :
        /\ call[<<x, k>>] # "none" => rows[x] # "none"
        /\ call[<<x, k>>] \in {"set", "post", "posted"} => runStatus[<<x, k>>] \in Outcomes
    /\ x \notin early => \A k \in Calls :
        /\ call[<<x, k>>] # "none" => ~Planning(x) /\ rows[x] = "done"
        /\ call[<<x, k>>] \in {"set", "post", "posted"} => runStatus[<<x, k>>] = worst[x]
        /\ call[<<x, k>>] \in {"post", "posted"} => run[x] = worst[x]

(* How far a handler is, and what it has planned: nothing before the files *)
(* are listed, and nothing for a file on its list.                         *)
PlanInv(d) ==
    /\ pc[d] \in {"plan", "planFailed", "pending"} => run[<<d, file[d]>>] # "absent"
    /\ pc[d] \in {"new", "github", "gitlab"} =>
           /\ runIDs[d] = {} /\ todo[d] = {}
           /\ \A f \in Entries : run[<<d, f>>] = "absent"
    /\ \A f \in todo[d] : run[<<d, f>>] = "absent"
    /\ \A f \in runIDs[d] : run[<<d, f>>] # "absent"

(* The check of s shows what some call rolled up a run of s to. *)
Earned(s) ==
    shown[s] \in {"success", "failure", "error"} =>
        \E x \in RunIds, k \in Calls :
            /\ ShaOf(x) = s
            /\ call[<<x, k>>] = "posted"
            /\ runStatus[<<x, k>>] = IF shown[s] = "error" THEN "cancelled" ELSE shown[s]

(* As long as no post failed or came late, a check that shows no outcome   *)
(* has a run that is yet to report, and one that shows nothing no report.  *)
Owed(s) ==
    /\ faults = 0
    /\ \A x \in late : ShaOf(x) # s
    => /\ shown[s] = "none" => \A x \in RunIds : ShaOf(x) = s => ~Reported(x)
       /\ shown[s] = "pending" => \E x \in RunIds :
                                      ShaOf(x) = s /\ run[x] # "absent" /\ ~Reported(x)

CheckInv ==
    /\ CommitTypeOK
    /\ \A x \in RunIds : RunInv(x)
    /\ \A d \in Deliveries : PlanInv(d)
    /\ \A s \in Shas : Earned(s) /\ Owed(s)
-----------------------------------------------------------------------------
(* The fan-out. *)

(* A handler that goes on serves a request its host admits; it only has    *)
(* workflow files on its list.                                             *)
Admitted(d) ==
    /\ pc[d] \notin {"new", "done"} => Gate(req[d]) = "go"
    /\ pc[d] \in {"github", "files", "pending"} => req[d].host = "github"
    /\ pc[d] = "gitlab" => req[d].host = "gitlab"
    /\ req[d].host = "gitlab" => todo[d] = {}
    /\ todo[d] \subseteq listWorkflows(req[d])
    /\ pc[d] = "done" => todo[d] = {}

(* What d asks for and will not get. *)
Missed(d) ==
    {f \in Entries : Wanted(d, f)}
        \ (runIDs[d] \cup todo[d] \cup (IF pc[d] = "plan" THEN {file[d]} ELSE {}))

(* When the missed files are counted. *)
Counted(d) ==
    \/ pc[d] \in {"files", "plan", "planFailed", "pending"}
    \/ pc[d] = "done" /\ (answer[d] = "runs" \/ faults = 0)

(* It plans nothing that is not wanted, and misses a file per fault. *)
FanInv(d) ==
    /\ Admitted(d)
    /\ \A f \in Entries : run[<<d, f>>] # "absent" => Wanted(d, f)
    /\ Counted(d) => Cardinality(Missed(d)) <= faults

FanOutInv == CheckInv /\ \A d \in Deliveries : FanInv(d)
-----------------------------------------------------------------------------
(* What a step leaves alone. *)

(* The handler of e stays where it is, and no run of e appears. *)
Kept(e) ==
    /\ pc'[e] = pc[e] /\ todo'[e] = todo[e] /\ file'[e] = file[e]
    /\ runIDs'[e] = runIDs[e] /\ answer'[e] = answer[e]
    /\ \A f \in Entries : run'[<<e, f>>] = "absent" <=> run[<<e, f>>] = "absent"

(* A handler writes runs of its own delivery only: one there was not yet,  *)
(* or the one it is planning.                                              *)
Creates(d) ==
    \A x \in RunIds : /\ \/ run'[x] = run[x]
                         \/ /\ x[1] = d /\ run'[x] # "absent"
                            /\ run[x] = "absent" \/ Planning(x)
                      /\ \/ rows'[x] = rows[x]
                         \/ rows'[x] = "busy" /\ Planning(x) /\ run[x] # "absent"
                      /\ Planning(x)' => Planning(x) \/ run[x] = "absent"

(* CreateRun inserts the run of the handler's delivery and file. *)
LEMMA NewRun ==
    ASSUME NEW d \in Deliveries, NEW f \in Entries, CommitTypeOK, run[<<d, f>>] = "absent",
           CreateRun(d, f), UNCHANGED rows
    PROVE  Creates(d)
<1>1. <<d, f>> \in RunIds
    BY DEF RunIds
<1>2. \A x \in RunIds : x = <<x[1], x[2]>> /\ x[1] \in Deliveries /\ x[2] \in Entries
    BY DEF RunIds
<1>3. \A x \in RunIds : x # <<d, f>> => run'[x] = run[x]
    BY <1>2 DEF CreateRun, CommitTypeOK
<1>4. run'[<<d, f>>] = "queued"
    BY <1>1 DEF CreateRun, CommitTypeOK
<1>5. ASSUME NEW x \in RunIds, Planning(x)' PROVE Planning(x) \/ x = <<d, f>>
    <2>1. CASE x[1] = d
        BY <1>2, <1>5, <2>1 DEF CreateRun, Planning, CommitTypeOK
    <2>2. CASE x[1] # d
        BY <1>2, <1>5, <2>2 DEF CreateRun, Planning, CommitTypeOK
    <2>3. QED
        BY <2>1, <2>2
<1>6. <<d, f>>[1] = d
    OBVIOUS
<1>7. QED
    BY <1>3, <1>4, <1>5, <1>6 DEF Creates

(* planGitHubPushWorkflow, the GitLab handler and Plan: a run is new when  *)
(* its planning begins.                                                    *)
LEMMA HandlerCreates ==
    ASSUME NEW d \in Deliveries, CommitTypeOK, PlanInv(d), HandlerStep(d)
    PROVE  Creates(d)
<1> USE DEF CommitTypeOK, Creates, rowVars
<1>1. \A f \in Entries : <<d, f>> \in RunIds
    BY DEF RunIds
<1>2. \A x \in RunIds : x = <<x[1], x[2]>> /\ x[1] \in Deliveries /\ x[2] \in Entries
    BY DEF RunIds
<1>3. CASE PlanFile(d)
    <2>1. PICK f \in todo[d] :
              /\ CreateRun(d, f) \/ UNCHANGED <<run, file, pc>>
              /\ UNCHANGED rows
        BY <1>3 DEF PlanFile
    <2>2. run[<<d, f>>] = "absent" /\ f \in Entries
        BY DEF PlanInv
    <2>3. CASE CreateRun(d, f)
        BY <2>1, <2>2, <2>3, NewRun
    <2>4. QED
        BY <2>1, <2>3 DEF Planning
<1>4. req[d].tree \subseteq Entries
    BY CommitConstants
<1>5. CASE PlanFirst(d)
    <2> DEFINE f == gitlabFile(req[d])
    <2>1. CASE f \in req[d].tree
        <3>1. run[<<d, f>>] = "absent" /\ f \in Entries /\ CreateRun(d, f) /\ UNCHANGED rows
            BY <1>4, <1>5, <2>1 DEF PlanInv, PlanFirst
        <3>2. QED
            BY <3>1, NewRun
    <2>2. CASE f \notin req[d].tree
        BY <1>2, <1>5, <2>2 DEF PlanFirst, Finish, Planning
    <2>3. QED
        BY <2>1, <2>2
<1>6. CASE InsertRow(d)
    <2>1. \A x \in RunIds : \/ rows'[x] = rows[x]
                            \/ x = <<d, file[d]>> /\ rows'[x] = "busy"
        BY <1>2, <1>6 DEF InsertRow
    <2>2. pc[d] = "plan" /\ UNCHANGED <<pc, file, run>>
        BY <1>6 DEF InsertRow, handlerVars
    <2>3. run[<<d, file[d]>>] # "absent"
        BY <2>2 DEF PlanInv
    <2>4. Planning(<<d, file[d]>>) /\ \A x \in RunIds : Planning(x)' <=> Planning(x)
        BY <2>2 DEF Planning
    <2>5. QED
        BY <2>1, <2>2, <2>3, <2>4
<1>7. CASE SetPlanFailure(d)
    <2>1. \A x \in RunIds : \/ run'[x] = run[x]
                            \/ x = <<d, file[d]>> /\ run'[x] = "failure"
        BY <1>2, <1>7 DEF SetPlanFailure
    <2>2. pc[d] = "planFailed" /\ UNCHANGED rows
        BY <1>7 DEF SetPlanFailure
    <2>3. \A x \in RunIds : Planning(x)' => Planning(x)
        BY <1>2, <1>7 DEF SetPlanFailure, Finish, Planning
    <2>4. QED
        BY <2>1, <2>2, <2>3 DEF Planning
<1>8. CASE PlanDone(d) \/ PlanFails(d)
    BY <1>2, <1>8 DEF PlanDone, PlanFails, Finish, Planning
<1>9. CASE Receive(d) \/ ListWorkflows(d) \/ PlanFileFails(d) \/ DeliveryFails(d)
             \/ PostPending(d) \/ PostPendingFails(d) \/ Answer(d)
    <2>1. UNCHANGED <<run, rows>>
        BY <1>9 DEF Receive, ListWorkflows, PlanFileFails, DeliveryFails, PostPending,
               PostPendingFails, Answer
    <2>2. \A e \in Deliveries : pc'[e] \in {"plan", "planFailed"} =>
                                    pc'[e] = pc[e] /\ file'[e] = file[e]
        BY <1>9, CommitConstants, GateAnswers
           DEF Receive, ListWorkflows, PlanFileFails, DeliveryFails, PostPending,
               PostPendingFails, Answer, Finish
    <2>3. QED
        BY <1>2, <2>1, <2>2 DEF Planning
<1>10. QED
    BY <1>3, <1>5, <1>6, <1>7, <1>8, <1>9 DEF HandlerStep

(* Handlers of two requests share no local state. *)
LEMMA OtherHandlers ==
    ASSUME NEW d \in Deliveries, NEW e \in Deliveries, d # e,
           CommitTypeOK, PlanInv(d), HandlerStep(d)
    PROVE  Kept(e)
<1>1. \A f \in Entries : <<e, f>> \in RunIds /\ <<e, f>>[1] = e
    BY DEF RunIds
<1>2. \A f \in Entries : run'[<<e, f>>] = run[<<e, f>>]
    BY <1>1, HandlerCreates DEF Creates
<1>3. /\ pc'[e] = pc[e] /\ todo'[e] = todo[e] /\ file'[e] = file[e]
      /\ runIDs'[e] = runIDs[e] /\ answer'[e] = answer[e]
    <2> USE DEF CommitTypeOK, Finish, CreateRun
    <2>1. CASE Receive(d)
        BY <2>1 DEF Receive
    <2>2. CASE ListWorkflows(d)
        BY <2>2 DEF ListWorkflows
    <2>3. CASE PlanFile(d) \/ PlanFileFails(d)
        <3>1. UNCHANGED <<runIDs, answer>>
            BY <2>3 DEF PlanFile, PlanFileFails
        <3>2. PICK f : todo' = [todo EXCEPT ![d] = @ \ {f}]
            BY <2>3 DEF PlanFile, PlanFileFails
        <3>3. PICK g : \/ UNCHANGED <<file, pc>>
                       \/ /\ file' = [file EXCEPT ![d] = g]
                          /\ pc' = [pc EXCEPT ![d] = "plan"]
            BY <2>3 DEF PlanFile, PlanFileFails
        <3>4. QED
            BY <3>1, <3>2, <3>3
    <2>4. CASE PostPending(d) \/ PostPendingFails(d)
        BY <2>4 DEF PostPending, PostPendingFails
    <2>5. CASE Answer(d) \/ PlanFirst(d)
        BY <2>5 DEF Answer, PlanFirst
    <2>6. CASE DeliveryFails(d)
        BY <2>6 DEF DeliveryFails
    <2>7. CASE InsertRow(d) \/ PlanDone(d)
        BY <2>7 DEF InsertRow, PlanDone, handlerVars
    <2>8. CASE PlanFails(d) \/ SetPlanFailure(d)
        BY <2>8 DEF PlanFails, SetPlanFailure
    <2>9. QED
        BY <2>1, <2>2, <2>3, <2>4, <2>5, <2>6, <2>7, <2>8 DEF HandlerStep
<1>4. QED
    BY <1>2, <1>3 DEF Kept

(* finalizeRunIfComplete and reportCommitStatus leave the handlers alone.  *)
LEMMA DispatcherKeeps ==
    ASSUME NEW e \in Deliveries, CommitTypeOK, \A x \in RunIds : RunInv(x),
           \/ \E x \in RunIds : FinishRows(x)
           \/ \E x \in RunIds, k \in Calls : CallStep(x, k)
    PROVE  Kept(e)
<1>1. \A f \in Entries : <<e, f>> \in RunIds
    BY DEF RunIds
<1>2. UNCHANGED handlerVars
    BY DEF CallStep, FinishRows, FinalizeList, FinalizeSet, ReportCommitStatus, FinalizeFails
<1>3. ASSUME NEW x \in RunIds, NEW k \in Calls, FinalizeSet(x, k)
      PROVE  \A y \in RunIds : run'[y] = "absent" <=> run[y] = "absent"
    <2>1. run[x] # "absent" /\ runStatus[<<x, k>>] \in Outcomes
        BY <1>3 DEF FinalizeSet, RunInv
    <2>2. QED
        BY <1>3, <2>1 DEF FinalizeSet, CommitTypeOK, Outcomes
<1>4. \A y \in RunIds : run'[y] = "absent" <=> run[y] = "absent"
    BY <1>3 DEF CallStep, FinishRows, FinalizeList, ReportCommitStatus, FinalizeFails
<1>5. QED
    BY <1>1, <1>2, <1>4 DEF Kept, handlerVars

(* Requests stay what they are, and faults are only counted up. *)
LEMMA StepFacts ==
    ASSUME CommitTypeOK, [Next]_vars
    PROVE  /\ req' = req
           /\ faults' \in Nat /\ faults <= faults'
           /\ late \subseteq late'
<1>1. ASSUME NEW d \in Deliveries, HandlerStep(d)
      PROVE  req' = req /\ faults' \in {faults, faults + 1} /\ late \subseteq late'
    BY <1>1 DEF HandlerStep, Receive, ListWorkflows, PlanFile, PlanFileFails, InsertRow,
           PlanDone, PlanFails, SetPlanFailure, handlerVars,
           PostPending, PostPendingFails, Answer, PlanFirst, DeliveryFails
<1>2. ASSUME \/ \E x \in RunIds : FinishRows(x)
             \/ \E x \in RunIds, k \in Calls : CallStep(x, k)
      PROVE  req' = req /\ faults' \in {faults, faults + 1} /\ late \subseteq late'
    BY <1>2 DEF CallStep, FinishRows, FinalizeList, FinalizeSet, ReportCommitStatus,
           FinalizeFails, handlerVars
<1>3. CASE UNCHANGED vars
    BY <1>3 DEF vars, handlerVars, CommitTypeOK
<1>4. QED
    BY <1>1, <1>2, <1>3 DEF Next, HandlerStep, CallStep, CommitTypeOK

(* A handler that does not move keeps what holds of it. *)
LEMMA KeptPlan ==
    ASSUME NEW e \in Deliveries, CommitTypeOK, PlanInv(e), Kept(e)
    PROVE  PlanInv(e)'
BY DEF CommitTypeOK, PlanInv, Kept

(* The handler's own step: a file leaves the list when its run appears,    *)
(* and "pending" is due only for a run that exists.                        *)
LEMMA OwnPlan ==
    ASSUME NEW d \in Deliveries, CommitTypeOK, PlanInv(d), HandlerStep(d)
    PROVE  PlanInv(d)'
<1> USE DEF CommitTypeOK, PlanInv
<1>1. \A f \in Entries : <<d, f>> \in RunIds
    BY DEF RunIds
<1>2. CASE Receive(d)
    <2>1. /\ pc[d] = "new" /\ UNCHANGED <<todo, runIDs, run>>
          /\ pc'[d] \in {"github", "gitlab", "done"}
        BY <1>2, CommitConstants DEF Receive, Finish
    <2>2. QED
        BY <2>1
<1>3. CASE ListWorkflows(d)
    BY <1>3, CommitConstants DEF ListWorkflows, listWorkflows
<1>4. CASE PlanFile(d)
    <2>1. PICK f \in todo[d] :
              /\ todo' = [todo EXCEPT ![d] = @ \ {f}]
              /\ CreateRun(d, f) \/ UNCHANGED <<run, file, pc>>
        BY <1>4 DEF PlanFile
    <2>2. \A g \in Entries : g # f => run'[<<d, g>>] = run[<<d, g>>]
        BY <1>1, <2>1 DEF CreateRun
    <2>3. QED
        BY <1>1, <1>4, <2>1, <2>2, SMTT(30) DEF PlanFile, CreateRun
<1>5. CASE PlanFileFails(d)
    BY <1>5 DEF PlanFileFails
<1>6. CASE PostPending(d) \/ PostPendingFails(d) \/ Answer(d)
    BY <1>6 DEF PostPending, PostPendingFails, Answer, Finish
<1>7. req[d].tree \subseteq Entries
    BY CommitConstants
<1>8. CASE PlanFirst(d)
    <2>1. /\ todo' = todo /\ runIDs' = runIDs /\ todo[d] = {} /\ runIDs[d] = {}
        BY <1>8 DEF PlanFirst
    <2>2. \/ pc'[d] = "done"
          \/ /\ gitlabFile(req[d]) \in Entries /\ pc'[d] = "plan"
             /\ file'[d] = gitlabFile(req[d])
             /\ run' = [run EXCEPT ![<<d, gitlabFile(req[d])>>] = "queued"]
        BY <1>7, <1>8 DEF PlanFirst, CreateRun, Finish
    <2>3. QED
        BY <1>1, <2>1, <2>2
<1>9. CASE DeliveryFails(d)
    BY <1>9 DEF DeliveryFails, Finish
<1>10. CASE InsertRow(d) \/ PlanFails(d)
    BY <1>10 DEF InsertRow, PlanFails, handlerVars
<1>11. CASE PlanDone(d)
    <2>1. /\ pc[d] = "plan" /\ pc'[d] \in {"pending", "done"} /\ UNCHANGED <<todo, run>>
          /\ pc'[d] = "pending" => file'[d] = file[d]
          /\ runIDs'[d] = runIDs[d] \cup {file[d]}
        BY <1>11 DEF PlanDone, Finish
    <2>2. QED
        BY <2>1
<1>12. CASE SetPlanFailure(d)
    <2>1. \A g \in Entries : run'[<<d, g>>] \in {run[<<d, g>>], "failure"}
        BY <1>1, <1>12 DEF SetPlanFailure
    <2>2. \A g \in Entries : g # file[d] => run'[<<d, g>>] = run[<<d, g>>]
        BY <1>1, <1>12 DEF SetPlanFailure
    <2>3. file[d] \notin todo[d]
        BY <1>12 DEF SetPlanFailure
    <2>4. QED
        BY <1>12, <2>1, <2>2, <2>3 DEF SetPlanFailure, Finish
<1>13. QED
    BY <1>2, <1>3, <1>4, <1>5, <1>6, <1>8, <1>9, <1>10, <1>11, <1>12 DEF HandlerStep
-----------------------------------------------------------------------------
(* What a step does to the runs and the check of a commit. *)

(* A handler makes no finalizing call, and only PostPending posts. *)
LEMMA QuietStep ==
    ASSUME NEW d \in Deliveries, HandlerStep(d)
    PROVE  /\ UNCHANGED <<worst, call, runStatus, early>>
           /\ PostPending(d) \/ UNCHANGED <<shown, late>>
BY DEF HandlerStep, Receive, ListWorkflows, PlanFile, PlanFileFails, PostPending,
       PostPendingFails, Answer, PlanFirst, DeliveryFails, InsertRow, PlanDone, PlanFails,
       SetPlanFailure, rowVars, callVars

(* A handler's step: it writes runs and rows only of what it is planning,  *)
(* for which no call counts.                                               *)
LEMMA HandlerRunInv ==
    ASSUME CommitTypeOK, NEW d \in Deliveries, HandlerStep(d), PlanInv(d),
           NEW x \in RunIds, RunInv(x)
    PROVE  RunInv(x)'
<1>1. UNCHANGED <<worst, call, runStatus, early>>
    BY QuietStep
<1>2. Creates(d)
    BY HandlerCreates
<1>3. \/ run'[x] = run[x]
      \/ run'[x] # "absent" /\ (run[x] = "absent" \/ Planning(x))
    BY <1>2 DEF Creates
<1>4. /\ \/ rows'[x] = rows[x]
         \/ rows'[x] = "busy" /\ Planning(x) /\ run[x] # "absent"
      /\ Planning(x)' => Planning(x) \/ run[x] = "absent"
    BY <1>2 DEF Creates
<1>5. (/\ rows[x] # "none" => run[x] # "absent"
       /\ \A k \in Calls :
           /\ call[<<x, k>>] # "none" => rows[x] # "none"
           /\ call[<<x, k>>] \in {"set", "post", "posted"} =>
                  runStatus[<<x, k>>] \in Outcomes)'
    BY <1>1, <1>3, <1>4 DEF RunInv
<1>6. ASSUME x \notin early', NEW k \in Calls, call'[<<x, k>>] # "none"
      PROVE  /\ ~Planning(x)' /\ rows'[x] = "done"
             /\ call'[<<x, k>>] \in {"set", "post", "posted"} =>
                    runStatus'[<<x, k>>] = worst'[x]
             /\ call'[<<x, k>>] \in {"post", "posted"} => run'[x] = worst'[x]
    <2>1. ~Planning(x) /\ rows[x] = "done" /\ run[x] # "absent"
        BY <1>1, <1>6 DEF RunInv
    <2>2. ~Planning(x)' /\ rows'[x] = rows[x] /\ run'[x] = run[x]
        BY <1>3, <1>4, <2>1
    <2>3. QED
        BY <1>1, <1>6, <2>1, <2>2 DEF RunInv
<1>7. QED
    BY <1>5, <1>6 DEF RunInv

(* Finalizing calls that list the rows once Plan is done with the run find *)
(* the same rows, and set and post the same status                         *)
(* (finalizeRunIfComplete).                                                *)
LEMMA RunInvNext ==
    ASSUME CommitTypeOK, CommitTypeOK', [Next]_vars,
           \A d \in Deliveries : PlanInv(d), \A y \in RunIds : RunInv(y), NEW x \in RunIds
    PROVE  RunInv(x)'
<1> USE DEF CommitTypeOK
<1>1. ASSUME NEW d \in Deliveries, HandlerStep(d) PROVE RunInv(x)'
    BY <1>1, HandlerRunInv
<1>2. ASSUME NEW y \in RunIds, FinishRows(y) PROVE RunInv(x)'
    <2>1. /\ UNCHANGED <<pc, file, run, call, runStatus, early>>
          /\ Planning(x)' <=> Planning(x)
          /\ rows[y] = "busy" /\ rows' = [rows EXCEPT ![y] = "done"]
          /\ x # y => worst'[x] = worst[x]
        BY <1>2 DEF FinishRows, handlerVars, callVars, Planning
    <2>2. QED
        BY <2>1 DEF RunInv
<1>3. ASSUME NEW y \in RunIds, NEW k \in Calls, FinalizeList(y, k) PROVE RunInv(x)'
    <2>1. /\ UNCHANGED <<pc, file, run, rows, worst>>
          /\ Planning(x)' <=> Planning(x)
          /\ rows[y] = "done" /\ call[<<y, k>>] = "none"
          /\ call' = [call EXCEPT ![<<y, k>>] = "set"]
          /\ runStatus' = [runStatus EXCEPT ![<<y, k>>] = worst[y]]
          /\ early' = IF Planning(y) THEN early \cup {y} ELSE early
        BY <1>3 DEF FinalizeList, handlerVars, rowVars, Planning
    <2>2. CASE x = y
        <3>1. \A j \in Calls : \/ j = k /\ call'[<<x, j>>] = "set"
                                        /\ runStatus'[<<x, j>>] = worst[x]
                               \/ /\ j # k /\ call'[<<x, j>>] = call[<<x, j>>]
                                  /\ runStatus'[<<x, j>>] = runStatus[<<x, j>>]
            BY <2>1, <2>2
        <3>3. x \notin early' => x \notin early /\ ~Planning(x)
            BY <2>1, <2>2
        <3>4. rows[x] = "done" /\ rows'[x] = "done" /\ run'[x] = run[x] /\ worst'[x] = worst[x]
            BY <2>1, <2>2
        <3>5. QED
            BY <2>1, <3>1, <3>3, <3>4 DEF RunInv
    <2>3. CASE x # y
        <3>1. \A j \in Calls : /\ call'[<<x, j>>] = call[<<x, j>>]
                               /\ runStatus'[<<x, j>>] = runStatus[<<x, j>>]
            BY <2>1, <2>3
        <3>2. x \notin early' <=> x \notin early
            BY <2>1, <2>3
        <3>3. rows'[x] = rows[x] /\ run'[x] = run[x] /\ worst'[x] = worst[x]
            BY <2>1
        <3>4. QED
            BY <2>1, <3>1, <3>2, <3>3 DEF RunInv
    <2>4. QED
        BY <2>2, <2>3
<1>4. ASSUME NEW y \in RunIds, NEW k \in Calls, FinalizeSet(y, k) PROVE RunInv(x)'
    <2>1. /\ UNCHANGED <<pc, file, rows, worst, early, runStatus>>
          /\ Planning(x)' <=> Planning(x)
          /\ call[<<y, k>>] = "set"
          /\ call' = [call EXCEPT ![<<y, k>>] = "post"]
          /\ run' = [run EXCEPT ![y] = runStatus[<<y, k>>]]
        BY <1>4 DEF FinalizeSet, handlerVars, rowVars, Planning
    <2>2. CASE x = y
        <3>1. runStatus[<<x, k>>] \in Outcomes /\ rows[x] # "none"
            BY <2>1, <2>2 DEF RunInv
        <3>2. run'[x] = runStatus[<<x, k>>] /\ run'[x] # "absent"
            BY <2>1, <2>2, <3>1 DEF Outcomes
        <3>3. x \notin early => run'[x] = worst[x]
            BY <2>1, <2>2, <3>2 DEF RunInv
        <3>4. \A j \in Calls : call'[<<x, j>>] # call[<<x, j>>] =>
                                   j = k /\ call'[<<x, j>>] = "post"
            BY <2>1, <2>2
        <3>5. call[<<x, k>>] = "set"
            BY <2>1, <2>2
        <3>6. QED
            <4>1. rows'[x] = rows[x] /\ worst'[x] = worst[x] /\ early' = early
                BY <2>1
            <4>2. \A j \in Calls : /\ call'[<<x, j>>] # "none" <=> call[<<x, j>>] # "none"
                                   /\ call'[<<x, j>>] \in {"set", "post", "posted"} <=>
                                          call[<<x, j>>] \in {"set", "post", "posted"}
                                   /\ runStatus'[<<x, j>>] = runStatus[<<x, j>>]
                BY <2>1, <3>4, <3>5
            <4>3. QED
                BY <2>1, <3>1, <3>2, <3>3, <4>1, <4>2 DEF RunInv
    <2>3. CASE x # y
        <3>1. run'[x] = run[x] /\ \A j \in Calls : call'[<<x, j>>] = call[<<x, j>>]
            BY <2>1, <2>3
        <3>2. QED
            BY <2>1, <3>1 DEF RunInv
    <2>4. QED
        BY <2>2, <2>3
<1>5. ASSUME NEW y \in RunIds, NEW k \in Calls,
             ReportCommitStatus(y, k) \/ FinalizeFails(y, k)
      PROVE  RunInv(x)'
    <2>1. /\ UNCHANGED <<pc, file, run, rows, worst, early>>
          /\ Planning(x)' <=> Planning(x)
        BY <1>5 DEF ReportCommitStatus, FinalizeFails, handlerVars, rowVars, Planning
    <2>2. \A j \in Calls :
              \/ /\ call'[<<x, j>>] = call[<<x, j>>]
                 /\ runStatus'[<<x, j>>] = runStatus[<<x, j>>]
              \/ /\ call[<<x, j>>] = "post" /\ call'[<<x, j>>] = "posted"
                 /\ runStatus'[<<x, j>>] = runStatus[<<x, j>>]
              \/ call[<<x, j>>] # "none" /\ call'[<<x, j>>] = "lost"
        <3>1. CASE ReportCommitStatus(y, k)
            <4>1. /\ call[<<y, k>>] = "post" /\ call' = [call EXCEPT ![<<y, k>>] = "posted"]
                  /\ runStatus' = runStatus
                BY <3>1 DEF ReportCommitStatus
            <4>2. \A j \in Calls : <<x, j>> # <<y, k>> => call'[<<x, j>>] = call[<<x, j>>]
                BY <4>1
            <4>3. <<y, k>> \in DOMAIN call => call'[<<y, k>>] = "posted"
                BY <4>1
            <4>4. <<y, k>> \notin DOMAIN call => call' = call
                BY <4>1
            <4>5. QED
                BY <4>1, <4>2, <4>3, <4>4
        <3>2. CASE FinalizeFails(y, k)
            <4>1. /\ call[<<y, k>>] # "none" /\ call' = [call EXCEPT ![<<y, k>>] = "lost"]
                  /\ runStatus' = [runStatus EXCEPT ![<<y, k>>] = "none"]
                BY <3>2 DEF FinalizeFails
            <4>2. \A j \in Calls : <<x, j>> # <<y, k>> =>
                                     /\ call'[<<x, j>>] = call[<<x, j>>]
                                     /\ runStatus'[<<x, j>>] = runStatus[<<x, j>>]
                BY <4>1
            <4>3. call'[<<y, k>>] = "lost"
                BY <4>1
            <4>4. QED
                BY <4>1, <4>2, <4>3
        <3>3. QED
            BY <1>5, <3>1, <3>2
    <2>3. QED
        BY <2>1, <2>2 DEF RunInv
<1>6. CASE UNCHANGED vars
    BY <1>6 DEF vars, handlerVars, rowVars, callVars, RunInv, Planning
<1>7. QED
    BY <1>1, <1>2, <1>3, <1>4, <1>5, <1>6 DEF Next, HandlerStep

(* What was posted stays posted, with the status it was posted for. *)
LEMMA PostedStays ==
    ASSUME CommitTypeOK, [Next]_vars, NEW x \in RunIds, NEW k \in Calls,
           call[<<x, k>>] = "posted"
    PROVE  call'[<<x, k>>] = "posted" /\ runStatus'[<<x, k>>] = runStatus[<<x, k>>]
<1> USE DEF CommitTypeOK
<1>1. ASSUME NEW d \in Deliveries, HandlerStep(d) PROVE UNCHANGED <<call, runStatus>>
    BY <1>1, QuietStep
<1>2. ASSUME NEW y \in RunIds, FinishRows(y) PROVE UNCHANGED <<call, runStatus>>
    BY <1>2 DEF FinishRows, callVars
<1>3. ASSUME NEW y \in RunIds, NEW j \in Calls, CallStep(y, j)
      PROVE  call'[<<x, k>>] = "posted" /\ runStatus'[<<x, k>>] = runStatus[<<x, k>>]
    <2>1. call[<<y, j>>] # "posted"
        BY <1>3 DEF CallStep, FinalizeList, FinalizeSet, ReportCommitStatus, FinalizeFails
    <2>2. <<x, k>> # <<y, j>>
        BY <2>1
    <2>3. QED
        BY <1>3, <2>2 DEF CallStep, FinalizeList, FinalizeSet, ReportCommitStatus,
               FinalizeFails
<1>4. CASE UNCHANGED vars
    BY <1>4 DEF vars, callVars
<1>5. QED
    BY <1>1, <1>2, <1>3, <1>4 DEF Next, HandlerStep, CallStep

(* reportCommitStatus posts the status its caller rolled the run up to. *)
LEMMA PostIsOutcome ==
    ASSUME CommitTypeOK, NEW x \in RunIds, NEW k \in Calls, RunInv(x),
           ReportCommitStatus(x, k)
    PROVE  LET state == commitStatusForRunStatus(runStatus[<<x, k>>])
           IN  /\ state \in {"success", "failure", "error"}
               /\ runStatus'[<<x, k>>] = IF state = "error" THEN "cancelled" ELSE state
               /\ shown' = [shown EXCEPT ![ShaOf(x)] = state]
               /\ call'[<<x, k>>] = "posted" /\ UNCHANGED <<req, run, late, faults>>
               /\ \A y \in RunIds : y # x => (Reported(y)' <=> Reported(y))
<1>1. runStatus[<<x, k>>] \in Outcomes /\ runStatus' = runStatus
    BY DEF ReportCommitStatus, RunInv
<1>2. /\ commitStatusForRunStatus(runStatus[<<x, k>>]) \in {"success", "failure", "error"}
      /\ runStatus[<<x, k>>] =
             IF commitStatusForRunStatus(runStatus[<<x, k>>]) = "error" THEN "cancelled"
             ELSE commitStatusForRunStatus(runStatus[<<x, k>>])
    BY <1>1 DEF commitStatusForRunStatus, Outcomes
<1>3. shown' = [shown EXCEPT ![ShaOf(x)] = commitStatusForRunStatus(runStatus[<<x, k>>])]
    BY <1>2 DEF ReportCommitStatus, ReportStatus, validCommitStatusStates
<1>4. UNCHANGED <<req, run, late, faults>>
    BY DEF ReportCommitStatus, handlerVars
<1>5. /\ call'[<<x, k>>] = "posted"
      /\ \A y \in RunIds, j \in Calls : y # x => call'[<<y, j>>] = call[<<y, j>>]
    BY DEF ReportCommitStatus, CommitTypeOK
<1>6. \A y \in RunIds : y # x => (Reported(y)' <=> Reported(y))
    BY <1>5 DEF Reported, Calls
<1>7. QED
    BY <1>1, <1>2, <1>3, <1>4, <1>5, <1>6

(* An outcome is posted by a call that carries it. *)
LEMMA EarnedNext ==
    ASSUME CommitTypeOK, [Next]_vars, \A y \in RunIds : RunInv(y), NEW s \in Shas, Earned(s)
    PROVE  Earned(s)'
<1>1. req' = req
    BY StepFacts
<1>2. CASE shown'[s] = shown[s]
    <2>1. SUFFICES ASSUME shown[s] \in {"success", "failure", "error"}
                   PROVE  Earned(s)'
        BY <1>2 DEF Earned
    <2>2. PICK x \in RunIds, k \in Calls :
              /\ ShaOf(x) = s
              /\ call[<<x, k>>] = "posted"
              /\ runStatus[<<x, k>>] = IF shown[s] = "error" THEN "cancelled" ELSE shown[s]
        BY <2>1 DEF Earned
    <2>3. call'[<<x, k>>] = "posted" /\ runStatus'[<<x, k>>] = runStatus[<<x, k>>]
        BY <2>2, PostedStays
    <2>4. QED
        BY <1>1, <1>2, <2>2, <2>3 DEF Earned, ShaOf, RunIds, Calls
<1>3. ASSUME NEW x \in RunIds, NEW k \in Calls, ReportCommitStatus(x, k) PROVE Earned(s)'
    <2>1. CASE ShaOf(x) = s
        <3>1. /\ shown'[s] \in {"success", "failure", "error"} /\ call'[<<x, k>>] = "posted"
              /\ runStatus'[<<x, k>>] = IF shown'[s] = "error" THEN "cancelled" ELSE shown'[s]
            BY <1>3, <2>1, PostIsOutcome DEF CommitTypeOK
        <3>2. QED
            BY <1>1, <2>1, <3>1 DEF Earned, ShaOf, RunIds, Calls
    <2>2. CASE ShaOf(x) # s
        <3>1. shown' = [shown EXCEPT ![ShaOf(x)] =
                            commitStatusForRunStatus(runStatus[<<x, k>>])]
            BY <1>3, PostIsOutcome
        <3>2. shown'[s] = shown[s]
            BY <2>2, <3>1 DEF CommitTypeOK
        <3>3. QED
            BY <3>2, <1>2
    <2>3. QED
        BY <2>1, <2>2
<1>4. CASE \E d \in Deliveries : PostPending(d) /\ shown'[s] # shown[s]
    <2>1. shown'[s] = "pending"
        <3>1. PICK d \in Deliveries : PostPending(d) /\ shown'[s] # shown[s]
            BY <1>4
        <3>2. PICK t : \/ shown' = [shown EXCEPT ![t] = "pending"]
                       \/ shown' = shown
            BY <3>1 DEF PostPending, ReportStatus
        <3>3. shown' # shown
            BY <3>1
        <3>4. QED
            BY <3>1, <3>2, <3>3 DEF CommitTypeOK
    <2>2. QED
        BY <2>1 DEF Earned
<1>5. ASSUME NEW d \in Deliveries, HandlerStep(d), ~PostPending(d)
      PROVE  shown'[s] = shown[s]
    BY <1>5, QuietStep
<1>6. ASSUME NEW x \in RunIds, FinishRows(x) PROVE shown'[s] = shown[s]
    BY <1>6 DEF FinishRows
<1>7. ASSUME NEW x \in RunIds, NEW k \in Calls,
             FinalizeList(x, k) \/ FinalizeSet(x, k) \/ FinalizeFails(x, k)
      PROVE  shown'[s] = shown[s]
    BY <1>7 DEF FinalizeList, FinalizeSet, FinalizeFails
<1>8. CASE UNCHANGED vars
    BY <1>2, <1>8 DEF vars
<1>9. QED
    BY <1>2, <1>3, <1>4, <1>5, <1>6, <1>7, <1>8 DEF Next, HandlerStep

(* While nobody reports and the check does not change, what is owed stays. *)
LEMMA OwedKept ==
    ASSUME CommitTypeOK, NEW s \in Shas, Owed(s), req' = req, faults' = faults,
           late \subseteq late', shown'[s] = shown[s],
           \A x \in RunIds : ShaOf(x) = s =>
               /\ Reported(x)' <=> Reported(x)
               /\ run[x] # "absent" => run'[x] # "absent"
    PROVE  Owed(s)'
<1>1. \A x \in RunIds : ShaOf(x)' = ShaOf(x)
    BY DEF ShaOf
<1>2. SUFFICES ASSUME faults = 0, \A x \in late : ShaOf(x) # s
               PROVE  Owed(s)'
    BY DEF Owed, ShaOf
<1>3. shown'[s] = "none" => \A x \in RunIds : ShaOf(x)' = s => ~Reported(x)'
    BY <1>1, <1>2 DEF Owed
<1>4. ASSUME shown'[s] = "pending"
      PROVE  \E x \in RunIds : ShaOf(x)' = s /\ run'[x] # "absent" /\ ~Reported(x)'
    <2>1. PICK x \in RunIds : ShaOf(x) = s /\ run[x] # "absent" /\ ~Reported(x)
        BY <1>2, <1>4 DEF Owed
    <2>2. QED
        BY <1>1, <2>1
<1>5. RunIds' = RunIds
    BY DEF RunIds
<1>6. QED
    BY <1>3, <1>4, <1>5 DEF Owed

(* reportCommitStatus and the "pending" of the handlers: without a failure *)
(* and a late announcement, the last post of a commit is an outcome.       *)
LEMMA OwedNext ==
    ASSUME CommitTypeOK, [Next]_vars, \A d \in Deliveries : PlanInv(d),
           \A y \in RunIds : RunInv(y), NEW s \in Shas, Owed(s)
    PROVE  Owed(s)'
<1>1. req' = req /\ faults' \in Nat /\ late \subseteq late'
    BY StepFacts
<1>2. SUFFICES ASSUME faults' = 0 PROVE Owed(s)'
    BY DEF Owed
<1>3. faults = 0
    BY <1>2, StepFacts DEF CommitTypeOK
<1>4. ASSUME NEW d \in Deliveries, HandlerStep(d), ~PostPending(d) PROVE Owed(s)'
    <2>1. UNCHANGED <<call, shown>>
        BY <1>4, QuietStep
    <2>2. \A x \in RunIds : run[x] # "absent" => run'[x] # "absent"
        BY <1>4, HandlerCreates DEF Creates
    <2>3. \A x \in RunIds : Reported(x)' <=> Reported(x)
        BY <2>1 DEF Reported
    <2>4. QED
        BY <1>1, <1>2, <1>3, <2>1, <2>2, <2>3, OwedKept
<1>5. ASSUME NEW d \in Deliveries, PostPending(d) PROVE Owed(s)'
    <2>1. PICK x \in RunIds : x = <<d, file[d]>> /\ run[x] # "absent"
        BY <1>5 DEF PostPending, CommitTypeOK, RunIds, PlanInv
    <2>2. /\ shown' = [shown EXCEPT ![ShaOf(x)] = "pending"]
          /\ late' = IF Reported(x) THEN late \cup {x} ELSE late
          /\ UNCHANGED <<run, call>>
        BY <1>5, <2>1 DEF PostPending, ReportStatus, validCommitStatusStates, callVars
    <2>3. \A y \in RunIds : Reported(y)' <=> Reported(y)
        BY <2>2 DEF Reported
    <2>4. CASE ShaOf(x) = s
        <3>1. ShaOf(x)' = s /\ shown'[s] = "pending" /\ run'[x] # "absent"
            BY <1>1, <2>1, <2>2, <2>4 DEF ShaOf, CommitTypeOK
        <3>2. CASE Reported(x)
            <4>1. x \in late'
                BY <2>2, <3>2
            <4>2. QED
                BY <3>1, <4>1 DEF Owed
        <3>3. CASE ~Reported(x)
            <4>1. RunIds' = RunIds
                BY DEF RunIds
            <4>2. QED
                BY <2>1, <2>3, <3>1, <3>3, <4>1 DEF Owed
        <3>4. QED
            BY <3>2, <3>3
    <2>5. CASE ShaOf(x) # s
        <3>1. shown'[s] = shown[s]
            BY <2>2, <2>5 DEF CommitTypeOK
        <3>2. QED
            BY <1>1, <1>2, <1>3, <2>2, <2>3, <3>1, OwedKept
    <2>6. QED
        BY <2>4, <2>5
<1>6. ASSUME NEW y \in RunIds, FinishRows(y) PROVE Owed(s)'
    <2>1. UNCHANGED <<run, call, shown>>
        BY <1>6 DEF FinishRows, callVars
    <2>2. \A x \in RunIds : Reported(x)' <=> Reported(x)
        BY <2>1 DEF Reported
    <2>3. QED
        BY <1>1, <1>2, <1>3, <2>1, <2>2, OwedKept
<1>7. ASSUME NEW y \in RunIds, NEW k \in Calls, FinalizeList(y, k) \/ FinalizeSet(y, k)
      PROVE  Owed(s)'
    <2>1. \A x \in RunIds, j \in Calls : call'[<<x, j>>] = "posted" <=> call[<<x, j>>] = "posted"
        <3>1. call[<<y, k>>] # "posted"
            BY <1>7 DEF FinalizeList, FinalizeSet
        <3>2. \/ call' = [call EXCEPT ![<<y, k>>] = "set"]
              \/ call' = [call EXCEPT ![<<y, k>>] = "post"]
            BY <1>7 DEF FinalizeList, FinalizeSet
        <3>3. QED
            BY <3>1, <3>2 DEF CommitTypeOK
    <2>2. \A x \in RunIds : Reported(x)' <=> Reported(x)
        BY <2>1 DEF Reported, Calls
    <2>3. \A x \in RunIds : run[x] # "absent" => run'[x] # "absent"
        <3>1. CASE FinalizeList(y, k)
            BY <3>1 DEF FinalizeList
        <3>2. CASE FinalizeSet(y, k)
            <4>1. runStatus[<<y, k>>] \in Outcomes
                BY <3>2 DEF FinalizeSet, RunInv
            <4>2. QED
                BY <3>2, <4>1 DEF FinalizeSet, CommitTypeOK, Outcomes
        <3>3. QED
            BY <1>7, <3>1, <3>2
    <2>4. shown' = shown
        BY <1>7 DEF FinalizeList, FinalizeSet
    <2>5. QED
        BY <1>1, <1>2, <1>3, <2>2, <2>3, <2>4, OwedKept
<1>8. ASSUME NEW y \in RunIds, NEW k \in Calls, ReportCommitStatus(y, k) PROVE Owed(s)'
    <2> DEFINE state == commitStatusForRunStatus(runStatus[<<y, k>>])
    <2>1. /\ shown' = [shown EXCEPT ![ShaOf(y)] = state]
          /\ state \in {"success", "failure", "error"}
          /\ run' = run
          /\ \A x \in RunIds : x # y => (Reported(x)' <=> Reported(x))
        BY <1>8, PostIsOutcome
    <2> HIDE DEF state
    <2>2. CASE ShaOf(y) = s
        BY <2>1, <2>2 DEF Owed, CommitTypeOK
    <2>3. CASE ShaOf(y) # s
        <3>1. shown'[s] = shown[s]
            BY <2>1, <2>3 DEF CommitTypeOK
        <3>2. \A x \in RunIds : ShaOf(x) = s =>
                  /\ Reported(x)' <=> Reported(x)
                  /\ run[x] # "absent" => run'[x] # "absent"
            BY <2>1, <2>3
        <3>3. QED
            BY <1>1, <1>2, <1>3, <3>1, <3>2, OwedKept
    <2>4. QED
        BY <2>2, <2>3
<1>9. ASSUME NEW y \in RunIds, NEW k \in Calls, FinalizeFails(y, k) PROVE Owed(s)'
    BY <1>2, <1>3, <1>9 DEF FinalizeFails, CommitTypeOK
<1>10. CASE UNCHANGED vars
    <2>1. \A x \in RunIds : Reported(x)' <=> Reported(x)
        BY <1>10 DEF vars, callVars, Reported
    <2>2. QED
        BY <1>1, <1>2, <1>3, <1>10, <2>1, OwedKept DEF vars
<1>11. QED
    BY <1>4, <1>5, <1>6, <1>7, <1>8, <1>9, <1>10 DEF Next, HandlerStep

(* A handler's step and the step of any other keep what holds of it. *)
LEMMA PlanInvNext ==
    ASSUME CommitTypeOK, [Next]_vars, \A d \in Deliveries : PlanInv(d),
           \A x \in RunIds : RunInv(x), NEW e \in Deliveries
    PROVE  PlanInv(e)'
<1>1. ASSUME NEW d \in Deliveries, HandlerStep(d) PROVE PlanInv(e)'
    BY <1>1, OwnPlan, OtherHandlers, KeptPlan
<1>2. ASSUME \/ \E x \in RunIds : FinishRows(x)
             \/ \E x \in RunIds, k \in Calls : CallStep(x, k)
      PROVE  PlanInv(e)'
    BY <1>2, DispatcherKeeps, KeptPlan
<1>3. CASE UNCHANGED vars
    BY <1>3, KeptPlan DEF vars, handlerVars, Kept
<1>4. QED
    BY <1>1, <1>2, <1>3 DEF Next, HandlerStep, CallStep

(* At the start there is no run and no check. *)
LEMMA CheckInit == Init => CheckInv
<1> SUFFICES ASSUME Init PROVE CheckInv
    OBVIOUS
<1>1. \A x \in RunIds : RunInv(x)
    BY DEF Init, RunInv
<1>2. \A d \in Deliveries : PlanInv(d)
    BY DEF Init, PlanInv, RunIds
<1>3. \A s \in Shas : Earned(s) /\ Owed(s)
    BY DEF Init, Earned, Owed, Reported
<1>4. QED
    BY <1>1, <1>2, <1>3, CommitTypeInit DEF CheckInv

(* CheckInv is inductive. *)
LEMMA CheckNext == CheckInv /\ [Next]_vars => CheckInv'
<1> SUFFICES ASSUME CheckInv, [Next]_vars PROVE CheckInv'
    OBVIOUS
<1>1. CommitTypeOK'
    BY CommitTypeNext DEF CheckInv
<1>2. (\A x \in RunIds : RunInv(x))'
    BY <1>1, RunInvNext DEF CheckInv, RunIds
<1>3. (\A d \in Deliveries : PlanInv(d))'
    BY PlanInvNext DEF CheckInv
<1>4. (\A s \in Shas : Earned(s) /\ Owed(s))'
    BY EarnedNext, OwedNext DEF CheckInv
<1>5. QED
    BY <1>1, <1>2, <1>3, <1>4 DEF CheckInv

(* A green, red or broken check is never out of thin air: a call rolled a  *)
(* run of the commit up to it, whatever posts are lost and in whatever     *)
(* order handlers and any number of finalizing calls post.  If no call     *)
(* rolled that run up before Plan had inserted its rows, it is the run's   *)
(* status and what its rows add up to (finalizeRunIfComplete,              *)
(* commitStatusForRunStatus).                                              *)
THEOREM ChecksEarned == Spec => []CheckIsEarned
<1>1. CheckInv => CheckIsEarned
    <2> SUFFICES ASSUME CheckInv, NEW s \in Shas,
                        shown[s] \in {"success", "failure", "error"},
                        NEW res, res = IF shown[s] = "error" THEN "cancelled" ELSE shown[s]
                 PROVE  \E x \in RunIds :
                            /\ ShaOf(x) = s
                            /\ \E k \in Calls : /\ call[<<x, k>>] = "posted"
                                                /\ runStatus[<<x, k>>] = res
                            /\ x \notin early => /\ rows[x] = "done" /\ worst[x] = res
                                                 /\ run[x] = res
        BY DEF CheckIsEarned
    <2>1. PICK x \in RunIds, k \in Calls :
              ShaOf(x) = s /\ call[<<x, k>>] = "posted" /\ runStatus[<<x, k>>] = res
        BY DEF CheckInv, Earned
    <2>2. x \notin early => rows[x] = "done" /\ worst[x] = res /\ run[x] = res
        BY <2>1 DEF CheckInv, RunInv
    <2>3. QED
        BY <2>1, <2>2
<1>2. QED
    BY <1>1, CheckInit, CheckNext, PTL DEF Spec

(* If no post fails and every run is announced before it is reported, the  *)
(* check of a commit whose runs are over shows an outcome: no handler's    *)
(* "pending" is the last word (planGitHubPushWorkflow, reportCommitStatus).*)
THEOREM ChecksSettle == Spec => []CheckSettles
<1>1. CheckInv => CheckSettles
    <2> SUFFICES ASSUME CheckInv, NEW s \in Shas, Settled(s), faults = 0,
                        \A x \in late : ShaOf(x) # s
                 PROVE  shown[s] \in {"success", "failure", "error"}
        BY DEF CheckSettles
    <2>1. shown[s] # "none" /\ shown[s] # "pending"
        BY DEF CheckInv, Owed, Settled
    <2>2. QED
        BY <2>1 DEF CheckInv, CommitTypeOK
<1>2. QED
    BY <1>1, CheckInit, CheckNext, PTL DEF Spec
-----------------------------------------------------------------------------
(* What the handlers decide is what the request asks for. *)

(* Both handlers let the same requests through, though they test them in a *)
(* different order.                                                        *)
LEMMA GateGo ==
    ASSUME NEW r
    PROVE  Gate(r) = "go" <=> /\ r.authentic /\ r.wellFormed /\ r.push /\ r.trusted
                              /\ r.sha # NoSha
BY DEF Gate, githubAnswer, gitlabAnswer

(* A refused delivery asks for nothing. *)
LEMMA RefusedWants ==
    ASSUME NEW d \in Deliveries, NEW f \in Entries, Wanted(d, f)
    PROVE  Gate(req[d]) = "go"
BY GateGo DEF Wanted

(* ListWorkflows, hasGitHubEvent and passesFilters select the workflows    *)
(* that a GitHub push asks for.                                            *)
LEMMA GithubWants ==
    ASSUME NEW d \in Deliveries, NEW f \in Entries, CommitTypeOK,
           Gate(req[d]) = "go", req[d].host = "github"
    PROVE  Wanted(d, f) <=> f \in listWorkflows(req[d]) /\ Triggers(f, req[d])
<1>1. NoBranch \notin On[f].branches /\ NoBranch \notin On[f].branchesIgnore
    BY CommitConstants
<1>2. /\ req[d].authentic /\ req[d].wellFormed /\ req[d].push /\ req[d].trusted
      /\ req[d].sha # NoSha
    BY GateGo
<1>3. QED
    BY <1>1, <1>2 DEF Wanted, listWorkflows, Triggers, passesFilters

(* Entries are listed in an order, so some workflow is the first.          *)
LEMMA FirstExists ==
    ASSUME NEW T, T \subseteq Entries, T # {}
    PROVE  \E f \in T : \A g \in T : Rank[f] <= Rank[g]
<1> DEFINE ranks == {Rank[f] : f \in T}
<1>1. ranks \subseteq Nat /\ ranks # {}
    BY CommitConstants
<1>2. PICK n \in ranks : \A m \in ranks : <<m, n>> \notin OpToRel(<, Nat)
    <2> HIDE DEF ranks
    <2> QED
        BY <1>1, WFMin, NatLessThanWellFounded
<1>3. \A m \in ranks : n <= m
    <2> HIDE DEF ranks
    <2>1. \A m \in Nat, k \in Nat : m < k => <<m, k>> \in OpToRel(<, Nat)
        BY DEF OpToRel
    <2>2. \A m \in ranks : ~(m < n)
        BY <1>1, <1>2, <2>1, Zenon
    <2>3. QED
        BY <1>1, <2>2
<1>4. QED
    BY <1>2, <1>3

(* The GitLab handler takes the configured file or the first workflow.     *)
LEMMA GitlabWants ==
    ASSUME NEW d \in Deliveries, NEW f \in Entries, CommitTypeOK,
           Gate(req[d]) = "go", req[d].host = "gitlab"
    PROVE  Wanted(d, f) <=> f = gitlabFile(req[d]) /\ f \in req[d].tree
<1>1. /\ req[d].authentic /\ req[d].wellFormed /\ req[d].push /\ req[d].trusted
      /\ req[d].sha # NoSha
    BY GateGo
<1>2. CASE WorkflowPath # NoFile
    BY <1>1, <1>2 DEF Wanted, gitlabFile
<1>3. CASE WorkflowPath = NoFile
    <2> DEFINE paths == listWorkflows(req[d])
    <2>1. /\ req[d].tree \subseteq Entries /\ paths \subseteq Entries
          /\ \A g : g \in paths <=> g \in req[d].tree /\ Kind[g].type = "file" /\ Kind[g].yaml
        BY CommitConstants DEF listWorkflows, CommitTypeOK
    <2>2. NoFile \notin Entries /\ \A g \in Entries : Rank[g] \in Nat
        BY CommitConstants
    <2>3. Wanted(d, f) <=> f \in paths /\ \A g \in paths : Rank[f] <= Rank[g]
        <3>1. Wanted(d, f) <=> /\ f \in paths
                               /\ \A g \in req[d].tree : Rank[g] < Rank[f] => g \notin paths
            BY <1>1, <1>3, <2>1, <2>2 DEF Wanted
        <3>2. QED
            BY <2>1, <2>2, <3>1
    <2>4. CASE paths = {}
        BY <1>3, <2>2, <2>3, <2>4 DEF gitlabFile
    <2>5. CASE paths # {}
        <3>1. gitlabFile(req[d]) = CHOOSE h \in paths : \A g \in paths : Rank[h] <= Rank[g]
            BY <1>3, <2>5 DEF gitlabFile
        <3>2. \E h \in paths : \A g \in paths : Rank[h] <= Rank[g]
            BY <2>1, <2>5, FirstExists
        <3>3. /\ gitlabFile(req[d]) \in paths
              /\ \A g \in paths : Rank[gitlabFile(req[d])] <= Rank[g]
            BY <3>1, <3>2
        <3>4. \A e, g \in Entries : Rank[e] = Rank[g] => e = g
            BY CommitConstants
        <3> HIDE DEF paths
        <3>5. Wanted(d, f) => f = gitlabFile(req[d])
            BY <2>1, <2>2, <2>3, <3>3, <3>4
        <3>6. QED
            BY <2>1, <2>3, <3>3, <3>5
    <2>6. QED
        BY <2>4, <2>5
<1>4. QED
    BY <1>2, <1>3
-----------------------------------------------------------------------------
(* The steps of a handler, for what it plans and misses. *)

(* A directory listing is finite, so the missed files can be counted. *)
LEMMA MissedFinite ==
    ASSUME NEW d \in Deliveries
    PROVE  IsFiniteSet(Missed(d)) /\ Cardinality(Missed(d)) \in Nat
<1>1. Missed(d) \in SUBSET Entries
    BY DEF Missed
<1>2. QED
    BY <1>1, CommitConstants, FS_Subset, FS_CardinalityType

(* What a delivery asks for depends on its request alone. *)
LEMMA WantedStays ==
    ASSUME req' = req, NEW d \in Deliveries
    PROVE  \A f \in Entries : Wanted(d, f)' <=> Wanted(d, f)
BY DEF Wanted

(* A handler that does not move misses no more than before. *)
LEMMA KeptFan ==
    ASSUME NEW e \in Deliveries, CommitTypeOK, FanInv(e), Kept(e),
           req' = req, faults' \in Nat, faults <= faults'
    PROVE  FanInv(e)'
<1>1. \A f \in Entries : Wanted(e, f)' <=> Wanted(e, f)
    BY WantedStays
<1>2. Missed(e)' = Missed(e)
    BY <1>1 DEF Missed, Kept
<1>3. Cardinality(Missed(e)) \in Nat
    BY MissedFinite
<1>4. Admitted(e)'
    BY DEF FanInv, Admitted, Kept, Gate, githubAnswer, gitlabAnswer, listWorkflows
<1>5. (\A f \in Entries : run[<<e, f>>] # "absent" => Wanted(e, f))'
    BY <1>1 DEF FanInv, Kept
<1>6. (Counted(e) => Cardinality(Missed(e)) <= faults)'
    BY <1>2, <1>3 DEF FanInv, Counted, Kept, CommitTypeOK
<1>7. QED
    BY <1>4, <1>5, <1>6 DEF FanInv

(* The handler goes on only with requests that its host admits.            *)
LEMMA OwnAdmitted ==
    ASSUME NEW d \in Deliveries, CommitTypeOK, PlanInv(d), Admitted(d), HandlerStep(d)
    PROVE  Admitted(d)'
<1> USE DEF CommitTypeOK, Admitted
<1>1. req' = req
    BY DEF HandlerStep, Receive, ListWorkflows, PlanFile, PlanFileFails, PostPending,
           PostPendingFails, Answer, PlanFirst, DeliveryFails, InsertRow, PlanDone,
           PlanFails, SetPlanFailure, handlerVars
<1>2. /\ Gate(req[d])' = Gate(req[d])
      /\ listWorkflows(req[d])' = listWorkflows(req[d])
    BY <1>1 DEF Gate, githubAnswer, gitlabAnswer, listWorkflows
<1>3. CASE Receive(d)
    <2>1. req[d].host \in {"github", "gitlab"}
        BY CommitConstants
    <2>2. QED
        BY <1>1, <1>2, <1>3, <2>1 DEF Receive, Finish, PlanInv
<1>4. CASE ListWorkflows(d)
    BY <1>1, <1>2, <1>4 DEF ListWorkflows
<1>5. CASE PlanFile(d)
    BY <1>1, <1>2, <1>5 DEF PlanFile, CreateRun
<1>6. CASE PlanFileFails(d)
    BY <1>1, <1>2, <1>6 DEF PlanFileFails
<1>7. CASE PostPending(d) \/ PostPendingFails(d) \/ Answer(d)
    BY <1>1, <1>2, <1>7 DEF PostPending, PostPendingFails, Answer, Finish
<1>8. CASE PlanFirst(d) \/ DeliveryFails(d)
    BY <1>1, <1>2, <1>8 DEF PlanFirst, CreateRun, DeliveryFails, Finish, PlanInv
<1>9. CASE InsertRow(d) \/ PlanFails(d)
    BY <1>1, <1>2, <1>9 DEF InsertRow, PlanFails, handlerVars
<1>10. CASE PlanDone(d) \/ SetPlanFailure(d)
    <2>1. /\ pc[d] \in {"plan", "planFailed"} /\ todo' = todo
          /\ \/ req[d].host = "github" /\ pc'[d] \in {"pending", "files"}
             \/ req[d].host # "github" /\ pc'[d] = "done"
        BY <1>10 DEF PlanDone, SetPlanFailure, Finish
    <2>2. req[d].host \in {"github", "gitlab"}
        BY CommitConstants
    <2>3. QED
        BY <1>1, <1>2, <2>1, <2>2
<1>11. QED
    BY <1>3, <1>4, <1>5, <1>6, <1>7, <1>8, <1>9, <1>10 DEF HandlerStep

(* No handler plans a file that its delivery does not ask for, on success  *)
(* or half way (planGitHubPushWorkflow, Plan).                             *)
LEMMA OwnWanted ==
    ASSUME NEW d \in Deliveries, CommitTypeOK, PlanInv(d), FanInv(d), HandlerStep(d),
           req' = req, NEW f \in Entries, run'[<<d, f>>] # "absent"
    PROVE  Wanted(d, f)'
<1> USE DEF CommitTypeOK
<1>1. SUFFICES Wanted(d, f)
    BY WantedStays
<1>2. \A g \in Entries : <<d, g>> \in RunIds
    BY DEF RunIds
<1>3. run[<<d, f>>] # "absent" => Wanted(d, f)
    BY DEF FanInv
<1>4. CASE PlanFile(d)
    <2>1. PICK g \in todo[d] : /\ \A h \in Entries : h # g => run'[<<d, h>>] = run[<<d, h>>]
                               /\ run'[<<d, g>>] = run[<<d, g>>] \/ Triggers(g, req[d])
        BY <1>2, <1>4 DEF PlanFile, CreateRun
    <2>2. /\ Gate(req[d]) = "go" /\ req[d].host = "github"
          /\ g \in listWorkflows(req[d])
        BY <1>4 DEF PlanFile, FanInv, Admitted
    <2>3. QED
        BY <1>3, <2>1, <2>2, GithubWants
<1>5. CASE PlanFirst(d)
    <2>1. \/ run'[<<d, f>>] = run[<<d, f>>]
          \/ pc[d] = "gitlab" /\ f = gitlabFile(req[d]) /\ f \in req[d].tree
        BY <1>2, <1>5 DEF PlanFirst, CreateRun
    <2>2. pc[d] = "gitlab" => Gate(req[d]) = "go" /\ req[d].host = "gitlab"
        BY DEF FanInv, Admitted
    <2>3. QED
        BY <1>3, <2>1, <2>2, GitlabWants
<1>6. CASE SetPlanFailure(d)
    <2>1. \A h \in Entries : h # file[d] => run'[<<d, h>>] = run[<<d, h>>]
        BY <1>2, <1>6 DEF SetPlanFailure
    <2>2. run[<<d, file[d]>>] # "absent"
        BY <1>6 DEF SetPlanFailure, PlanInv
    <2>3. QED
        BY <1>3, <2>1, <2>2
<1>7. CASE Receive(d) \/ ListWorkflows(d) \/ PlanFileFails(d) \/ DeliveryFails(d)
             \/ InsertRow(d) \/ PlanDone(d) \/ PlanFails(d)
             \/ PostPending(d) \/ PostPendingFails(d) \/ Answer(d)
    BY <1>3, <1>7 DEF Receive, ListWorkflows, PlanFileFails, DeliveryFails, InsertRow,
           PlanDone, PlanFails, PostPending, PostPendingFails, Answer
<1>8. QED
    BY <1>4, <1>5, <1>6, <1>7 DEF HandlerStep

(* One more missed file, for one more fault. *)
LEMMA OneMoreMissed ==
    ASSUME NEW d \in Deliveries, CommitTypeOK, NEW f, Missed(d)' \subseteq Missed(d) \cup {f},
           Cardinality(Missed(d)) <= faults, faults' = faults + 1
    PROVE  Cardinality(Missed(d)') <= faults'
<1>1. IsFiniteSet(Missed(d)) /\ Cardinality(Missed(d)) \in Nat
    BY MissedFinite
<1>2. /\ IsFiniteSet(Missed(d) \cup {f})
      /\ Cardinality(Missed(d) \cup {f}) =
             IF f \in Missed(d) THEN Cardinality(Missed(d))
             ELSE Cardinality(Missed(d)) + 1
    BY <1>1, FS_AddElement, Zenon
<1>3. /\ Cardinality(Missed(d) \cup {f}) <= Cardinality(Missed(d)) + 1
      /\ Cardinality(Missed(d) \cup {f}) \in Nat
    BY <1>1, <1>2
<1>4. /\ Cardinality(Missed(d)') <= Cardinality(Missed(d) \cup {f})
      /\ Cardinality(Missed(d)') \in Nat
    BY <1>2, FS_Subset, FS_CardinalityType
<1>5. QED
    BY <1>1, <1>3, <1>4 DEF CommitTypeOK

(* A failure costs the file it hits its run and no other; nothing else     *)
(* does ("a single bad workflow file doesn't fail the whole delivery").    *)
LEMMA OwnMissed ==
    ASSUME NEW d \in Deliveries, CommitTypeOK, PlanInv(d), FanInv(d), HandlerStep(d),
           req' = req, faults' \in Nat, faults <= faults', Counted(d)'
    PROVE  Cardinality(Missed(d)') <= faults'
<1> USE DEF CommitTypeOK
<1>1. \A f \in Entries : Wanted(d, f)' <=> Wanted(d, f)
    BY WantedStays
<1>2. IsFiniteSet(Missed(d)) /\ Cardinality(Missed(d)) \in Nat
    BY MissedFinite
<1>3. Counted(d) => Cardinality(Missed(d)) <= faults
    BY DEF FanInv, Counted
<1>4. ASSUME Missed(d)' = {} PROVE Cardinality(Missed(d)') <= faults'
    BY <1>4, FS_EmptySet
<1>5. ASSUME Missed(d)' = Missed(d), Counted(d)
      PROVE  Cardinality(Missed(d)') <= faults'
    BY <1>2, <1>3, <1>5
<1>6. CASE Receive(d)
    <2>1. Gate(req[d]) # "go"
        BY <1>6, CommitConstants, SMTT(30) DEF Receive, Counted, Finish
    <2>2. \A f \in Entries : ~Wanted(d, f)
        BY <2>1, RefusedWants
    <2>3. QED
        BY <1>1, <1>4, <2>2 DEF Missed
<1>7. CASE ListWorkflows(d)
    <2>1. Gate(req[d]) = "go" /\ req[d].host = "github"
        BY <1>7 DEF ListWorkflows, FanInv, Admitted
    <2>2. \A f \in Entries : Wanted(d, f) => f \in listWorkflows(req[d])
        BY <2>1, GithubWants
    <2>3. todo'[d] = listWorkflows(req[d])
        BY <1>7 DEF ListWorkflows
    <2>4. QED
        BY <1>1, <1>4, <2>2, <2>3 DEF Missed
<1>8. CASE PlanFile(d)
    <2>1. PICK f \in todo[d] :
              /\ todo'[d] = todo[d] \ {f}
              /\ \/ pc'[d] = "plan" /\ file'[d] = f
                 \/ pc'[d] = "files" /\ ~Triggers(f, req[d])
        BY <1>8 DEF PlanFile, CreateRun
    <2>2. pc[d] = "files" /\ runIDs' = runIDs
        BY <1>8 DEF PlanFile
    <2>3. Gate(req[d]) = "go" /\ req[d].host = "github"
        BY <2>2 DEF FanInv, Admitted
    <2>4. Triggers(f, req[d]) \/ ~Wanted(d, f)
        BY <2>3, GithubWants
    <2>5. Missed(d)' = Missed(d)
        BY <1>1, <2>1, <2>2, <2>4 DEF Missed
    <2>6. QED
        BY <1>5, <2>2, <2>5 DEF Counted
<1>9. CASE PlanFileFails(d)
    <2>1. PICK f \in todo[d] : todo'[d] = todo[d] \ {f}
        BY <1>9 DEF PlanFileFails
    <2>2. pc[d] = "files" /\ UNCHANGED <<pc, file, runIDs>> /\ faults' = faults + 1
        BY <1>9 DEF PlanFileFails
    <2>3. Missed(d)' \subseteq Missed(d) \cup {f}
        BY <1>1, <2>1, <2>2 DEF Missed
    <2>4. Cardinality(Missed(d)) <= faults
        BY <1>3, <2>2 DEF Counted
    <2>5. QED
        BY <2>2, <2>3, <2>4, OneMoreMissed
<1>10. CASE PostPending(d) \/ PostPendingFails(d) \/ Answer(d)
    <2>1. /\ pc[d] \in {"pending", "files"} /\ pc'[d] \in {"files", "done"}
          /\ UNCHANGED <<todo, runIDs>>
        BY <1>10 DEF PostPending, PostPendingFails, Answer, Finish
    <2>2. Missed(d)' = Missed(d)
        BY <1>1, <2>1 DEF Missed
    <2>3. QED
        BY <1>5, <2>1, <2>2 DEF Counted
<1>11. CASE PlanFirst(d)
    <2>1. Gate(req[d]) = "go" /\ req[d].host = "gitlab"
        BY <1>11 DEF PlanFirst, FanInv, Admitted
    <2>2. \A f \in Entries : Wanted(d, f) => f = gitlabFile(req[d]) /\ f \in req[d].tree
        BY <2>1, GitlabWants
    <2>3. \A f \in Entries : Wanted(d, f) => pc'[d] = "plan" /\ f = file'[d]
        BY <1>11, <2>2 DEF PlanFirst, CreateRun
    <2>4. QED
        BY <1>1, <1>4, <2>3 DEF Missed
<1>12. CASE DeliveryFails(d)
    BY <1>12 DEF DeliveryFails, Finish, Counted
<1>13. CASE InsertRow(d)
    BY <1>1, <1>5, <1>13 DEF InsertRow, handlerVars, Missed, Counted
<1>14. CASE PlanDone(d)
    <2>1. /\ pc[d] = "plan" /\ pc'[d] \in {"pending", "done"}
          /\ todo' = todo /\ runIDs'[d] = runIDs[d] \cup {file[d]}
        BY <1>14 DEF PlanDone, Finish
    <2>2. Missed(d)' = Missed(d)
        BY <1>1, <2>1 DEF Missed
    <2>3. QED
        BY <1>5, <2>1, <2>2 DEF Counted
<1>15. CASE PlanFails(d)
    <2>1. /\ pc[d] = "plan" /\ pc'[d] = "planFailed" /\ UNCHANGED <<todo, runIDs>>
          /\ faults' = faults + 1
        BY <1>15 DEF PlanFails
    <2>2. Missed(d)' \subseteq Missed(d) \cup {file[d]}
        BY <1>1, <2>1 DEF Missed
    <2>3. Cardinality(Missed(d)) <= faults
        BY <1>3, <2>1 DEF Counted
    <2>4. QED
        BY <2>1, <2>2, <2>3, OneMoreMissed
<1>16. CASE SetPlanFailure(d)
    <2>1. /\ pc[d] = "planFailed" /\ pc'[d] \in {"files", "done"}
          /\ UNCHANGED <<todo, runIDs>>
        BY <1>16 DEF SetPlanFailure, Finish
    <2>2. Missed(d)' = Missed(d)
        BY <1>1, <2>1 DEF Missed
    <2>3. QED
        BY <1>5, <2>1, <2>2 DEF Counted
<1>17. QED
    BY <1>6, <1>7, <1>8, <1>9, <1>10, <1>11, <1>12, <1>13, <1>14, <1>15, <1>16
       DEF HandlerStep

(* At the start no handler has planned or missed anything. *)
LEMMA FanInit == Init => FanOutInv
<1> SUFFICES ASSUME Init PROVE FanOutInv
    OBVIOUS
<1>1. \A d \in Deliveries : FanInv(d)
    BY DEF Init, FanInv, Admitted, Counted, RunIds
<1>2. QED
    BY <1>1, CheckInit DEF FanOutInv

(* FanOutInv is inductive. *)
LEMMA FanNext == FanOutInv /\ [Next]_vars => FanOutInv'
<1> SUFFICES ASSUME FanOutInv, [Next]_vars PROVE FanOutInv'
    OBVIOUS
<1>1. /\ CommitTypeOK /\ \A x \in RunIds : RunInv(x)
      /\ \A d \in Deliveries : PlanInv(d) /\ FanInv(d)
    BY DEF FanOutInv, CheckInv
<1>2. req' = req /\ faults' \in Nat /\ faults <= faults'
    BY <1>1, StepFacts
<1>3. ASSUME NEW d \in Deliveries, NEW e \in Deliveries, HandlerStep(d)
      PROVE  FanInv(e)'
    <2>1. CASE e = d
        <3>1. Admitted(d)'
            BY <1>1, <1>3, OwnAdmitted DEF FanInv
        <3>2. \A f \in Entries : run'[<<d, f>>] # "absent" => Wanted(d, f)'
            BY <1>1, <1>2, <1>3, OwnWanted
        <3>3. Counted(d)' => Cardinality(Missed(d)') <= faults'
            BY <1>1, <1>2, <1>3, OwnMissed
        <3>4. QED
            BY <2>1, <3>1, <3>2, <3>3 DEF FanInv, Counted
    <2>2. CASE e # d
        BY <1>1, <1>2, <1>3, <2>2, OtherHandlers, KeptFan
    <2>3. QED
        BY <2>1, <2>2
<1>4. ASSUME NEW e \in Deliveries,
             \/ \E x \in RunIds : FinishRows(x)
             \/ \E x \in RunIds, k \in Calls : CallStep(x, k)
      PROVE  FanInv(e)'
    BY <1>1, <1>2, <1>4, DispatcherKeeps, KeptFan
<1>5. ASSUME NEW e \in Deliveries, UNCHANGED vars PROVE FanInv(e)'
    BY <1>1, <1>2, <1>5, KeptFan DEF vars, handlerVars, Kept
<1>6. (\A e \in Deliveries : FanInv(e))'
    BY <1>3, <1>4, <1>5 DEF Next, HandlerStep, CallStep
<1>7. QED
    BY <1>6, CheckNext DEF FanOutInv

(* An answered delivery has a run for each workflow that the push triggers *)
(* and none besides, whatever the filters, the files and the other         *)
(* deliveries are; each failure takes away one file's run at most          *)
(* (planGitHubPushWorkflow, passesFilters, the GitLab handler).            *)
THEOREM DeliveriesFanOut == Spec => []FanOut
<1>1. FanOutInv => FanOut
    <2> SUFFICES ASSUME FanOutInv, NEW d \in Deliveries, pc[d] = "done"
                 PROVE  LET wanted == {f \in Entries : Wanted(d, f)}
                        IN  /\ {f \in Entries : run[<<d, f>>] # "absent"} \subseteq wanted
                            /\ faults = 0 => runIDs[d] = wanted
                            /\ answer[d] = "runs" =>
                                   Cardinality(wanted \ runIDs[d]) <= faults
        BY DEF FanOut
    <2> DEFINE wanted == {f \in Entries : Wanted(d, f)}
    <2>1. CommitTypeOK /\ PlanInv(d) /\ FanInv(d)
        BY DEF FanOutInv, CheckInv
    <2>2. {f \in Entries : run[<<d, f>>] # "absent"} \subseteq wanted
        BY <2>1 DEF FanInv
    <2>3. Missed(d) = wanted \ runIDs[d]
        BY <2>1 DEF Missed, FanInv, Admitted
    <2>4. runIDs[d] \subseteq wanted
        BY <2>1, <2>2 DEF PlanInv, CommitTypeOK
    <2>5. answer[d] = "runs" \/ faults = 0 => Cardinality(Missed(d)) <= faults
        BY <2>1 DEF FanInv, Counted
    <2>6. ASSUME faults = 0 PROVE Missed(d) = {}
        BY <2>5, <2>6, MissedFinite, FS_EmptySet
    <2> HIDE DEF wanted
    <2>7. /\ faults = 0 => runIDs[d] = wanted
          /\ answer[d] = "runs" => Cardinality(wanted \ runIDs[d]) <= faults
        BY <2>3, <2>4, <2>5, <2>6
    <2>8. QED
        BY <2>2, <2>7 DEF wanted
<1>2. QED
    BY <1>1, FanInit, FanNext, PTL DEF Spec
=============================================================================
