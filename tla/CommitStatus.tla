---------------------------- MODULE CommitStatus ----------------------------
(***************************************************************************)
(* From a push to the check on its commit: the GitHub and GitLab webhook   *)
(* handlers (internal/webhook) plan one run per workflow file that the     *)
(* push triggers and post "pending"; the dispatcher posts the outcome of a *)
(* run when it rolls it up (reportCommitStatus), under the same context.   *)
(*                                                                         *)
(* Handlers and finalizing calls run concurrently.  A run may finish while *)
(* the handler that planned it has not posted "pending" yet, and the rows  *)
(* inserted so far may be finished while Plan inserts the others.  The     *)
(* rows of a run (module Dispatch) are reduced to whether all of them are  *)
(* finished and what they add up to.  Patterns of filters are the sets of  *)
(* names they match.                                                       *)
(***************************************************************************)
EXTENDS Naturals, FiniteSets

CONSTANTS
    Deliveries, \* webhook requests
    Requests,   \* what a request can look like
    Entries,    \* what there can be in .github/workflows
    Kind,       \* the type of each entry and whether its name is *.y(a)ml
    Rank,       \* the order in which entries are listed
    WorkflowPath, \* the file configured for GitLab, or NoFile
    On,         \* the push filters of each workflow file
    Shas,       \* commits
    NoSha,      \* a push without a commit
    NoBranch,   \* shortBranch of a ref that is no branch
    NoFile,
    MaxFinals,  \* bound: finalizing calls per run
    MaxFaults   \* bound: failed requests and statements

ASSUME CommitConstants ==
    /\ IsFiniteSet(Entries)
    /\ Rank \in [Entries -> Nat]
    /\ \A e, f \in Entries : Rank[e] = Rank[f] => e = f
    /\ \A f \in Entries : NoBranch \notin On[f].branches \cup On[f].branchesIgnore
    /\ WorkflowPath \in Entries \cup {NoFile} /\ NoFile \notin Entries
    /\ NoSha \notin Shas
    /\ MaxFinals \in Nat /\ MaxFaults \in Nat
    /\ \A r \in Requests : /\ r.host \in {"github", "gitlab"}
                            /\ r.sha \in Shas \cup {NoSha}
                            /\ r.tree \subseteq Entries

VARIABLES
    pc,         \* handler of each delivery: next step
    req,        \* the request it serves
    todo,       \* workflow files it has not looked at yet
    file,       \* the file it plans or has just planned
    runIDs,     \* the files whose runs it created
    answer,     \* what it answered
    run,        \* workflow_runs.status of the run of a delivery and a file
    rows,       \* its rows: "none" yet, some unfinished, or all finished
    worst,      \* what the finished rows add up to
    call,       \* calls of finalizeRunIfComplete that found them finished
    runStatus,  \* the local variable of that name of each call
    shown,      \* the state of the check of each commit
    late,       \* history: runs whose "pending" came after an outcome
    early,      \* history: runs rolled up while Plan was at work on them
    faults

handlerVars == <<pc, req, todo, file, runIDs, answer>>
rowVars == <<rows, worst>>
callVars == <<call, runStatus, early>>
vars == <<handlerVars, run, rowVars, callVars, shown, late, faults>>

RunIds == Deliveries \X Entries
Calls == 1..MaxFinals

(* The commit a run belongs to; the run of d exists once d has a request. *)
ShaOf(x) == req[x[1]].sha

Init ==
    /\ pc = [d \in Deliveries |-> "new"]
    /\ req \in [Deliveries -> Requests]
    /\ todo = [d \in Deliveries |-> {}]
    /\ file = [d \in Deliveries |-> NoFile]
    /\ runIDs = [d \in Deliveries |-> {}]
    /\ answer = [d \in Deliveries |-> "none"]
    /\ run = [x \in RunIds |-> "absent"]
    /\ rows = [x \in RunIds |-> "none"]
    /\ worst = [x \in RunIds |-> "success"]
    /\ call = [c \in RunIds \X Calls |-> "none"]
    /\ runStatus = [c \in RunIds \X Calls |-> "none"]
    /\ shown = [s \in Shas |-> "none"]
    /\ late = {}
    /\ early = {}
    /\ faults = 0
-----------------------------------------------------------------------------
(* Decisions of the handlers about a request r. *)

githubAnswer(r) ==
    IF ~r.authentic THEN "unauthorized"
    ELSE IF ~r.push THEN "ignored"
    ELSE IF ~r.wellFormed THEN "bad"
    ELSE IF ~r.trusted THEN "ignored"
    ELSE IF r.sha = NoSha THEN "bad"
    ELSE "go"

gitlabAnswer(r) ==
    IF ~r.authentic THEN "unauthorized"
    ELSE IF ~r.wellFormed THEN "bad"
    ELSE IF ~r.push \/ ~r.trusted THEN "ignored"
    ELSE IF r.sha = NoSha THEN "bad"
    ELSE "go"

Gate(r) == IF r.host = "github" THEN githubAnswer(r) ELSE gitlabAnswer(r)

(* Defect: branches filters are for branches, so a tag passes them. *)
passesFiltersTag(on, r) ==
    /\ on.branches # {} /\ r.branch # NoBranch => r.branch \in on.branches
    /\ on.branchesIgnore # {} /\ r.branch # NoBranch
           => r.branch \notin on.branchesIgnore
    /\ on.paths # {} => r.files \cap on.paths # {}
    /\ on.pathsIgnore # {} => ~(r.files \subseteq on.pathsIgnore)

(* workflowpattern.Skip for the positive lists, Filter for the others; a   *)
(* push of no branch fails on branches and passes branches-ignore.         *)
passesFilters(on, r) ==
    /\ on.branches # {} => r.branch # NoBranch /\ r.branch \in on.branches
    /\ on.branchesIgnore # {} /\ r.branch # NoBranch
           => r.branch \notin on.branchesIgnore
    /\ on.paths # {} => r.files \cap on.paths # {}
    /\ on.pathsIgnore # {} => ~(r.files \subseteq on.pathsIgnore)

(* Client.ListWorkflows of GitHub and GitLab (types "file" and "blob"). *)
listWorkflows(r) == {f \in r.tree : Kind[f].type = "file" /\ Kind[f].yaml}

(* The file the GitLab handler plans, NoFile if there is none. *)
gitlabFile(r) ==
    LET paths == listWorkflows(r)
    IN  IF WorkflowPath # NoFile THEN WorkflowPath
        ELSE IF paths = {} THEN NoFile
        ELSE CHOOSE f \in paths : \A g \in paths : Rank[f] <= Rank[g]

(* hasGitHubEvent and passesFilters. *)
Triggers(f, r) == On[f].push /\ passesFilters(On[f], r)
-----------------------------------------------------------------------------
(* The check of a commit. *)

validCommitStatusStates == {"pending", "success", "failure", "error"}

(* github.ReportStatus: the post overwrites the state under the context.   *)
ReportStatus(s, state) ==
    IF state \in validCommitStatusStates
    THEN shown' = [shown EXCEPT ![s] = state]
    ELSE UNCHANGED shown

(* Defect: the run status is passed on as it is; a run that did not fail  *)
(* is reported as a success.                                               *)
runStatusAsIs(status) == status
successUnlessFailure(status) == IF status = "failure" THEN "failure" ELSE "success"

commitStatusForRunStatus(status) ==
    IF status \in {"success", "failure"} THEN status ELSE "error"
-----------------------------------------------------------------------------
(* The handler of delivery d. *)

Finish(d, with) ==
    /\ pc' = [pc EXCEPT ![d] = "done"]
    /\ answer' = [answer EXCEPT ![d] = with]

Receive(d) ==
    /\ pc[d] = "new"
    /\ IF Gate(req[d]) = "go"
       THEN pc' = [pc EXCEPT ![d] = req[d].host] /\ UNCHANGED answer
       ELSE Finish(d, Gate(req[d]))
    /\ UNCHANGED <<req, todo, file, runIDs, run, rowVars, callVars, shown, late, faults>>

(* ListWorkflows. *)
ListWorkflows(d) ==
    /\ pc[d] = "github"
    /\ pc' = [pc EXCEPT ![d] = "files"]
    /\ todo' = [todo EXCEPT ![d] = listWorkflows(req[d])]
    /\ UNCHANGED <<req, file, runIDs, answer, run, rowVars, callVars, shown, late, faults>>

(* Plan begins: CreateRun. *)
CreateRun(d, f) ==
    /\ run' = [run EXCEPT ![<<d, f>>] = "queued"]
    /\ file' = [file EXCEPT ![d] = f]
    /\ pc' = [pc EXCEPT ![d] = "plan"]

(* planGitHubPushWorkflow, up to CreateRun. *)
PlanFile(d) ==
    /\ pc[d] = "files"
    /\ \E f \in todo[d] :
        /\ todo' = [todo EXCEPT ![d] = @ \ {f}]
        /\ IF Triggers(f, req[d]) THEN CreateRun(d, f) ELSE UNCHANGED <<run, file, pc>>
    /\ UNCHANGED <<req, runIDs, answer, rowVars, callVars, shown, late, faults>>

(* A file cannot be fetched or parsed, or its run not be created: the next *)
(* one is tried.                                                           *)
PlanFileFails(d) ==
    /\ pc[d] = "files"
    /\ faults < MaxFaults
    /\ faults' = faults + 1
    /\ \E f \in todo[d] : todo' = [todo EXCEPT ![d] = @ \ {f}]
    /\ UNCHANGED <<pc, req, file, runIDs, answer, run, rowVars, callVars, shown, late>>

(* The GitLab handler plans one file. *)
PlanFirst(d) ==
    LET f == gitlabFile(req[d])
    IN  /\ pc[d] = "gitlab"
        /\ IF f \in req[d].tree
           THEN CreateRun(d, f) /\ UNCHANGED answer
           ELSE Finish(d, "bad") /\ UNCHANGED <<run, file>>
        /\ UNCHANGED <<req, todo, runIDs, rowVars, callVars, shown, late, faults>>

(* The workflow files cannot be listed, or the one file not be fetched     *)
(* (gitlabHandleFetchError) or parsed, or its run not be created.          *)
DeliveryFails(d) ==
    /\ faults < MaxFaults
    /\ faults' = faults + 1
    /\ \/ pc[d] = "github" /\ Finish(d, "ignored")
       \/ pc[d] = "gitlab" /\ Finish(d, "bad")
       \/ pc[d] = "gitlab" /\ Finish(d, "error")
    /\ UNCHANGED <<req, todo, file, runIDs, run, rowVars, callVars, shown, late>>

(* Plan inserts a row, which can be leased at once. *)
InsertRow(d) ==
    /\ pc[d] = "plan"
    /\ rows' = [rows EXCEPT ![<<d, file[d]>>] = "busy"]
    /\ UNCHANGED <<handlerVars, run, worst, callVars, shown, late, faults>>

(* All rows are inserted; the GitLab handler posts no "pending". *)
PlanDone(d) ==
    /\ pc[d] = "plan"
    /\ runIDs' = [runIDs EXCEPT ![d] = @ \cup {file[d]}]
    /\ IF req[d].host = "github"
       THEN pc' = [pc EXCEPT ![d] = "pending"] /\ UNCHANGED <<answer, file>>
       ELSE Finish(d, "runs") /\ file' = [file EXCEPT ![d] = NoFile]
    /\ UNCHANGED <<req, todo, run, rowVars, callVars, shown, late, faults>>

(* A row cannot be inserted; those inserted before stay. *)
PlanFails(d) ==
    /\ pc[d] = "plan"
    /\ faults < MaxFaults
    /\ faults' = faults + 1
    /\ pc' = [pc EXCEPT ![d] = "planFailed"]
    /\ UNCHANGED <<req, todo, file, runIDs, answer, run, rowVars, callVars, shown, late>>

(* Plan sets the run to "failure", or cannot, which it ignores. *)
SetPlanFailure(d) ==
    /\ pc[d] = "planFailed"
    /\ \/ run' = [run EXCEPT ![<<d, file[d]>>] = "failure"]
       \/ UNCHANGED run
    /\ IF req[d].host = "github"
       THEN pc' = [pc EXCEPT ![d] = "files"] /\ UNCHANGED answer
       ELSE Finish(d, "error")
    /\ file' = [file EXCEPT ![d] = NoFile]
    /\ UNCHANGED <<req, todo, runIDs, rowVars, callVars, shown, late, faults>>

(* Some finalizing call has posted an outcome of x. *)
Reported(x) == \E k \in Calls : call[<<x, k>>] = "posted"

PostPending(d) ==
    LET x == <<d, file[d]>>
    IN  /\ pc[d] = "pending"
        /\ ReportStatus(ShaOf(x), "pending")
        /\ late' = IF Reported(x) THEN late \cup {x} ELSE late
        /\ pc' = [pc EXCEPT ![d] = "files"]
        /\ file' = [file EXCEPT ![d] = NoFile]
        /\ UNCHANGED <<req, todo, runIDs, answer, run, rowVars, callVars, faults>>

(* The post fails, which is logged. *)
PostPendingFails(d) ==
    /\ pc[d] = "pending"
    /\ faults < MaxFaults
    /\ faults' = faults + 1
    /\ pc' = [pc EXCEPT ![d] = "files"]
    /\ file' = [file EXCEPT ![d] = NoFile]
    /\ UNCHANGED <<req, todo, runIDs, answer, run, rowVars, callVars, shown, late>>

Answer(d) ==
    /\ pc[d] = "files"
    /\ todo[d] = {}
    /\ Finish(d, IF runIDs[d] # {} THEN "runs" ELSE "ignored")
    /\ UNCHANGED <<req, todo, file, runIDs, run, rowVars, callVars, shown, late, faults>>
-----------------------------------------------------------------------------
(* The dispatcher, for run x.                                              *)

(* Outcomes a roll-up can still give once the finished rows add up to w: a *)
(* failed row outweighs all others, a cancelled one the successful.        *)
AtLeast(w) == CASE w = "success"   -> {"success", "cancelled", "failure"}
                [] w = "cancelled" -> {"cancelled", "failure"}
                [] w = "failure"   -> {"failure"}

(* The unfinished rows of x are finished, by runners or by the gates. *)
FinishRows(x) ==
    /\ rows[x] = "busy"
    /\ rows' = [rows EXCEPT ![x] = "done"]
    /\ \E w \in AtLeast(worst[x]) : worst' = [worst EXCEPT ![x] = w]
    /\ UNCHANGED <<handlerVars, run, callVars, shown, late, faults>>

(* Plan has not inserted all rows of x, nor set it to "failure". *)
Planning(x) == pc[x[1]] \in {"plan", "planFailed"} /\ file[x[1]] = x[2]

(* finalizeRunIfComplete, the k-th call for x that finds no unfinished row *)
(* in its list, makes up its runStatus.                                    *)
FinalizeList(x, k) ==
    /\ rows[x] = "done"
    /\ call[<<x, k>>] = "none" /\ \A j \in 1..(k - 1) : call[<<x, j>>] # "none"
    /\ call' = [call EXCEPT ![<<x, k>>] = "set"]
    /\ runStatus' = [runStatus EXCEPT ![<<x, k>>] = worst[x]]
    /\ early' = IF Planning(x) THEN early \cup {x} ELSE early
    /\ UNCHANGED <<handlerVars, run, rowVars, shown, late, faults>>

(* SetRunStatus. *)
FinalizeSet(x, k) ==
    /\ call[<<x, k>>] = "set"
    /\ run' = [run EXCEPT ![x] = runStatus[<<x, k>>]]
    /\ call' = [call EXCEPT ![<<x, k>>] = "post"]
    /\ UNCHANGED <<handlerVars, rowVars, runStatus, early, shown, late, faults>>

(* reportCommitStatus; runs planned by hand are not in this module. *)
ReportCommitStatus(x, k) ==
    /\ call[<<x, k>>] = "post"
    /\ call' = [call EXCEPT ![<<x, k>>] = "posted"]
    /\ ReportStatus(ShaOf(x), commitStatusForRunStatus(runStatus[<<x, k>>]))
    /\ UNCHANGED <<handlerVars, run, rowVars, runStatus, early, late, faults>>

(* SetRunStatus, GetRun or the post fails, or the server dies: the call    *)
(* ends and is not made again.                                             *)
FinalizeFails(x, k) ==
    /\ call[<<x, k>>] \in {"set", "post"}
    /\ faults < MaxFaults
    /\ faults' = faults + 1
    /\ call' = [call EXCEPT ![<<x, k>>] = "lost"]
    /\ runStatus' = [runStatus EXCEPT ![<<x, k>>] = "none"]
    /\ UNCHANGED <<handlerVars, run, rowVars, early, shown, late>>
-----------------------------------------------------------------------------
Next ==
    \/ \E d \in Deliveries :
        \/ Receive(d) \/ ListWorkflows(d) \/ PlanFile(d) \/ PlanFileFails(d)
        \/ PlanFirst(d) \/ DeliveryFails(d)
        \/ InsertRow(d) \/ PlanDone(d) \/ PlanFails(d) \/ SetPlanFailure(d)
        \/ PostPending(d) \/ PostPendingFails(d) \/ Answer(d)
    \/ \E x \in RunIds : FinishRows(x)
    \/ \E x \in RunIds, k \in Calls :
        \/ FinalizeList(x, k) \/ FinalizeSet(x, k)
        \/ ReportCommitStatus(x, k) \/ FinalizeFails(x, k)

Spec == Init /\ [][Next]_vars
-----------------------------------------------------------------------------
(* What a delivery asks for, read off the request: an authentic push to    *)
(* the allowed repository runs each workflow whose push filters it         *)
(* survives, or the first one on GitLab.  A directory or another file is   *)
(* no workflow.                                                            *)
Wanted(d, f) ==
    LET r == req[d]
        on == On[f]
    IN  /\ r.authentic /\ r.wellFormed /\ r.push /\ r.trusted /\ r.sha # NoSha
        /\ f \in r.tree
        /\ IF r.host = "gitlab"
           THEN \/ f = WorkflowPath
                \/ /\ WorkflowPath = NoFile
                   /\ Kind[f].type = "file" /\ Kind[f].yaml
                   /\ \A g \in r.tree : Rank[g] < Rank[f] =>
                          Kind[g].type # "file" \/ ~Kind[g].yaml
           ELSE /\ Kind[f].type = "file" /\ Kind[f].yaml
                /\ on.push
                /\ on.branches = {} \/ \E n \in on.branches : n = r.branch
                /\ \A n \in on.branchesIgnore : n # r.branch
                /\ on.paths = {} \/ \E n \in r.files : n \in on.paths
                /\ on.pathsIgnore = {} \/ \E n \in r.files : n \notin on.pathsIgnore

(* An answered delivery has planned a run for every workflow it asks for   *)
(* and for no other, and answers with them; a failure among the files      *)
(* costs no other file its run (planGitHubPushWorkflow: "a single bad      *)
(* workflow file doesn't fail the whole delivery").                        *)
FanOut ==
    \A d \in Deliveries : pc[d] = "done" =>
        LET wanted == {f \in Entries : Wanted(d, f)}
        IN  /\ {f \in Entries : run[<<d, f>>] # "absent"} \subseteq wanted
            /\ faults = 0 => runIDs[d] = wanted
            /\ answer[d] = "runs" => Cardinality(wanted \ runIDs[d]) <= faults

(* Handlers of the commit are done, its runs are rolled up and posted, and *)
(* no call is about to post again.                                         *)
Settled(s) ==
    /\ \A d \in Deliveries : req[d].sha = s => pc[d] = "done"
    /\ \A x \in RunIds : ShaOf(x) = s /\ run[x] # "absent" =>
           /\ Reported(x)
           /\ \A k \in Calls : call[<<x, k>>] \notin {"set", "post"}
    /\ \E x \in RunIds : ShaOf(x) = s /\ run[x] # "absent"

(* A check shows an outcome only if a call rolled up a run of that commit  *)
(* to it and posted it, whatever posts fail or overtake each other.  It is *)
(* then the run's status and what its rows, all finished, add up to,       *)
(* unless a call found the rows inserted so far finished before Plan had   *)
(* inserted them all (finalizeRunIfComplete, commitStatusForRunStatus).    *)
CheckIsEarned ==
    \A s \in Shas : shown[s] \in {"success", "failure", "error"} =>
        LET res == IF shown[s] = "error" THEN "cancelled" ELSE shown[s]
        IN  \E x \in RunIds :
                /\ ShaOf(x) = s
                /\ \E k \in Calls : /\ call[<<x, k>>] = "posted"
                                    /\ runStatus[<<x, k>>] = res
                /\ x \notin early => rows[x] = "done" /\ worst[x] = res /\ run[x] = res

(* Once all runs of a commit have reported its check shows an outcome, if  *)
(* every run was announced before it was reported and nothing failed       *)
(* (reportCommitStatus).                                                   *)
CheckSettles ==
    \A s \in Shas :
        /\ Settled(s)
        /\ faults = 0
        /\ \A x \in late : ShaOf(x) # s
        => shown[s] \in {"success", "failure", "error"}
=============================================================================
