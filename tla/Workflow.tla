------------------------------ MODULE Workflow ------------------------------
(***************************************************************************)
(* The shape of the planned workflow runs and the pure decisions that the  *)
(* dispatcher derives from the statuses of a run's rows: which rows are    *)
(* leasable, which are skipped by rule, and what a complete run rolls up   *)
(* to.  A decision is a function of a snapshot st, the job statuses that   *)
(* one SELECT returned; "absent" stands for a row not inserted yet.        *)
(***************************************************************************)
EXTENDS Integers

CONSTANTS
    Runs,       \* workflow_runs rows
    Jobs,       \* jobs rows, one per matrix cell
    JobIds,     \* the YAML job ids
    RunOf,      \* jobs.run_id
    YamlId,     \* jobs.job_id_yaml: the cells of a matrix share one
    Needs,      \* jobs.needs, a set of YAML job ids
    IfOverride, \* the rows whose if_expr is neither empty nor "success()"
    Stage       \* the stage of the row's job in act's plan

(* The rows of run u that carry YAML id y, inserted or not. *)
Cells(u, y) == {n \in Jobs : RunOf[n] = u /\ YamlId[n] = y}

(* All rows that row j waits for. *)
NeedRows(j) == UNION {Cells(RunOf[j], y) : y \in Needs[j]}

ASSUME WorkflowTypes ==
    /\ RunOf \in [Jobs -> Runs]
    /\ YamlId \in [Jobs -> JobIds]
    /\ Needs \in [Jobs -> SUBSET JobIds]
    /\ IfOverride \subseteq Jobs
    /\ Stage \in [Jobs -> Nat]

(* act's planner rejects a need that names no job of the workflow, and     *)
(* puts a job in a later stage than everything it needs.                   *)
ASSUME PlanIsStaged ==
    \A j \in Jobs : /\ \A y \in Needs[j] : Cells(RunOf[j], y) # {}
                    /\ \A n \in NeedRows(j) : Stage[n] < Stage[j]
-----------------------------------------------------------------------------
(* Job statuses and the legal moves between them. *)

Terminal == {"success", "failure", "skipped", "cancelled"}
TerminalNonSuccess == {"failure", "cancelled", "skipped"}
Statuses == {"absent", "queued", "leased", "running"} \cup Terminal

jobTransitions ==
    ({"queued"} \X {"leased", "cancelled", "skipped"})
        \cup ({"leased"} \X {"running", "queued", "cancelled"})
        \cup ({"running"} \X {"success", "failure", "cancelled", "skipped"})

isLegalJobTransition(from, to) == <<from, to>> \in jobTransitions
-----------------------------------------------------------------------------
(* Needs gating over a snapshot. *)

(* byJobID[y] as groupJobsByJobID builds it from the rows of run u. *)
Group(u, y, st) == {n \in Cells(u, y) : st[n] # "absent"}

(* Defect: one finished cell is taken for the whole matrix job. *)
AllTerminalOneCell(j, st) ==
    \A y \in Needs[j] : \E n \in Group(RunOf[j], y, st) : st[n] \in Terminal

(* Defect: a skipped or cancelled need does not block. *)
AnyBlockingFailed(j, st) ==
    \E y \in Needs[j] : \E n \in Group(RunOf[j], y, st) : st[n] = "failure"

(* needsSatisfied returns this pair: an empty group is "not terminal". *)
AllTerminal(j, st) ==
    \A y \in Needs[j] : /\ Group(RunOf[j], y, st) # {}
                        /\ \A n \in Group(RunOf[j], y, st) : st[n] \in Terminal

AnyBlocking(j, st) ==
    \E y \in Needs[j] : \E n \in Group(RunOf[j], y, st) :
        st[n] \in TerminalNonSuccess

hasDefaultIfExpr(j) == j \notin IfOverride

SkipByRule(j, st) ==
    /\ Needs[j] # {}
    /\ AllTerminal(j, st)
    /\ AnyBlocking(j, st)
    /\ hasDefaultIfExpr(j)

Leasable(j, st) ==
    \/ Needs[j] = {}
    \/ /\ AllTerminal(j, st)
       /\ ~(AnyBlocking(j, st) /\ hasDefaultIfExpr(j))
-----------------------------------------------------------------------------
(* Roll-up of a run over a snapshot. *)

RowsOf(u, st) == {j \in Jobs : RunOf[j] = u /\ st[j] # "absent"}

RunComplete(u, st) == \A j \in RowsOf(u, st) : st[j] \in Terminal

RollUp(u, st) ==
    IF \E j \in RowsOf(u, st) : st[j] = "failure" THEN "failure"
    ELSE IF \A j \in RowsOf(u, st) : st[j] \in {"success", "skipped"}
         THEN "success"
         ELSE "cancelled"

RunTerminal == {"success", "failure", "cancelled"}
=============================================================================
