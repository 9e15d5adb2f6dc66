---------------------------- MODULE JobLifecycle ----------------------------
(***************************************************************************)
(* What the orchestrator promises about the status column of the jobs      *)
(* table, as if every decision were taken atomically on the current        *)
(* statuses: a row is leased only when everything it needs has finished    *)
(* and does not block it, is skipped exactly when something it needs did   *)
(* not succeed, and a finished row never changes again.  The dispatcher    *)
(* (module Dispatch) decides on snapshots that are stale by the time it    *)
(* acts on them; it is checked and proved to implement this module.        *)
(***************************************************************************)
EXTENDS Workflow

CONSTANT PrePlanned    \* runs whose rows are all there from the start

VARIABLE status        \* jobs.status, "absent" before the row is inserted

Init ==
    status = [j \in Jobs |-> IF RunOf[j] \in PrePlanned THEN "queued"
                                                        ELSE "absent"]

Move(j, from, to) ==
    /\ status[j] = from
    /\ status' = [status EXCEPT ![j] = to]

(* Rows appear stage by stage. *)
Plan(j) ==
    /\ \A k \in Jobs : /\ RunOf[k] = RunOf[j]
                       /\ Stage[k] < Stage[j]
                       => status[k] # "absent"
    /\ Move(j, "absent", "queued")

Lease(j) == Leasable(j, status) /\ Move(j, "queued", "leased")

Skip(j) == SkipByRule(j, status) /\ Move(j, "queued", "skipped")

Start(j) == Move(j, "leased", "running")

Finish(j) == \E res \in Terminal : Move(j, "running", res)

(* The reaper takes back any set of leased rows in one statement. *)
Requeue ==
    \E S \in SUBSET {j \in Jobs : status[j] = "leased"} :
        status' = [j \in Jobs |-> IF j \in S THEN "queued" ELSE status[j]]

Next ==
    \/ \E j \in Jobs : Plan(j) \/ Lease(j) \/ Skip(j) \/ Start(j) \/ Finish(j)
    \/ Requeue

Spec == Init /\ [][Next]_status
-----------------------------------------------------------------------------
TypeOK == status \in [Jobs -> Statuses]

(* A row that was ever handed out or skipped has every row it needs        *)
(* inserted and finished (queue.go, acquireOneQueuedJob: "a job is NEVER   *)
(* leased with unsatisfied needs"), all matrix cells included.             *)
NeedsSafe ==
    \A j \in Jobs : status[j] \notin {"absent", "queued"}
        => \A n \in NeedRows(j) : status[n] \in Terminal

(* A row without an if: override and with a need that did not succeed      *)
(* never reaches a runner: it stays queued or is skipped                   *)
(* (queue.go, needsSatisfied and hasDefaultIfExpr).  Comments elsewhere    *)
(* say that a row without an if: always runs: see README, section 6.       *)
BlockedNeverRuns ==
    \A j \in Jobs \ IfOverride :
        (\E n \in NeedRows(j) : status[n] \in TerminalNonSuccess)
            => status[j] \in {"absent", "queued", "skipped"}

(* A finished row is never reopened nor given another outcome: jobs with   *)
(* a terminal status have no outgoing transition (job_store.go).           *)
TerminalIsFinal ==
    [][\A j \in Jobs : status[j] \in Terminal => status'[j] = status[j]]_status
=============================================================================
