-------------------------------- MODULE Store --------------------------------
(***************************************************************************)
(* The PostgreSQL tables of internal/store that the dispatcher shares with *)
(* the planner, and the statements that change them.  Every operator here  *)
(* is ONE statement, hence atomic, and assigns every column of the jobs    *)
(* table; whoever runs several of them can be interrupted in between.      *)
(*                                                                         *)
(* Lease ids (uuids) are the numbers 1..MaxLeases in order of creation, 0  *)
(* is NULL.  lease_deadline is reduced to whether it has passed (expired). *)
(* One CompleteJob's outputs are named by the lease that reported them.    *)
(***************************************************************************)
EXTENDS Workflow

CONSTANTS
    Runners,    \* runners rows
    NoRunner,   \* NULL runner_id
    NoResult,   \* NULL result
    MaxLeases   \* bound: how many lease ids a behaviour may draw

ASSUME StoreConstants ==
    /\ NoRunner \notin Runners
    /\ NoResult \notin Terminal
    /\ MaxLeases \in Nat

VARIABLES
    status,     \* jobs.status
    lease,      \* jobs.lease_id
    holder,     \* jobs.runner_id
    expired,    \* the rows whose jobs.lease_deadline has passed
    result,     \* jobs.result
    outputs,    \* job_outputs: the lease whose outputs the row carries
    runStatus   \* workflow_runs.status

jobsTable == <<status, lease, holder, expired, result>>
tables == <<status, lease, holder, expired, result, outputs, runStatus>>

Leases == 1..MaxLeases

StoreTypeOK ==
    /\ status \in [Jobs -> Statuses]
    /\ lease \in [Jobs -> 0..MaxLeases]
    /\ holder \in [Jobs -> Runners \cup {NoRunner}]
    /\ expired \subseteq Jobs
    /\ result \in [Jobs -> Terminal \cup {NoResult}]
    /\ outputs \in [Jobs -> 0..MaxLeases]
    /\ runStatus \in [Runs -> RunTerminal \cup {"absent", "queued"}]
-----------------------------------------------------------------------------
(* jobs *)

CreateJob(j) ==
    /\ status' = [status EXCEPT ![j] = "queued"]
    /\ UNCHANGED <<lease, holder, expired, result>>

(* A Job row found by lease id. *)
GetByLease(l) == {j \in Jobs : lease[j] = l}

(* TransitionStatus returns ErrIllegalTransition unless this holds. *)
TransitionApplies(j, from, to) ==
    isLegalJobTransition(from, to) /\ status[j] = from

TransitionStatus(j, from, to) ==
    /\ status' = [status EXCEPT ![j] =
                     IF TransitionApplies(j, from, to) THEN to ELSE @]
    /\ UNCHANGED <<lease, holder, expired, result>>

(* Lease returns ErrIllegalTransition unless this holds. *)
LeaseApplies(j) == status[j] = "queued"

Lease(j, l, r) ==
    IF LeaseApplies(j)
    THEN /\ status' = [status EXCEPT ![j] = "leased"]
         /\ lease' = [lease EXCEPT ![j] = l]
         /\ holder' = [holder EXCEPT ![j] = r]
         /\ expired' = expired \ {j}
         /\ UNCHANGED result
    ELSE UNCHANGED jobsTable

RenewLease(l) ==
    /\ expired' = {j \in expired : lease[j] # l}
    /\ UNCHANGED <<status, lease, holder, result>>

(* Defects: whatever has a deadline in the past is reaped; only jobs that  *)
(* have started are.                                                       *)
ExpiredAny == expired

ExpiredRunning == {j \in expired : status[j] = "running"}

ExpiredRows == {j \in expired : status[j] = "leased"}

RequeueExpired ==
    LET Keep(col, null) ==
            [j \in Jobs |-> IF j \in ExpiredRows THEN null ELSE col[j]]
    IN  /\ status' = Keep(status, "queued")
        /\ holder' = Keep(holder, NoRunner)
        /\ lease' = Keep(lease, 0)
        /\ expired' = expired \ ExpiredRows
        /\ UNCHANGED result

SetResult(j, res) ==
    /\ result' = [result EXCEPT ![j] = res]
    /\ UNCHANGED <<status, lease, holder, expired>>
-----------------------------------------------------------------------------
(* job_outputs and workflow_runs *)

UpsertOutputs(j, l) == outputs' = [outputs EXCEPT ![j] = l]

SetRunStatus(u, s) == runStatus' = [runStatus EXCEPT ![u] = s]
=============================================================================
