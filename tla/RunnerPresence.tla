--------------------------- MODULE RunnerPresence ---------------------------
(***************************************************************************)
(* runners.status: RegisterRunner, the Heartbeat streams and RunReaper     *)
(* (internal/dispatch/service.go) on the runners table.                    *)
(*                                                                         *)
(* last_heartbeat is reduced to whether it is older than RunReaper's       *)
(* cutoff.  A runner may have several Heartbeat streams: the one it broke  *)
(* off may still be served when the next one is.  Lease renewal, which     *)
(* Heartbeat does before the ack, is HeartbeatRenew of module Dispatch.    *)
(***************************************************************************)
EXTENDS Naturals

CONSTANTS
    Runners,
    Streams,    \* Heartbeat streams one runner can have at a time
    MaxFaults   \* bound: streams that end in the middle of a ping

ASSUME PresenceConstants == MaxFaults \in Nat

VARIABLES
    row,        \* runners.status, "absent" before the row is created
    stale,      \* the rows whose last_heartbeat is before the cutoff
    pc,         \* Heartbeat handler: next step
    seen,       \* the runner.Status its GetByID returned
    alive,      \* the runners that are running
    faults

vars == <<row, stale, pc, seen, alive, faults>>

Init ==
    /\ row = [r \in Runners |-> "absent"]
    /\ stale = {}
    /\ pc = [r \in Runners |-> [k \in Streams |-> "recv"]]
    /\ seen = [r \in Runners |-> [k \in Streams |-> "absent"]]
    /\ alive = Runners
    /\ faults = 0

(* Defect: the status is left to be set by the first heartbeat. *)
RegisterUnset(r) ==
    /\ r \in alive
    /\ row[r] = "absent"
    /\ row' = [row EXCEPT ![r] = ""]
    /\ UNCHANGED <<stale, pc, seen, alive, faults>>

(* A runner that calls again gets another id, hence is another runner. *)
RegisterRunner(r) ==
    /\ r \in alive
    /\ row[r] = "absent"
    /\ row' = [row EXCEPT ![r] = "online"]
    /\ UNCHANGED <<stale, pc, seen, alive, faults>>

(* Heartbeat receives a ping and reads the runner's row. *)
ReceivePing(r, k) ==
    /\ r \in alive
    /\ row[r] # "absent"
    /\ pc[r][k] = "recv"
    /\ pc' = [pc EXCEPT ![r][k] = "update"]
    /\ seen' = [seen EXCEPT ![r][k] = row[r]]
    /\ UNCHANGED <<row, stale, alive, faults>>

(* Defect: an offline runner is not flipped back. *)
UpdateOnly(r, k) ==
    /\ pc[r][k] = "update"
    /\ stale' = stale \ {r}
    /\ pc' = [pc EXCEPT ![r][k] = "ack"]
    /\ UNCHANGED <<row, seen, alive, faults>>

(* ... advances last_heartbeat ... *)
UpdateHeartbeat(r, k) ==
    /\ pc[r][k] = "update"
    /\ stale' = stale \ {r}
    /\ pc' = [pc EXCEPT ![r][k] = IF seen[r][k] = "online" THEN "ack"
                                                           ELSE "setOnline"]
    /\ UNCHANGED <<row, seen, alive, faults>>

(* ... flips the runner back if the row read said so ... *)
SetOnline(r, k) ==
    /\ pc[r][k] = "setOnline"
    /\ row' = [row EXCEPT ![r] = "online"]
    /\ pc' = [pc EXCEPT ![r][k] = "ack"]
    /\ UNCHANGED <<stale, seen, alive, faults>>

(* ... and answers. *)
SendAck(r, k) ==
    /\ pc[r][k] = "ack"
    /\ pc' = [pc EXCEPT ![r][k] = "recv"]
    /\ UNCHANGED <<row, stale, seen, alive, faults>>

(* A statement fails, the stream breaks or the server restarts. *)
StreamEnds(r, k) ==
    /\ pc[r][k] # "recv"
    /\ faults < MaxFaults
    /\ faults' = faults + 1
    /\ pc' = [pc EXCEPT ![r][k] = "recv"]
    /\ UNCHANGED <<row, stale, seen, alive>>

(* HeartbeatMissLimit intervals pass without a ping. *)
MissPings(r) ==
    /\ row[r] # "absent"
    /\ r \notin stale
    /\ stale' = stale \cup {r}
    /\ UNCHANGED <<row, pc, seen, alive, faults>>

RunnerDies(r) ==
    /\ r \in alive
    /\ alive' = alive \ {r}
    /\ UNCHANGED <<row, stale, pc, seen, faults>>

(* Defect: the comparison with the cutoff is the wrong way round. *)
MarkFreshOffline ==
    /\ \E r \in Runners \ stale : row[r] = "online"
    /\ row' = [r \in Runners |-> IF row[r] = "online" /\ r \notin stale
                                 THEN "offline" ELSE row[r]]
    /\ UNCHANGED <<stale, pc, seen, alive, faults>>

(* RunReaper, one tick that finds something. *)
MarkStaleOffline ==
    /\ \E r \in stale : row[r] # "offline"
    /\ row' = [r \in Runners |-> IF r \in stale THEN "offline" ELSE row[r]]
    /\ UNCHANGED <<stale, pc, seen, alive, faults>>
-----------------------------------------------------------------------------
PingStep(r, k) ==
    ReceivePing(r, k) \/ UpdateHeartbeat(r, k) \/ SetOnline(r, k) \/ SendAck(r, k)

Next ==
    \/ \E r \in Runners : RegisterRunner(r) \/ MissPings(r) \/ RunnerDies(r)
    \/ \E r \in Runners, k \in Streams : PingStep(r, k) \/ StreamEnds(r, k)
    \/ MarkStaleOffline

Spec == Init /\ [][Next]_vars

(* A live runner registers and keeps pinging on each of its streams, a     *)
(* dead one misses its pings, handlers are scheduled and the reaper ticks. *)
FairSpec ==
    /\ Spec
    /\ \A r \in Runners : /\ WF_vars(RegisterRunner(r))
                          /\ WF_vars(r \notin alive /\ MissPings(r))
                          /\ \A k \in Streams : WF_vars(PingStep(r, k))
    /\ WF_vars(MarkStaleOffline)
-----------------------------------------------------------------------------
TypeOK ==
    /\ row \in [Runners -> {"absent", "online", "offline"}]
    /\ stale \subseteq Runners
    /\ pc \in [Runners -> [Streams -> {"recv", "update", "setOnline", "ack"}]]
    /\ seen \in [Runners -> [Streams -> {"absent", "online", "offline"}]]
    /\ alive \subseteq Runners
    /\ faults \in 0..MaxFaults

(* A dead runner ends up offline for good, even if handlers of its last    *)
(* pings set it online after the reaper had marked it (RunReaper).         *)
DeadGoesOffline ==
    \A r \in Runners :
        r \notin alive /\ row[r] # "absent" ~> [](row[r] = "offline")

(* A runner that stays alive is shown online again and again, however its  *)
(* pings interleave with the reaper (Heartbeat).                           *)
PingingSeenOnline ==
    \A r \in Runners : []<>(row[r] = "online" \/ r \notin alive)
=============================================================================
