------------------------------- MODULE JobLogs -------------------------------
(***************************************************************************)
(* The log of one job: StreamLogs handlers append chunks and publish them  *)
(* to live subscribers (internal/logstore), SSE readers replay the table   *)
(* and then follow the live feed (internal/api/logs.go).                   *)
(*                                                                         *)
(* A chunk is its lease and its seq.  A reader is one page: everything an  *)
(* SSE handler writes is taken to reach it, so lastSeq is the seq of the   *)
(* last event shown, which is also the Last-Event-ID it reconnects with.   *)
(* The job is reduced to its status and lease_id (see Dispatch).           *)
(***************************************************************************)
EXTENDS Integers, Sequences, SequencesExt

CONSTANTS
    Readers,    \* pages following the log
    Handlers,   \* goroutines serving StreamLogs
    Buffer,     \* subscriberBuffer
    MaxChunks,  \* bound: chunks a runner logs under one lease
    MaxLeases,  \* bound: how often the job is leased
    MaxFaults,  \* bound: database statements that fail
    MaxCuts     \* bound: reader connections that are lost

ASSUME LogConstants ==
    /\ Buffer \in Nat \ {0}
    /\ MaxChunks \in Nat /\ MaxLeases \in Nat
    /\ MaxFaults \in Nat /\ MaxCuts \in Nat

VARIABLES
    jobStatus,  \* jobs.status: "queued", "leased", "running", "success"
    lease,      \* jobs.lease_id, 0 for NULL
    granted,    \* leases drawn so far
    sent,       \* per lease: the chunks its runner need not send again
    due,        \* history: chunks of the job's lease stored when it finished
    chunks,     \* log_chunks
    hPc,        \* StreamLogs handler: next step
    hLease,     \* the lease its stream carries
    hNext,      \* the seq of the chunk it receives next or has in hand
    hJob,       \* its cached resolution: "none", "row" or "stale"
    rPc,        \* reader connection: next step
    rTerminal,  \* logsSSEHandler read a terminal job.Status
    chan,       \* the subscriber channel's buffer
    open,       \* the channel is in the registry
    shown,      \* the log events of the page, in order of arrival
    faults, cuts

jobVars == <<jobStatus, lease, granted, due>>
ingestVars == <<sent, hPc, hLease, hNext, hJob>>
readerVars == <<rPc, rTerminal, chan, open, shown>>
vars == <<jobVars, chunks, ingestVars, readerVars, faults, cuts>>

Leases == 1..MaxLeases
Seqs == 0..(MaxChunks - 1)
Chunks == [lease : Leases, seq : Seqs]

Init ==
    /\ jobStatus = "queued" /\ lease = 0 /\ granted = 0 /\ due = {}
    /\ sent = [l \in Leases |-> 0]
    /\ chunks = {}
    /\ hPc = [h \in Handlers |-> "free"]
    /\ hLease = [h \in Handlers |-> 0]
    /\ hNext = [h \in Handlers |-> 0]
    /\ hJob = [h \in Handlers |-> "none"]
    /\ rPc = [v \in Readers |-> "off"]
    /\ rTerminal = [v \in Readers |-> FALSE]
    /\ chan = [v \in Readers |-> <<>>]
    /\ open = [v \in Readers |-> FALSE]
    /\ shown = [v \in Readers |-> <<>>]
    /\ faults = 0 /\ cuts = 0
-----------------------------------------------------------------------------
(* The job, as the dispatcher moves it. *)

LeaseJob ==
    /\ jobStatus = "queued"
    /\ granted < MaxLeases
    /\ granted' = granted + 1
    /\ lease' = granted + 1
    /\ jobStatus' = "leased"
    /\ UNCHANGED <<due, chunks, ingestVars, readerVars, faults, cuts>>

(* The reaper: a lease that was not renewed, of a job not yet running. *)
RequeueJob ==
    /\ jobStatus = "leased"
    /\ granted < MaxLeases
    /\ jobStatus' = "queued"
    /\ lease' = 0
    /\ UNCHANGED <<granted, due, chunks, ingestVars, readerVars, faults, cuts>>

StartJob ==
    /\ jobStatus = "leased"
    /\ jobStatus' = "running"
    /\ UNCHANGED <<lease, granted, due, chunks, ingestVars, readerVars, faults, cuts>>

FinishJob ==
    /\ jobStatus = "running"
    /\ jobStatus' = "success"
    /\ due' = {c \in chunks : c.lease = lease}
    /\ UNCHANGED <<lease, granted, chunks, ingestVars, readerVars, faults, cuts>>
-----------------------------------------------------------------------------
(* StreamLogs, served by h. *)

Handler(h, pc) ==
    /\ hPc' = [hPc EXCEPT ![h] = pc]
    /\ UNCHANGED <<hLease>>

(* The handler returns. *)
Return(h) ==
    /\ hPc' = [hPc EXCEPT ![h] = "free"]
    /\ hLease' = [hLease EXCEPT ![h] = 0]
    /\ hNext' = [hNext EXCEPT ![h] = 0]
    /\ hJob' = [hJob EXCEPT ![h] = "none"]

(* A runner opens a stream for a lease it was given, or opens it again and *)
(* repeats chunks, since nothing was acknowledged.  It leaves out none.    *)
OpenStream(h) ==
    /\ hPc[h] = "free"
    /\ hPc' = [hPc EXCEPT ![h] = "recv"]
    /\ \E l \in 1..granted : \E s \in 0..sent[l] :
        /\ hLease' = [hLease EXCEPT ![h] = l]
        /\ hNext' = [hNext EXCEPT ![h] = s]
    /\ UNCHANGED <<jobVars, chunks, sent, hJob, readerVars, faults, cuts>>

(* Recv, and resolveLeaseJob for the first chunk of the stream. *)
RecvChunk(h) ==
    LET l == hLease[h]
        known == IF hJob[h] # "none" THEN hJob[h]
                 ELSE IF lease = l THEN "row" ELSE "stale"
    IN  /\ hPc[h] = "recv"
        /\ hNext[h] < MaxChunks
        /\ sent' = [sent EXCEPT ![l] = IF @ > hNext[h] THEN @ ELSE hNext[h] + 1]
        /\ hJob' = [hJob EXCEPT ![h] = known]
        /\ IF known = "row"
           THEN Handler(h, "append") /\ UNCHANGED hNext
           ELSE Handler(h, "recv") /\ hNext' = [hNext EXCEPT ![h] = @ + 1]
        /\ UNCHANGED <<jobVars, chunks, readerVars, faults, cuts>>

(* EOF, or the stream broke. *)
CloseStream(h) ==
    /\ hPc[h] = "recv"
    /\ Return(h)
    /\ UNCHANGED <<jobVars, chunks, sent, readerVars, faults, cuts>>

InHand(h) == [lease |-> hLease[h], seq |-> hNext[h]]

(* logstore.Append: ON CONFLICT (lease_id, seq) DO NOTHING. *)
AppendChunk(h) ==
    /\ hPc[h] = "append"
    /\ chunks' = chunks \cup {InHand(h)}
    /\ IF InHand(h) \notin chunks
       THEN Handler(h, "publish") /\ UNCHANGED hNext
       ELSE Handler(h, "recv") /\ hNext' = [hNext EXCEPT ![h] = @ + 1]
    /\ UNCHANGED <<jobVars, sent, hJob, readerVars, faults, cuts>>

(* The INSERT reports an error; the row may be there all the same.  The    *)
(* RPC fails, so the runner sends the chunk again.                         *)
AppendFails(h) ==
    /\ hPc[h] = "append"
    /\ faults < MaxFaults
    /\ faults' = faults + 1
    /\ chunks' \in {chunks, chunks \cup {InHand(h)}}
    /\ sent' = [sent EXCEPT ![hLease[h]] = hNext[h]]
    /\ Return(h)
    /\ UNCHANGED <<jobVars, readerVars, cuts>>

(* Defects: a full subscriber misses the chunk but stays; the buffer takes *)
(* one chunk too many.                                                     *)
PublishSkipsFull(h) ==
    /\ hPc[h] = "publish"
    /\ Handler(h, "recv")
    /\ hNext' = [hNext EXCEPT ![h] = @ + 1]
    /\ chan' = [v \in Readers |-> IF open[v] /\ Len(chan[v]) < Buffer
                                  THEN Append(chan[v], InHand(h)) ELSE chan[v]]
    /\ UNCHANGED <<jobVars, chunks, sent, hJob, rPc, rTerminal, open, shown,
                   faults, cuts>>

PublishOverfull(h) ==
    /\ hPc[h] = "publish"
    /\ Handler(h, "recv")
    /\ hNext' = [hNext EXCEPT ![h] = @ + 1]
    /\ open' = [v \in Readers |-> open[v] /\ Len(chan[v]) <= Buffer]
    /\ chan' = [v \in Readers |-> IF open'[v] THEN Append(chan[v], InHand(h))
                                             ELSE chan[v]]
    /\ UNCHANGED <<jobVars, chunks, sent, hJob, rPc, rTerminal, shown, faults, cuts>>

(* Every subscriber with room gets the chunk; one without is dropped. *)
Publish(h) ==
    /\ hPc[h] = "publish"
    /\ Handler(h, "recv")
    /\ hNext' = [hNext EXCEPT ![h] = @ + 1]
    /\ open' = [v \in Readers |-> open[v] /\ Len(chan[v]) < Buffer]
    /\ chan' = [v \in Readers |-> IF open'[v] THEN Append(chan[v], InHand(h))
                                             ELSE chan[v]]
    /\ UNCHANGED <<jobVars, chunks, sent, hJob, rPc, rTerminal, shown, faults, cuts>>
-----------------------------------------------------------------------------
(* logsSSEHandler for reader v. *)

(* The EventSource is done for good: it saw the end event, the page closed *)
(* it, or its connection was refused.                                      *)
Over == {"ended", "closed", "refused"}

LastSeq(v) == IF shown[v] = <<>> THEN -1 ELSE Last(shown[v]).seq

(* ReplayFrom(lastSeq + 1): the rows of the lease the job holds now, in    *)
(* the order of their seq.                                                 *)
ReplayFrom(v) ==
    LET rows == {c \in chunks : c.lease = lease /\ c.seq > LastSeq(v)}
    IN  CHOOSE s \in SetToSeqs(rows) :
            \A i, k \in DOMAIN s : i < k => s[i].seq < s[k].seq

Reader(v, pc) == rPc' = [rPc EXCEPT ![v] = pc]

Deliver(v, events) == shown' = [shown EXCEPT ![v] = @ \o events]

(* The handler returns: the deferred cancel unsubscribes.  The page's      *)
(* EventSource comes back ("off") unless it saw the end event or the page  *)
(* closed it.                                                              *)
Hangup(v, pc) ==
    /\ Reader(v, pc)
    /\ rTerminal' = [rTerminal EXCEPT ![v] = FALSE]
    /\ chan' = [chan EXCEPT ![v] = <<>>]
    /\ open' = [open EXCEPT ![v] = FALSE]

Connect(v) ==
    /\ rPc[v] = "off"
    /\ Reader(v, "opening")
    /\ rTerminal' = [rTerminal EXCEPT ![v] = jobStatus = "success"]
    /\ UNCHANGED <<jobVars, chunks, ingestVars, chan, open, shown, faults, cuts>>

(* GetJob fails and the answer is a 500, which an EventSource takes as     *)
(* final.                                                                  *)
ConnectFails(v) ==
    /\ rPc[v] = "off"
    /\ faults < MaxFaults
    /\ faults' = faults + 1
    /\ Reader(v, "refused")
    /\ UNCHANGED <<jobVars, chunks, ingestVars, rTerminal, chan, open, shown, cuts>>

Subscribe(v) ==
    /\ rPc[v] = "opening"
    /\ Reader(v, "replay")
    /\ open' = [open EXCEPT ![v] = TRUE]
    /\ UNCHANGED <<jobVars, chunks, ingestVars, rTerminal, chan, shown, faults, cuts>>

Replay(v) ==
    /\ rPc[v] = "replay"
    /\ Deliver(v, ReplayFrom(v))
    /\ Reader(v, IF rTerminal[v] THEN "drain" ELSE "live")
    /\ UNCHANGED <<jobVars, chunks, ingestVars, rTerminal, chan, open, faults, cuts>>

(* Defect: the chunk replay delivered last is delivered again. *)
TakeChunkAgain(v) ==
    /\ chan[v] # <<>>
    /\ Deliver(v, IF Head(chan[v]).seq >= LastSeq(v) THEN <<Head(chan[v])>> ELSE <<>>)
    /\ chan' = [chan EXCEPT ![v] = Tail(@)]

(* One chunk out of the channel, left out if its seq is not new. *)
TakeChunk(v) ==
    /\ chan[v] # <<>>
    /\ Deliver(v, IF Head(chan[v]).seq > LastSeq(v) THEN <<Head(chan[v])>> ELSE <<>>)
    /\ chan' = [chan EXCEPT ![v] = Tail(@)]

FollowLive(v) ==
    /\ rPc[v] = "live"
    /\ TakeChunk(v)
    /\ UNCHANGED <<jobVars, chunks, ingestVars, rPc, rTerminal, open, faults, cuts>>

(* The channel was closed by Publish and is empty: one resync, then the    *)
(* connection ends.                                                        *)
Dropped(v) == rPc[v] = "live" /\ ~open[v] /\ chan[v] = <<>>

Resync(v) ==
    /\ Dropped(v)
    /\ Deliver(v, ReplayFrom(v))
    /\ Hangup(v, "off")
    /\ UNCHANGED <<jobVars, chunks, ingestVars, faults, cuts>>

(* Defect: the tick looks at the status read when the page connected. *)
KeepAliveStale(v) ==
    /\ rPc[v] = "live"
    /\ rTerminal[v]
    /\ Reader(v, "drain")
    /\ UNCHANGED <<jobVars, chunks, ingestVars, rTerminal, chan, open, shown,
                   faults, cuts>>

(* The keep-alive tick finds the job finished. *)
KeepAlive(v) ==
    /\ rPc[v] = "live"
    /\ jobStatus = "success"
    /\ Reader(v, "drain")
    /\ UNCHANGED <<jobVars, chunks, ingestVars, rTerminal, chan, open, shown,
                   faults, cuts>>

(* logsMaybeFinish: drain the channel, then one more replay, then "end". *)
Drain(v) ==
    /\ rPc[v] = "drain"
    /\ IF chan[v] # <<>>
       THEN TakeChunk(v) /\ UNCHANGED rPc
       ELSE Reader(v, "final") /\ UNCHANGED <<chan, shown>>
    /\ UNCHANGED <<jobVars, chunks, ingestVars, rTerminal, open, faults, cuts>>

(* Defect: the drained channel is taken for the rest of the log. *)
FinalWithoutReplay(v) ==
    /\ rPc[v] = "final"
    /\ Hangup(v, "ended")
    /\ UNCHANGED <<jobVars, chunks, ingestVars, shown, faults, cuts>>

FinalReplay(v) ==
    /\ rPc[v] = "final"
    /\ Deliver(v, ReplayFrom(v))
    /\ Hangup(v, "ended")
    /\ UNCHANGED <<jobVars, chunks, ingestVars, faults, cuts>>

(* A ReplayFrom fails: the handler returns, but for the final one, whose   *)
(* failure is logged before the end event is sent.                         *)
ReplayFails(v) ==
    /\ faults < MaxFaults
    /\ faults' = faults + 1
    /\ \/ rPc[v] = "final" /\ Hangup(v, "ended")
       \/ (rPc[v] = "replay" \/ Dropped(v)) /\ Hangup(v, "off")
    /\ UNCHANGED <<jobVars, chunks, ingestVars, shown, cuts>>

(* The page polls the job and closes its EventSource when the job has      *)
(* finished, without waiting for the end event.                            *)
PageCloses(v) ==
    /\ jobStatus = "success"
    /\ rPc[v] \notin Over
    /\ Hangup(v, "closed")
    /\ UNCHANGED <<jobVars, chunks, ingestVars, shown, faults, cuts>>

(* The connection is lost. *)
Cut(v) ==
    /\ rPc[v] \notin Over \cup {"off"}
    /\ cuts < MaxCuts
    /\ cuts' = cuts + 1
    /\ Hangup(v, "off")
    /\ UNCHANGED <<jobVars, chunks, ingestVars, shown, faults>>
-----------------------------------------------------------------------------
ReaderStep(v) ==
    \/ Connect(v) \/ Subscribe(v) \/ Replay(v) \/ FollowLive(v) \/ Resync(v)
    \/ KeepAlive(v) \/ Drain(v) \/ FinalReplay(v)

IngestStep(h) == RecvChunk(h) \/ AppendChunk(h) \/ Publish(h)

Next ==
    \/ LeaseJob \/ RequeueJob \/ StartJob \/ FinishJob
    \/ \E h \in Handlers : IngestStep(h) \/ OpenStream(h) \/ CloseStream(h)
                           \/ AppendFails(h)
    \/ \E v \in Readers : ReaderStep(v) \/ ConnectFails(v) \/ ReplayFails(v)
                          \/ PageCloses(v) \/ Cut(v)

Spec == Init /\ [][Next]_vars

(* Goroutines are scheduled, tickers tick, and an EventSource that lost    *)
(* its connection opens another one.  That the page polls is not assumed.  *)
FairSpec ==
    /\ Spec
    /\ \A h \in Handlers : WF_vars(AppendChunk(h) \/ Publish(h))
    /\ \A v \in Readers : WF_vars(ReaderStep(v))
-----------------------------------------------------------------------------
TypeOK ==
    /\ jobStatus \in {"queued", "leased", "running", "success"}
    /\ lease \in 0..MaxLeases /\ granted \in 0..MaxLeases
    /\ due \subseteq Chunks /\ chunks \subseteq Chunks
    /\ sent \in [Leases -> 0..MaxChunks]
    /\ hPc \in [Handlers -> {"free", "recv", "append", "publish"}]
    /\ hLease \in [Handlers -> 0..MaxLeases]
    /\ hNext \in [Handlers -> 0..MaxChunks]
    /\ hJob \in [Handlers -> {"none", "row", "stale"}]
    /\ rPc \in [Readers -> Over \cup {"off", "opening", "replay", "live", "drain",
                                     "final"}]
    /\ rTerminal \in [Readers -> BOOLEAN]
    /\ chan \in [Readers -> Seq(Chunks)]
    /\ \A v \in Readers : Len(chan[v]) <= Buffer
    /\ open \in [Readers -> BOOLEAN]
    /\ shown \in [Readers -> Seq(Chunks)]
    /\ faults \in 0..MaxFaults /\ cuts \in 0..MaxCuts

(* No event reaches a page twice or out of order, whatever is resent,      *)
(* republished, dropped or replayed (logs.go: "Chunks read from the live   *)
(* channel with seq <= the last seq already delivered [...] are dropped"). *)
InOrderOnce ==
    \A v \in Readers : \A i, k \in DOMAIN shown[v] :
        i < k => shown[v][i].seq < shown[v][k].seq

(* The events of a page have no gap: a chunk published between replay and  *)
(* live feed, one dropped with a slow subscriber, and one logged while the *)
(* page was reconnecting all arrive (logs.go: "Replay -> live bridge (no   *)
(* gap/dupe)").  This is about one lease and one stream at a time, and     *)
(* ends with a failed statement (see README).                              *)
NoGap ==
    faults = 0 =>
        \A v \in Readers : \A i \in DOMAIN shown[v] : shown[v][i].seq = i - 1

(* A page that was told the log has ended has every chunk that its job had *)
(* logged by the time it finished (logs.go: the end event is sent "once    *)
(* the job has reached a terminal status and no further chunks remain").   *)
(* The same restrictions apply.                                            *)
EndIsComplete ==
    faults = 0 =>
        \A v \in Readers : rPc[v] = "ended" => due \subseteq ToSet(shown[v])

(* No page goes on following a finished job: the server tells it that the  *)
(* log has ended, dropped subscribers and lost connections included,       *)
(* unless the page closed its EventSource first or was refused because a   *)
(* statement failed (logsMaybeFinish, logsGetJob).                         *)
ReadersEnd ==
    \A v \in Readers : jobStatus = "success" ~> rPc[v] \in Over
=============================================================================
