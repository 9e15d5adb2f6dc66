---------------------------- MODULE JobLogsProofs ----------------------------
(***************************************************************************)
(* Log chunks and the pages that follow them, for any number of pages,     *)
(* chunks and lost connections and any subscriberBuffer.  Types and order  *)
(* also for any number of streams and leases.                              *)
(***************************************************************************)
EXTENDS JobLogs, FiniteSetTheorems, SequenceTheorems, WellFoundedInduction, TLAPS

(* A stream carries a lease that was granted; a chunk in hand is one of    *)
(* the log.                                                                *)
StreamOK(h) ==
    /\ hPc[h] # "free" => hLease[h] \in Leases
    /\ hPc[h] \in {"append", "publish"} => hNext[h] \in Seqs

TypeInv == TypeOK /\ \A h \in Handlers : StreamOK(h)

Increasing(s) == \A i, k \in DOMAIN s : i < k => s[i].seq < s[k].seq
-----------------------------------------------------------------------------
(* One stream at a time, and a job that is leased once. *)
OneStream == MaxLeases = 1 /\ \A g, h \in Handlers : g = h

Announcing == \E h \in Handlers : hPc[h] = "publish"

(* n chunks are stored; a runner sends none after n before the table has   *)
(* n; the one being published is the last.                                 *)
Ingest(n) ==
    /\ \A c \in Chunks : c \in chunks <=> c.seq < n
    /\ granted # 0 => lease = 1
    /\ chunks # {} => granted # 0
    /\ \A h \in Handlers :
        /\ hPc[h] # "free" => granted # 0 /\ hLease[h] = 1 /\ hNext[h] <= n
        /\ hJob[h] # "stale"
        /\ hPc[h] = "publish" => hNext[h] + 1 = n
        /\ \/ sent[1] <= n
           \/ hPc[h] = "append" /\ hNext[h] = n /\ sent[1] = n + 1

(* The channel of page v has a run of chunks, up to the last one published *)
(* while it is open.  Once the page has read the table, it has all chunks  *)
(* before that run, or all that were published.                            *)
Feed(v, n, published) ==
    /\ Len(shown[v]) <= n
    /\ \A i \in 1 .. Len(shown[v]) : shown[v][i].seq = i - 1
    /\ \A i \in 1 .. Len(chan[v]) : chan[v][i].seq = chan[v][1].seq + (i - 1)
    /\ chan[v] # <<>> =>
           /\ chan[v][1].seq + Len(chan[v]) <= published
           /\ open[v] => chan[v][1].seq + Len(chan[v]) = published
    /\ rPc[v] \in Over \cup {"off", "opening"} => chan[v] = <<>> /\ ~open[v]
    /\ rPc[v] \in {"live", "drain", "final"} =>
           /\ chan[v] # <<>> => chan[v][1].seq <= Len(shown[v])
           /\ open[v] /\ chan[v] = <<>> => published <= Len(shown[v])

(* The end is announced only for a finished job, after the last replay.    *)
Ending(v) ==
    /\ rTerminal[v] \/ rPc[v] \in {"drain", "final", "ended"} => jobStatus = "success"
    /\ rPc[v] = "ended" => \A c \in due : c.seq < Len(shown[v])

(* The chunks published, when n are stored. *)
Published(n) == IF Announcing THEN n - 1 ELSE n

Bridge(n) ==
    /\ Ingest(n)
    /\ \A v \in Readers : Feed(v, n, Published(n)) /\ Ending(v)
    /\ due \subseteq chunks

BridgeInv == TypeInv /\ (faults = 0 => \E n \in 0 .. MaxChunks : Bridge(n))
-----------------------------------------------------------------------------
(* ReplayFrom. *)

(* Rows with distinct seq numbers can be listed in their order: the place  *)
(* of a row is the number of rows before it.                               *)
LEMMA RowsSortable ==
    ASSUME NEW rows \in SUBSET Chunks, \A c, d \in rows : c.seq = d.seq => c = d
    PROVE  /\ IsFiniteSet(rows)
           /\ \E s \in SetToSeqs(rows) : Increasing(s)
<1>1. IsFiniteSet(rows)
    <2> DEFINE f == [c \in rows |-> c.seq]
    <2>1. f \in Injection(rows, Seqs)
        BY DEF Injection, IsInjective, Chunks
    <2>2. IsFiniteSet(Seqs)
        BY FS_Interval, LogConstants DEF Seqs
    <2> HIDE DEF f
    <2>3. QED
        BY <2>1, <2>2, FS_Injection
<1> DEFINE n == Cardinality(rows)
           below(c) == {d \in rows : d.seq < c.seq}
           place == [c \in rows |-> Cardinality(below(c)) + 1]
<1>2. n \in Nat
    BY <1>1, FS_CardinalityType
<1>3. \A c \in rows : c.seq \in Int
    BY LogConstants DEF Chunks, Seqs
<1>4. ASSUME NEW c \in rows
      PROVE  /\ IsFiniteSet(below(c)) /\ Cardinality(below(c)) \in Nat
             /\ Cardinality(below(c)) < n
    <2>1. below(c) \in SUBSET rows /\ below(c) # rows
        BY <1>3
    <2> HIDE DEF below
    <2>2. IsFiniteSet(below(c)) /\ Cardinality(below(c)) <= n /\ Cardinality(below(c)) # n
        BY <1>1, <2>1, FS_Subset
    <2>3. Cardinality(below(c)) \in Nat
        BY <2>2, FS_CardinalityType
    <2>4. QED
        BY <1>2, <2>2, <2>3
<1>5. ASSUME NEW c \in rows, NEW d \in rows, c.seq < d.seq
      PROVE  place[c] < place[d]
    <2>1. below(c) \in SUBSET below(d) /\ c \in below(d) /\ c \notin below(c)
        BY <1>3, <1>5
    <2> HIDE DEF below
    <2>2. /\ Cardinality(below(c)) <= Cardinality(below(d))
          /\ Cardinality(below(c)) # Cardinality(below(d))
        BY <1>4, <2>1, FS_Subset
    <2>3. QED
        BY <1>4, <2>2
<1>6. \A c \in rows : place[c] \in 1 .. n
    <2> HIDE DEF below, n
    <2> QED
        BY <1>2, <1>4
<1>7. place \in Injection(rows, 1 .. n)
    <2>1. \A c, d \in rows : place[c] = place[d] => c = d
        <3>1. SUFFICES ASSUME NEW c \in rows, NEW d \in rows, c # d
                       PROVE  place[c] # place[d]
            OBVIOUS
        <3>2. c.seq < d.seq \/ d.seq < c.seq
            BY <1>3, <3>1
        <3> HIDE DEF place
        <3>3. QED
            BY <1>2, <1>5, <1>6, <3>2
    <2>2. place \in [rows -> 1 .. n]
        BY <1>6
    <2> HIDE DEF place
    <2>3. QED
        BY <2>1, <2>2 DEF Injection, IsInjective
<1>8. place \in Surjection(rows, 1 .. n)
    <2>1. IsFiniteSet(1 .. n) /\ Cardinality(1 .. n) = n
        BY <1>2, FS_Interval
    <2> HIDE DEF place
    <2>2. QED
        BY <1>7, <2>1, FS_Injection
<1> DEFINE s == [i \in 1 .. n |-> CHOOSE c \in rows : place[c] = i]
<1>9. \A i \in 1 .. n : s[i] \in rows /\ place[s[i]] = i
    <2> HIDE DEF place
    <2> QED
        BY <1>8 DEF Surjection
<1>10. s \in [1 .. n -> rows] /\ DOMAIN s = 1 .. n
    BY <1>9
<1> HIDE DEF place, s
<1>11. Increasing(s)
    <2>1. SUFFICES ASSUME NEW i \in 1 .. n, NEW k \in 1 .. n, i < k
                   PROVE  s[i].seq < s[k].seq
        BY <1>10 DEF Increasing
    <2>2. s[i].seq \in Int /\ s[k].seq \in Int
        BY <1>3, <1>9
    <2>3. CASE s[k].seq < s[i].seq
        BY <1>2, <1>5, <1>9, <2>1, <2>3
    <2>4. CASE s[k].seq = s[i].seq
        BY <1>9, <2>1, <2>4
    <2>5. QED
        BY <2>2, <2>3, <2>4
<1>12. s \in SetToSeqs(rows)
    BY <1>9, <1>10 DEF SetToSeqs
<1>13. QED
    BY <1>1, <1>11, <1>12

(* The rows of ReplayFrom. *)
Unseen(v) == {c \in chunks : c.lease = lease /\ c.seq > LastSeq(v)}

(* ReplayFrom lists the unseen rows of the job's lease, each once, in      *)
(* ascending order.                                                        *)
LEMMA ReplayLists ==
    ASSUME TypeOK, NEW v \in Readers
    PROVE  LET e == ReplayFrom(v)
           IN  /\ e \in Seq(Chunks) /\ Increasing(e)
               /\ \A i \in 1 .. Len(e) : e[i] \in Unseen(v)
               /\ \A c \in Unseen(v) : \E i \in 1 .. Len(e) : e[i] = c
<1> DEFINE rows == Unseen(v)
           e == ReplayFrom(v)
           n == Cardinality(rows)
<1>1. rows \in SUBSET Chunks /\ \A c, d \in rows : c.seq = d.seq => c = d
    <2>1. \A c, d \in Chunks : c.lease = d.lease /\ c.seq = d.seq => c = d
        BY DEF Chunks
    <2>2. QED
        BY <2>1 DEF TypeOK, Unseen
<1>2. IsFiniteSet(rows) /\ \E s \in SetToSeqs(rows) : Increasing(s)
    <2> HIDE DEF rows
    <2> QED
        BY <1>1, RowsSortable
<1>3. e \in SetToSeqs(rows) /\ Increasing(e)
    BY <1>2 DEF ReplayFrom, Unseen, Increasing
<1>4. n \in Nat
    BY <1>2, FS_CardinalityType
<1> HIDE DEF e, rows
<1>5. e \in [1 .. n -> rows] /\ \A i, k \in 1 .. n : i # k => e[i] # e[k]
    BY <1>3 DEF SetToSeqs
<1>6. e \in Injection(1 .. n, rows)
    BY <1>5 DEF Injection, IsInjective
<1>7. e \in Surjection(1 .. n, rows)
    <2>1. Cardinality(1 .. n) = n
        BY <1>4, FS_Interval
    <2>2. QED
        BY <1>2, <1>6, <2>1, FS_Injection
<1> HIDE DEF n
<1>8. e \in Seq(rows) /\ Len(e) = n
    BY <1>4, <1>5
<1>9. e \in Seq(Chunks)
    BY <1>1, <1>8, SeqMonotonic
<1>10. QED
    BY <1>3, <1>5, <1>7, <1>8, <1>9 DEF e, rows, Surjection
-----------------------------------------------------------------------------
(* Types, and the order of events. *)

(* TypeOK in three parts. *)
JobTypes ==
    /\ jobStatus \in {"queued", "leased", "running", "success"}
    /\ lease \in 0 .. MaxLeases /\ granted \in 0 .. MaxLeases
    /\ due \subseteq Chunks /\ chunks \subseteq Chunks
    /\ faults \in 0 .. MaxFaults /\ cuts \in 0 .. MaxCuts

IngestTypes ==
    /\ sent \in [Leases -> 0 .. MaxChunks]
    /\ hPc \in [Handlers -> {"free", "recv", "append", "publish"}]
    /\ hLease \in [Handlers -> 0 .. MaxLeases]
    /\ hNext \in [Handlers -> 0 .. MaxChunks]
    /\ hJob \in [Handlers -> {"none", "row", "stale"}]
    /\ \A h \in Handlers : StreamOK(h)

ReaderTypes ==
    /\ rPc \in [Readers -> Over \cup {"off", "opening", "replay", "live", "drain",
                                     "final"}]
    /\ rTerminal \in [Readers -> BOOLEAN]
    /\ chan \in [Readers -> Seq(Chunks)]
    /\ \A v \in Readers : Len(chan[v]) <= Buffer
    /\ open \in [Readers -> BOOLEAN]
    /\ shown \in [Readers -> Seq(Chunks)]

(* The parts are TypeInv. *)
LEMMA TypeParts == TypeInv <=> JobTypes /\ IngestTypes /\ ReaderTypes
BY DEF TypeInv, TypeOK, JobTypes, IngestTypes, ReaderTypes

(* Events a page has not had: in ascending order, behind the last one.     *)
Fresh(v, e) ==
    /\ e \in Seq(Chunks) /\ Increasing(e)
    /\ \A i \in 1 .. Len(e) : e[i].seq > LastSeq(v)

(* A replay delivers only such. *)
LEMMA ReplayFresh ==
    ASSUME TypeOK, NEW v \in Readers
    PROVE  Fresh(v, ReplayFrom(v))
BY ReplayLists DEF Fresh, Unseen

(* So does the channel, since a chunk the page had is left out. *)
LEMMA TakeFresh ==
    ASSUME TypeOK, NEW v \in Readers, TakeChunk(v)
    PROVE  /\ \E e : Fresh(v, e) /\ Deliver(v, e)
           /\ chan' \in [Readers -> Seq(Chunks)]
           /\ \A w \in Readers : Len(chan'[w]) <= Len(chan[w])
<1>1. chan[v] \in Seq(Chunks) /\ chan[v] # <<>>
    BY DEF TypeOK, TakeChunk
<1>2. /\ Head(chan[v]) \in Chunks /\ Tail(chan[v]) \in Seq(Chunks)
      /\ Len(Tail(chan[v])) = Len(chan[v]) - 1 /\ Len(chan[v]) \in Nat
    BY <1>1, HeadTailProperties, LenProperties
<1>3. /\ chan' \in [Readers -> Seq(Chunks)]
      /\ \A w \in Readers : Len(chan'[w]) <= Len(chan[w])
    <2>1. \A w \in Readers : Len(chan[w]) \in Nat
        BY LenProperties DEF TypeOK
    <2>2. QED
        BY <1>2, <2>1 DEF TakeChunk, TypeOK
<1>4. CASE Head(chan[v]).seq > LastSeq(v)
    <2>1. Deliver(v, <<Head(chan[v])>>)
        BY <1>4 DEF TakeChunk
    <2>2. Fresh(v, <<Head(chan[v])>>)
        BY <1>2, <1>4 DEF Fresh, Increasing
    <2>3. QED
        BY <1>3, <2>1, <2>2
<1>5. CASE ~(Head(chan[v]).seq > LastSeq(v))
    <2>1. Deliver(v, <<>>)
        BY <1>5 DEF TakeChunk
    <2>2. Fresh(v, <<>>)
        BY DEF Fresh, Increasing
    <2>3. QED
        BY <1>3, <2>1, <2>2
<1>6. QED
    BY <1>4, <1>5

(* Fresh events keep the order of the page. *)
LEMMA DeliverInOrder ==
    ASSUME TypeOK, InOrderOnce, NEW v \in Readers, NEW e, Fresh(v, e), Deliver(v, e)
    PROVE  shown' \in [Readers -> Seq(Chunks)] /\ InOrderOnce'
<1> DEFINE s == shown[v]
<1>1. s \in Seq(Chunks) /\ Increasing(s)
    BY DEF TypeOK, InOrderOnce, Increasing
<1>2. e \in Seq(Chunks) /\ Increasing(e)
    BY DEF Fresh
<1>3. /\ s \o e \in Seq(Chunks)
      /\ Len(s) \in Nat /\ Len(e) \in Nat
      /\ Len(s \o e) = Len(s) + Len(e)
      /\ \A i \in 1 .. Len(s) + Len(e) :
             (s \o e)[i] = IF i <= Len(s) THEN s[i] ELSE e[i - Len(s)]
    BY <1>1, <1>2, ConcatProperties, LenProperties
<1>4. shown' = [shown EXCEPT ![v] = s \o e] /\ shown' \in [Readers -> Seq(Chunks)]
    BY <1>3 DEF Deliver, TypeOK
<1>5. \A i \in 1 .. Len(s), k \in 1 .. Len(e) : s[i].seq < e[k].seq
    <2>1. SUFFICES ASSUME NEW i \in 1 .. Len(s), NEW k \in 1 .. Len(e)
                   PROVE  s[i].seq < e[k].seq
        OBVIOUS
    <2>2. s # <<>> /\ Len(s) \in 1 .. Len(s) /\ DOMAIN s = 1 .. Len(s)
        BY <1>1, <1>3, <2>1, LenProperties
    <2>3. LastSeq(v) = s[Len(s)].seq
        BY <2>2 DEF LastSeq, Last
    <2>4. s[i].seq \in Int /\ s[Len(s)].seq \in Int /\ e[k].seq \in Int
        <3>1. s[i] \in Chunks /\ s[Len(s)] \in Chunks /\ e[k] \in Chunks
            BY <1>1, <1>2, <2>1, <2>2, ElementOfSeq
        <3>2. QED
            BY <3>1, LogConstants DEF Chunks, Seqs
    <2>5. s[i].seq <= s[Len(s)].seq
        <3>1. i = Len(s) \/ i < Len(s)
            BY <1>3, <2>1
        <3>2. i < Len(s) => s[i].seq < s[Len(s)].seq
            BY <1>1, <2>1, <2>2 DEF Increasing
        <3>3. QED
            BY <2>4, <3>1, <3>2
    <2>6. e[k].seq > s[Len(s)].seq
        BY <2>3 DEF Fresh
    <2>7. QED
        BY <2>4, <2>5, <2>6
<1> HIDE DEF s
<1>6. Increasing(s \o e)
    <2>1. DOMAIN (s \o e) = 1 .. Len(s) + Len(e)
        BY <1>3, LenProperties
    <2>2. SUFFICES ASSUME NEW i \in 1 .. Len(s) + Len(e),
                          NEW k \in 1 .. Len(s) + Len(e), i < k
                   PROVE  (s \o e)[i].seq < (s \o e)[k].seq
        BY <2>1 DEF Increasing
    <2>3. DOMAIN s = 1 .. Len(s) /\ DOMAIN e = 1 .. Len(e)
        BY <1>1, <1>2, LenProperties
    <2>4. CASE k <= Len(s)
        <3>1. (s \o e)[i] = s[i] /\ (s \o e)[k] = s[k] /\ i \in DOMAIN s /\ k \in DOMAIN s
            BY <1>3, <2>2, <2>3, <2>4
        <3>2. QED
            BY <1>1, <2>2, <3>1 DEF Increasing
    <2>5. CASE i <= Len(s) /\ k > Len(s)
        <3>1. /\ (s \o e)[i] = s[i] /\ (s \o e)[k] = e[k - Len(s)]
              /\ i \in 1 .. Len(s) /\ k - Len(s) \in 1 .. Len(e)
            BY <1>3, <2>2, <2>5
        <3>2. QED
            BY <1>5, <3>1
    <2>6. CASE i > Len(s)
        <3>1. /\ (s \o e)[i] = e[i - Len(s)] /\ (s \o e)[k] = e[k - Len(s)]
              /\ i - Len(s) \in DOMAIN e /\ k - Len(s) \in DOMAIN e
              /\ i - Len(s) < k - Len(s)
            BY <1>3, <2>2, <2>3, <2>6
        <3>2. QED
            BY <1>2, <3>1 DEF Increasing
    <2>7. QED
        BY <1>3, <2>2, <2>4, <2>5, <2>6
<1>7. InOrderOnce'
    BY <1>4, <1>6 DEF InOrderOnce, Increasing, TypeOK
<1>8. QED
    BY <1>4, <1>7

(* The dispatcher's steps touch neither streams nor pages. *)
LEMMA JobStepTypes ==
    ASSUME TypeInv, LeaseJob \/ RequeueJob \/ StartJob \/ FinishJob
    PROVE  JobTypes' /\ IngestTypes' /\ UNCHANGED readerVars
<1> USE TypeParts
<1>1. JobTypes'
    <2>1. CASE LeaseJob \/ RequeueJob
        BY <2>1, LogConstants DEF JobTypes, LeaseJob, RequeueJob
    <2>2. CASE StartJob \/ FinishJob
        BY <2>2 DEF JobTypes, StartJob, FinishJob
    <2>3. QED
        BY <2>1, <2>2
<1>2. UNCHANGED <<ingestVars, readerVars>>
    BY DEF LeaseJob, RequeueJob, StartJob, FinishJob
<1>3. IngestTypes'
    BY <1>2 DEF IngestTypes, StreamOK, ingestVars
<1>4. QED
    BY <1>1, <1>2, <1>3

(* A chunk in hand is a chunk. *)
LEMMA InHandType ==
    ASSUME TypeInv, NEW h \in Handlers, hPc[h] \in {"append", "publish"}
    PROVE  InHand(h) \in Chunks
BY DEF TypeInv, StreamOK, InHand, Chunks

(* StreamLogs. *)
LEMMA IngestStepTypes ==
    ASSUME TypeInv, NEW h \in Handlers,
           IngestStep(h) \/ OpenStream(h) \/ CloseStream(h) \/ AppendFails(h)
    PROVE  JobTypes' /\ IngestTypes' /\ (UNCHANGED readerVars \/ Publish(h))
<1> USE TypeParts, LogConstants DEF JobTypes, IngestTypes, StreamOK, Seqs
<1>1. CASE RecvChunk(h)
    BY <1>1 DEF RecvChunk, Handler, jobVars, readerVars
<1>2. CASE AppendChunk(h)
    <2>1. InHand(h) \in Chunks
        BY <1>2, InHandType DEF AppendChunk
    <2>2. QED
        BY <1>2, <2>1 DEF AppendChunk, Handler, jobVars, readerVars
<1>3. CASE Publish(h)
    <2>1. JobTypes'
        BY <1>3 DEF Publish, jobVars
    <2>2. hNext[h] + 1 \in 0 .. MaxChunks
        BY <1>3 DEF Publish
    <2>3. /\ hPc' = [hPc EXCEPT ![h] = "recv"] /\ hNext' = [hNext EXCEPT ![h] = @ + 1]
          /\ hLease' = hLease /\ hJob' = hJob /\ sent' = sent /\ granted' = granted
        BY <1>3 DEF Publish, Handler, jobVars
    <2>4. hPc' \in [Handlers -> {"free", "recv", "append", "publish"}]
        BY <2>3
    <2>5. hNext' \in [Handlers -> 0 .. MaxChunks]
        BY <2>2, <2>3
    <2>6. \A g \in Handlers : StreamOK(g)'
        BY <1>3, <2>3 DEF Publish
    <2>7. IngestTypes'
        BY <2>3, <2>4, <2>5, <2>6
    <2>8. QED
        BY <1>3, <2>1, <2>7
<1>4. CASE OpenStream(h)
    <2>1. PICK l \in 1 .. granted : \E n \in 0 .. sent[l] :
              /\ hLease' = [hLease EXCEPT ![h] = l]
              /\ hNext' = [hNext EXCEPT ![h] = n]
        BY <1>4 DEF OpenStream
    <2>2. l \in Leases /\ l \in 0 .. MaxLeases /\ sent[l] \in 0 .. MaxChunks
        BY <2>1 DEF Leases
    <2>3. hNext' \in [Handlers -> 0 .. MaxChunks]
        BY <2>1, <2>2
    <2>4. QED
        BY <1>4, <2>1, <2>2, <2>3 DEF OpenStream, jobVars, readerVars
<1>5. CASE CloseStream(h)
    BY <1>5 DEF CloseStream, Return, jobVars, readerVars
<1>6. CASE AppendFails(h)
    <2>1. InHand(h) \in Chunks
        BY <1>6, InHandType DEF AppendFails
    <2>2. QED
        BY <1>6, <2>1 DEF AppendFails, Return, jobVars, readerVars
<1>7. QED
    BY <1>1, <1>2, <1>3, <1>4, <1>5, <1>6 DEF IngestStep

(* Publish sends to channels with room only. *)
LEMMA PublishTypes ==
    ASSUME TypeInv, NEW h \in Handlers, Publish(h)
    PROVE  ReaderTypes' /\ shown' = shown
<1> USE TypeParts DEF ReaderTypes
<1>1. InHand(h) \in Chunks
    BY InHandType DEF Publish
<1>2. open' = [v \in Readers |-> open[v] /\ Len(chan[v]) < Buffer]
    BY DEF Publish
<1>3. ASSUME NEW v \in Readers
      PROVE  /\ Append(chan[v], InHand(h)) \in Seq(Chunks)
             /\ Len(Append(chan[v], InHand(h))) = Len(chan[v]) + 1
             /\ Len(chan[v]) \in Nat
    BY <1>1, AppendProperties, LenProperties
<1>4. ASSUME NEW v \in Readers
      PROVE  chan'[v] \in Seq(Chunks) /\ Len(chan'[v]) <= Buffer
    <2>1. chan'[v] = IF open'[v] THEN Append(chan[v], InHand(h)) ELSE chan[v]
        BY DEF Publish
    <2>2. open'[v] => Len(chan[v]) < Buffer
        BY <1>2
    <2>3. QED
        BY <1>3, <2>1, <2>2, LogConstants
<1>5. chan' \in [Readers -> Seq(Chunks)]
    BY <1>4 DEF Publish
<1>6. QED
    BY <1>2, <1>4, <1>5 DEF Publish

(* What can put an end to a connection, or keep one from being opened. *)
Interrupt(v) == ConnectFails(v) \/ ReplayFails(v) \/ PageCloses(v) \/ Cut(v)

(* A page's own step gives it fresh events, or none. *)
LEMMA ReaderStepTypes ==
    ASSUME TypeInv, NEW v \in Readers, ReaderStep(v) \/ Interrupt(v)
    PROVE  /\ JobTypes' /\ IngestTypes'
           /\ (shown' \in [Readers -> Seq(Chunks)] => ReaderTypes')
           /\ shown' = shown \/ \E e : Fresh(v, e) /\ Deliver(v, e)
<1> USE TypeParts
<1>1. IngestTypes' /\ JobTypes'
    <2>1. CASE ReaderStep(v)
        BY <2>1 DEF ReaderStep, Connect, Subscribe, Replay, FollowLive, Resync, KeepAlive,
               Drain, FinalReplay, IngestTypes, JobTypes, StreamOK, jobVars, ingestVars
    <2>2. CASE ReplayFails(v)
        BY <2>2, LogConstants DEF ReplayFails, IngestTypes, JobTypes, StreamOK, jobVars,
               ingestVars
    <2>3. CASE Cut(v) \/ PageCloses(v)
        BY <2>3, LogConstants DEF Cut, PageCloses, IngestTypes, JobTypes, StreamOK, jobVars,
               ingestVars
    <2>4. CASE ConnectFails(v)
        BY <2>4, LogConstants DEF ConnectFails, IngestTypes, JobTypes, StreamOK, jobVars,
               ingestVars
    <2>5. QED
        BY <2>1, <2>2, <2>3, <2>4 DEF Interrupt
<1>2. TypeOK
    BY DEF TypeInv
<1>3. Fresh(v, ReplayFrom(v))
    BY <1>2, ReplayFresh
<1>4. \A w \in Readers : Len(chan[w]) \in Nat
    BY LenProperties DEF ReaderTypes
<1>5. <<>> \in Seq(Chunks) /\ Len(<<>>) <= Buffer
    BY LogConstants
<1> USE DEF ReaderTypes
<1>hang. ASSUME NEW pc \in {"off", "ended", "closed"}, Hangup(v, pc)
         PROVE  shown' \in [Readers -> Seq(Chunks)] => ReaderTypes'
    <2>1. /\ rPc' \in [Readers -> Over \cup {"off", "opening", "replay", "live", "drain",
                                            "final"}]
          /\ rTerminal' \in [Readers -> BOOLEAN] /\ open' \in [Readers -> BOOLEAN]
        BY <1>hang DEF Hangup, Reader, Over
    <2>2. chan' = [chan EXCEPT ![v] = <<>>]
        BY <1>hang DEF Hangup
    <2>3. chan' \in [Readers -> Seq(Chunks)] /\ \A w \in Readers : Len(chan'[w]) <= Buffer
        BY <1>5, <2>2
    <2>4. QED
        BY <2>1, <2>3
<1>6. CASE Connect(v) \/ Subscribe(v) \/ KeepAlive(v) \/ Replay(v)
    BY <1>1, <1>3, <1>6 DEF Connect, Subscribe, KeepAlive, Replay, Reader
<1>7. CASE FollowLive(v)
    <2>1. TakeChunk(v) /\ UNCHANGED <<rPc, rTerminal, open>>
        BY <1>7 DEF FollowLive
    <2>2. QED
        BY <1>1, <1>2, <1>4, <2>1, TakeFresh, LogConstants
<1>8. CASE Drain(v)
    <2>1. CASE TakeChunk(v) /\ UNCHANGED rPc
        BY <1>1, <1>2, <1>4, <1>8, <2>1, TakeFresh, LogConstants DEF Drain
    <2>2. CASE Reader(v, "final") /\ UNCHANGED <<chan, shown>>
        BY <1>1, <1>8, <2>2 DEF Drain, Reader
    <2>3. QED
        BY <1>8, <2>1, <2>2 DEF Drain
<1>9. CASE Resync(v) \/ FinalReplay(v)
    <2>1. Deliver(v, ReplayFrom(v)) /\ (Hangup(v, "off") \/ Hangup(v, "ended"))
        BY <1>9 DEF Resync, FinalReplay
    <2>2. QED
        BY <1>1, <1>3, <1>hang, <2>1
<1>10. CASE ReplayFails(v) \/ PageCloses(v) \/ Cut(v)
    <2>1. shown' = shown /\ \E pc \in {"off", "ended", "closed"} : Hangup(v, pc)
        BY <1>10 DEF ReplayFails, PageCloses, Cut
    <2>2. QED
        BY <1>1, <1>hang, <2>1
<1>11. CASE ConnectFails(v)
    BY <1>1, <1>11 DEF ConnectFails, Reader, Over
<1>12. QED
    BY <1>6, <1>7, <1>8, <1>9, <1>10, <1>11 DEF ReaderStep, Interrupt

OrderInv == TypeInv /\ InOrderOnce

(* At the start nothing is logged and no page is open. *)
LEMMA OrderInit == Init => OrderInv
<1> SUFFICES ASSUME Init PROVE OrderInv
    OBVIOUS
<1>1. JobTypes /\ IngestTypes
    BY LogConstants DEF Init, JobTypes, IngestTypes, StreamOK
<1>2. ReaderTypes
    BY LogConstants DEF Init, ReaderTypes
<1>3. InOrderOnce
    BY DEF Init, InOrderOnce
<1>4. QED
    BY <1>1, <1>2, <1>3, TypeParts DEF OrderInv

(* OrderInv is inductive. *)
LEMMA OrderNext == OrderInv /\ [Next]_vars => OrderInv'
<1> SUFFICES ASSUME OrderInv, [Next]_vars PROVE OrderInv'
    OBVIOUS
<1>1. TypeInv /\ TypeOK /\ InOrderOnce /\ ReaderTypes
    BY TypeParts DEF OrderInv, TypeInv
<1>2. TypeInv' <=> JobTypes' /\ IngestTypes' /\ ReaderTypes'
    BY DEF TypeInv, TypeOK, JobTypes, IngestTypes, ReaderTypes
<1>3. ASSUME UNCHANGED readerVars PROVE ReaderTypes' /\ InOrderOnce'
    BY <1>1, <1>3 DEF ReaderTypes, InOrderOnce, readerVars
<1>4. CASE LeaseJob \/ RequeueJob \/ StartJob \/ FinishJob
    BY <1>1, <1>2, <1>3, <1>4, JobStepTypes DEF OrderInv
<1>5. ASSUME NEW h \in Handlers,
             IngestStep(h) \/ OpenStream(h) \/ CloseStream(h) \/ AppendFails(h)
      PROVE  OrderInv'
    <2>1. JobTypes' /\ IngestTypes' /\ (UNCHANGED readerVars \/ Publish(h))
        BY <1>1, <1>5, IngestStepTypes
    <2>2. Publish(h) => ReaderTypes' /\ InOrderOnce'
        BY <1>1, PublishTypes DEF InOrderOnce
    <2>3. QED
        BY <1>2, <1>3, <2>1, <2>2 DEF OrderInv
<1>6. ASSUME NEW v \in Readers, ReaderStep(v) \/ Interrupt(v)
      PROVE  OrderInv'
    <2>1. /\ JobTypes' /\ IngestTypes'
          /\ (shown' \in [Readers -> Seq(Chunks)] => ReaderTypes')
          /\ shown' = shown \/ \E e : Fresh(v, e) /\ Deliver(v, e)
        BY <1>1, <1>6, ReaderStepTypes
    <2>2. shown' \in [Readers -> Seq(Chunks)] /\ InOrderOnce'
        <3>1. CASE shown' = shown
            BY <1>1, <3>1 DEF ReaderTypes, InOrderOnce
        <3>2. CASE \E e : Fresh(v, e) /\ Deliver(v, e)
            BY <1>1, <3>2, DeliverInOrder
        <3>3. QED
            BY <2>1, <3>1, <3>2
    <2>3. QED
        BY <1>2, <2>1, <2>2 DEF OrderInv
<1>7. CASE UNCHANGED vars
    <2>1. JobTypes' /\ IngestTypes' /\ ReaderTypes' /\ InOrderOnce'
        BY <1>1, <1>7, TypeParts DEF vars, jobVars, ingestVars, readerVars, JobTypes,
           IngestTypes, StreamOK, ReaderTypes, InOrderOnce
    <2>2. QED
        BY <1>2, <2>1 DEF OrderInv
<1>8. QED
    BY <1>4, <1>5, <1>6, <1>7 DEF Next, Interrupt

(* The variables of the stream and SSE handlers keep their types, and no   *)
(* subscriber channel holds more than subscriberBuffer chunks (Publish).   *)
THEOREM TypeCorrect == Spec => []TypeOK
<1>1. OrderInv => TypeOK
    BY DEF OrderInv, TypeInv
<1>2. QED
    BY <1>1, OrderInit, OrderNext, PTL DEF Spec

(* No page shows a chunk twice or behind a later one, whatever streams,    *)
(* leases, replays, drops and reconnections come together (logsSSEHandler).*)
THEOREM EventsInOrder == Spec => []InOrderOnce
<1>1. OrderInv => InOrderOnce
    BY DEF OrderInv
<1>2. QED
    BY <1>1, OrderInit, OrderNext, PTL DEF Spec
-----------------------------------------------------------------------------
(* The bridge from replay to the live feed. *)

(* A replay brings a page up to the table: without gaps so far, it has the *)
(* n chunks stored.                                                        *)
LEMMA ReplayFills ==
    ASSUME OneStream, TypeOK, NEW n \in 0 .. MaxChunks, Ingest(n), NEW v \in Readers,
           NEW p, Feed(v, n, p), Deliver(v, ReplayFrom(v))
    PROVE  /\ Len(shown'[v]) = n
           /\ \A i \in 1 .. n : shown'[v][i].seq = i - 1
<1> DEFINE e == ReplayFrom(v)
           s == shown[v]
           m == Len(s)
<1>1. s \in Seq(Chunks) /\ m \in Nat /\ m <= n /\ n \in Nat /\ n <= MaxChunks
    BY LenProperties, LogConstants DEF TypeOK, Feed
<1>2. \A i \in 1 .. m : s[i].seq = i - 1
    BY DEF Feed
<1>3. LastSeq(v) = m - 1
    <2>1. CASE s = <<>>
        BY <2>1 DEF LastSeq
    <2>2. CASE s # <<>>
        <3>1. m \in 1 .. m
            BY <1>1, <2>2, EmptySeq
        <3>2. QED
            BY <1>2, <2>2, <3>1 DEF LastSeq, Last
    <2>3. QED
        BY <2>1, <2>2
<1>4. /\ e \in Seq(Chunks) /\ Increasing(e) /\ Len(e) \in Nat /\ DOMAIN e = 1 .. Len(e)
      /\ \A i \in 1 .. Len(e) : e[i] \in Unseen(v)
      /\ \A c \in Unseen(v) : \E i \in 1 .. Len(e) : e[i] = c
    BY ReplayLists, LenProperties
<1> DEFINE row(k) == [lease |-> 1, seq |-> k]
<1>5. ASSUME NEW k \in Int, m <= k, k < n PROVE row(k) \in Unseen(v) /\ row(k).seq = k
    <2>1. row(k) \in Chunks
        BY <1>1, <1>5, LogConstants DEF OneStream, Chunks, Leases, Seqs
    <2>2. row(k) \in chunks /\ lease = 1
        BY <1>5, <2>1 DEF Ingest
    <2>3. QED
        BY <1>1, <1>3, <1>5, <2>2 DEF Unseen
<1>6. \A i \in 1 .. Len(e) : e[i].seq \in Int /\ m <= e[i].seq /\ e[i].seq < n
    <2>1. \A c \in Chunks : c.seq \in Int
        BY LogConstants DEF Chunks, Seqs
    <2>2. \A c \in Unseen(v) : c \in Chunks /\ c.seq < n /\ c.seq > m - 1
        BY <1>3 DEF Unseen, TypeOK, Ingest
    <2>3. QED
        BY <1>1, <1>4, <2>1, <2>2
<1> HIDE DEF e, s, m, row
<1>7. \A i \in 1 .. Len(e) : e[i].seq = m + i - 1
    <2> DEFINE bad == {i \in 1 .. Len(e) : e[i].seq # m + i - 1}
    <2>1. SUFFICES ASSUME bad # {} PROVE FALSE
        OBVIOUS
    <2>2. bad \subseteq Nat
        BY <1>4
    <2>3. PICK i \in bad : \A k \in bad : <<k, i>> \notin OpToRel(<, Nat)
        <3> HIDE DEF bad
        <3> QED
            BY <2>1, <2>2, WFMin, NatLessThanWellFounded
    <2>4. \A k \in bad : ~(k < i)
        <3>1. \A k \in Nat, l \in Nat : k < l => <<k, l>> \in OpToRel(<, Nat)
            BY DEF OpToRel
        <3> HIDE DEF bad
        <3>2. QED
            BY <2>2, <2>3, <3>1, Zenon
    <2>5. i \in 1 .. Len(e) /\ i \in Nat /\ e[i].seq # m + i - 1
        BY <1>4
    <2>6. \A k \in 1 .. i - 1 : e[k].seq = m + k - 1
        BY <1>4, <2>4, <2>5
    <2> HIDE DEF bad
    <2>7. e[i].seq >= m + i - 1
        <3>1. CASE i = 1
            BY <1>1, <1>6, <2>5, <3>1
        <3>2. CASE i # 1
            <4>1. i - 1 \in 1 .. i - 1 /\ i - 1 \in DOMAIN e /\ i \in DOMAIN e /\ i - 1 < i
                BY <1>4, <2>5, <3>2
            <4>2. e[i - 1].seq < e[i].seq /\ e[i - 1].seq = m + (i - 1) - 1
                BY <1>4, <2>6, <4>1 DEF Increasing
            <4>3. QED
                BY <1>1, <1>6, <2>5, <4>2
        <3>3. QED
            BY <3>1, <3>2
    <2>8. PICK k \in 1 .. Len(e) : e[k].seq = m + i - 1
        <3>1. /\ m + i - 1 \in Int /\ m <= m + i - 1 /\ m + i - 1 < n
            BY <1>1, <1>6, <2>5, <2>7
        <3>2. QED
            BY <1>4, <1>5, <3>1
    <2>9. CASE k < i
        BY <1>1, <1>4, <2>5, <2>6, <2>8, <2>9
    <2>10. CASE k > i
        <3>1. e[i].seq < e[k].seq
            BY <1>4, <2>5, <2>10 DEF Increasing
        <3>2. QED
            BY <1>1, <1>6, <2>5, <2>7, <2>8, <3>1
    <2>11. QED
        BY <1>4, <2>5, <2>8, <2>9, <2>10
<1>8. Len(e) = n - m
    <2>1. Len(e) <= n - m
        <3>1. CASE Len(e) = 0
            BY <1>1, <3>1
        <3>2. CASE Len(e) # 0
            <4>1. Len(e) \in 1 .. Len(e)
                BY <1>4, <3>2
            <4>2. e[Len(e)].seq = m + Len(e) - 1 /\ e[Len(e)].seq < n
                BY <1>6, <1>7, <4>1
            <4>3. QED
                BY <1>1, <1>4, <4>2
        <3>3. QED
            BY <3>1, <3>2
    <2>2. ASSUME Len(e) < n - m PROVE FALSE
        <3>1. m + Len(e) \in Int /\ m <= m + Len(e) /\ m + Len(e) < n
            BY <1>1, <1>4, <2>2
        <3>2. PICK i \in 1 .. Len(e) : e[i].seq = m + Len(e)
            BY <1>4, <1>5, <3>1
        <3>3. QED
            BY <1>1, <1>4, <1>7, <3>2
    <2>3. QED
        BY <1>1, <1>4, <2>1, <2>2
<1>9. /\ Len(s \o e) = m + Len(e)
      /\ \A i \in 1 .. m + Len(e) : (s \o e)[i] = IF i <= m THEN s[i] ELSE e[i - m]
    BY <1>1, <1>4, ConcatProperties DEF m
<1>10. shown'[v] = s \o e
    BY DEF Deliver, TypeOK, s, e
<1>11. ASSUME NEW i \in 1 .. n PROVE (s \o e)[i].seq = i - 1
    <2>1. m + Len(e) = n
        BY <1>1, <1>8
    <2>2. CASE i <= m
        <3>1. (s \o e)[i] = s[i] /\ i \in 1 .. m
            BY <1>1, <1>9, <2>1, <2>2
        <3>2. QED
            BY <1>2, <3>1
    <2>3. CASE i > m
        <3>1. (s \o e)[i] = e[i - m] /\ i - m \in 1 .. Len(e)
            BY <1>1, <1>8, <1>9, <2>1, <2>3
        <3>2. e[i - m].seq = m + (i - m) - 1
            BY <1>7, <3>1
        <3>3. QED
            BY <1>1, <3>1, <3>2
    <2>4. i <= m \/ i > m
        BY <1>1
    <2>5. QED
        BY <2>2, <2>3, <2>4
<1>12. QED
    BY <1>1, <1>8, <1>9, <1>10, <1>11

(* The next chunk of the channel: the one the page misses next, or one it  *)
(* has had, which is left out.                                             *)
LEMMA FeedTake ==
    ASSUME TypeOK, NEW n \in Nat, NEW p \in Int, p <= n, NEW v \in Readers, Feed(v, n, p),
           TakeChunk(v), rPc[v] \in {"live", "drain"}, UNCHANGED <<rPc, open>>
    PROVE  Feed(v, n, p)' /\ Len(shown'[v]) >= Len(shown[v])
<1> DEFINE s == shown[v]
           m == Len(s)
           q == chan[v]
           t == Tail(q)
           b == Head(q).seq
<1>1. s \in Seq(Chunks) /\ q \in Seq(Chunks) /\ q # <<>> /\ m \in Nat /\ Len(q) \in Nat
    BY LenProperties DEF TypeOK, TakeChunk
<1>2. /\ Head(q) \in Chunks /\ t \in Seq(Chunks) /\ Head(q) = q[1]
      /\ Len(q) > 0 /\ Len(t) = Len(q) - 1
      /\ \A i \in 1 .. Len(t) : t[i] = q[i + 1]
    BY <1>1, HeadTailProperties, EmptySeq
<1>3. b \in Int
    BY <1>2, LogConstants DEF Chunks, Seqs
<1>4. /\ m <= n /\ \A i \in 1 .. m : s[i].seq = i - 1
      /\ \A i \in 1 .. Len(q) : q[i].seq = b + (i - 1)
      /\ b + Len(q) <= p /\ (open[v] => b + Len(q) = p)
      /\ b <= m
    BY <1>1, <1>2 DEF Feed
<1>5. LastSeq(v) = m - 1
    <2>1. CASE s = <<>>
        BY <2>1 DEF LastSeq
    <2>2. CASE s # <<>>
        <3>1. m \in 1 .. m
            BY <1>1, <2>2, EmptySeq
        <3>2. QED
            BY <1>4, <2>2, <3>1 DEF LastSeq, Last
    <2>3. QED
        BY <2>1, <2>2
<1>6. chan'[v] = t
    BY DEF TakeChunk, TypeOK
<1>7. PICK k \in Nat : /\ Len(shown'[v]) = k /\ k <= n /\ k >= m /\ b + 1 <= k
                       /\ \A i \in 1 .. k : shown'[v][i].seq = i - 1
    <2>1. CASE b > LastSeq(v)
        <3>1. b = m
            BY <1>1, <1>3, <1>4, <1>5, <2>1
        <3>2. shown'[v] = s \o <<Head(q)>>
            BY <2>1 DEF TakeChunk, Deliver, TypeOK
        <3>3. /\ Len(<<Head(q)>>) = 1 /\ <<Head(q)>> \in Seq(Chunks)
              /\ <<Head(q)>>[1] = Head(q)
            BY <1>2
        <3>4. /\ Len(s \o <<Head(q)>>) = m + 1
              /\ \A i \in 1 .. m : (s \o <<Head(q)>>)[i] = s[i]
              /\ (s \o <<Head(q)>>)[m + 1] = Head(q)
            <4>1. /\ Len(s \o <<Head(q)>>) = m + 1
                  /\ \A i \in 1 .. m + 1 :
                         (s \o <<Head(q)>>)[i] = IF i <= m THEN s[i] ELSE <<Head(q)>>[i - m]
                BY <1>1, <3>3, ConcatProperties
            <4> HIDE DEF m, s
            <4>2. m + 1 \in 1 .. m + 1 /\ ~(m + 1 <= m) /\ (m + 1) - m = 1
                BY <1>1
            <4>3. \A i \in 1 .. m : i \in 1 .. m + 1 /\ i <= m
                BY <1>1
            <4>4. QED
                BY <3>3, <4>1, <4>2, <4>3
        <3> HIDE DEF m, s, b, q
        <3>5. \A i \in 1 .. m + 1 : i \in 1 .. m \/ i = m + 1
            BY <1>1
        <3>6. m + 1 <= n
            BY <1>1, <1>3, <1>4, <3>1
        <3>7. \A i \in 1 .. m + 1 : (s \o <<Head(q)>>)[i].seq = i - 1
            <4>1. (s \o <<Head(q)>>)[m + 1].seq = (m + 1) - 1
                BY <1>1, <3>1, <3>4 DEF b
            <4>2. QED
                BY <1>4, <3>4, <3>5, <4>1
        <3>8. QED
            BY <1>1, <1>3, <3>1, <3>2, <3>4, <3>6, <3>7
    <2>2. CASE ~(b > LastSeq(v))
        <3>1. shown'[v] = s \o <<>>
            BY <2>2 DEF TakeChunk, Deliver, TypeOK
        <3>2. shown'[v] = s
            BY <1>1, <3>1, ConcatEmptySeq
        <3> HIDE DEF m, s, b, q
        <3>3. b + 1 <= m /\ m <= n
            BY <1>1, <1>3, <1>4, <1>5, <2>2
        <3>4. Len(shown'[v]) = m /\ \A i \in 1 .. m : shown'[v][i].seq = i - 1
            BY <1>4, <3>2 DEF m
        <3>5. QED
            BY <1>1, <3>3, <3>4
    <2>3. QED
        BY <2>1, <2>2
<1> HIDE DEF s, m, q, t, b
<1>8. \A i \in 1 .. Len(t) : t[i].seq = (b + 1) + (i - 1)
    <2>1. SUFFICES ASSUME NEW i \in 1 .. Len(t) PROVE t[i].seq = (b + 1) + (i - 1)
        OBVIOUS
    <2>2. i + 1 \in 1 .. Len(q) /\ i \in Int
        BY <1>1, <1>2
    <2>3. q[i + 1].seq = b + ((i + 1) - 1)
        BY <1>4, <2>2
    <2>4. t[i] = q[i + 1]
        BY <1>2
    <2>5. b + ((i + 1) - 1) = (b + 1) + (i - 1)
        BY <1>3, <2>2
    <2>6. QED
        BY <2>3, <2>4, <2>5
<1>9. /\ t # <<>> => Len(t) >= 1 /\ t[1].seq = b + 1
      /\ t = <<>> => Len(q) = 1
    <2>1. t # <<>> => Len(t) \in Nat \ {0}
        BY <1>2, EmptySeq
    <2>2. t = <<>> => Len(t) = 0
        OBVIOUS
    <2>3. QED
        BY <1>1, <1>2, <1>3, <1>8, <2>1, <2>2
<1>10. Len(shown'[v]) <= n /\ \A i \in 1 .. Len(shown'[v]) : shown'[v][i].seq = i - 1
    BY <1>7
<1>11. \A i \in 1 .. Len(t) : t[i].seq = t[1].seq + (i - 1)
    <2>1. SUFFICES ASSUME NEW i \in 1 .. Len(t) PROVE t[i].seq = t[1].seq + (i - 1)
        OBVIOUS
    <2>2. 1 \in 1 .. Len(t)
        BY <1>1, <1>2
    <2>3. t[i].seq = (b + 1) + (i - 1) /\ t[1].seq = (b + 1) + (1 - 1)
        BY <1>8, <2>2
    <2>4. QED
        BY <1>3, <2>3
<1>12. t # <<>> => /\ t[1].seq + Len(t) <= p /\ (open[v] => t[1].seq + Len(t) = p)
                   /\ t[1].seq <= Len(shown'[v])
    <2>1. /\ b + Len(q) <= p /\ (open[v] => b + Len(q) = p) /\ Len(t) = Len(q) - 1
          /\ b + 1 <= Len(shown'[v])
        BY <1>2, <1>4, <1>7
    <2>2. QED
        BY <1>1, <1>3, <1>9, <2>1
<1>13. open[v] /\ t = <<>> => p <= Len(shown'[v])
    BY <1>1, <1>3, <1>4, <1>7, <1>9
<1>14. QED
    BY <1>1, <1>6, <1>7, <1>10, <1>11, <1>12, <1>13 DEF Feed, Over, m, s

(* A page that is left alone. *)
LEMMA FeedSame ==
    ASSUME NEW n, NEW p, NEW v \in Readers, Feed(v, n, p), shown'[v] = shown[v],
           chan'[v] = chan[v], open'[v] = open[v], rPc'[v] = rPc[v]
    PROVE  Feed(v, n, p)'
BY DEF Feed

(* A page whose stream is over. *)
LEMMA FeedOver ==
    ASSUME NEW n, NEW p, NEW v \in Readers, Len(shown'[v]) <= n,
           \A i \in 1 .. Len(shown'[v]) : shown'[v][i].seq = i - 1,
           chan'[v] = <<>>, ~open'[v], rPc'[v] \notin {"live", "drain", "final"}
    PROVE  Feed(v, n, p)'
<1>1. \A i \in 1 .. Len(chan'[v]) : FALSE
    BY SMT
<1>2. QED
    BY <1>1, Zenon DEF Feed

(* Publish: chunk p is the next of every channel that is open, or the page *)
(* is up to date and misses it next.  Channels without room are closed.    *)
LEMMA FeedPublish ==
    ASSUME TypeInv, NEW n \in Nat, NEW p \in Nat, p + 1 <= n, NEW h \in Handlers, Publish(h),
           hNext[h] = p, NEW v \in Readers, Feed(v, n, p)
    PROVE  Feed(v, n, p + 1)'
<1> DEFINE q == chan[v]
           c == InHand(h)
<1>1. q \in Seq(Chunks) /\ Len(q) \in Nat /\ c \in Chunks /\ c.seq = p
    BY InHandType, LenProperties DEF TypeInv, TypeOK, Publish, InHand
<1>2. shown'[v] = shown[v] /\ rPc'[v] = rPc[v] /\ (open'[v] => open[v])
    BY DEF Publish
<1>3. chan'[v] = IF open'[v] THEN Append(q, c) ELSE q
    BY DEF Publish
<1>4. q # <<>> => Len(q) >= 1 /\ q[1] \in Chunks /\ q[1].seq \in Int
    <2>1. q # <<>> => Len(q) >= 1 /\ 1 \in 1 .. Len(q)
        BY <1>1, EmptySeq
    <2>2. q # <<>> => q[1] \in Chunks
        BY <1>1, <2>1, ElementOfSeq
    <2>3. QED
        BY <2>1, <2>2, LogConstants DEF Chunks, Seqs
<1>5. CASE ~open'[v]
    <2>1. chan'[v] = q
        BY <1>3, <1>5
    <2>2. q # <<>> => q[1].seq + Len(q) <= p + 1
        BY <1>1, <1>4 DEF Feed
    <2>3. QED
        BY <1>2, <1>5, <2>1, <2>2 DEF Feed
<1>6. CASE open'[v]
    <2> DEFINE t == Append(q, c)
    <2>1. /\ Len(t) = Len(q) + 1 /\ t # <<>>
          /\ \A i \in 1 .. Len(q) : t[i] = q[i]
          /\ t[Len(q) + 1] = c
        BY <1>1, AppendProperties
    <2>2. chan'[v] = t
        BY <1>3, <1>6
    <2>3. open[v]
        BY <1>2, <1>6
    <2>4. CASE q = <<>>
        <3>1. Len(q) = 0 /\ Len(t) = 1 /\ t[1].seq = p
            BY <1>1, <2>1, <2>4
        <3>2. \A i \in 1 .. Len(t) : t[i].seq = t[1].seq + (i - 1)
            <4>1. \A i \in 1 .. 1 : i = 1 /\ p = p + (i - 1)
                OBVIOUS
            <4> HIDE DEF t
            <4>2. QED
                BY <3>1, <4>1
        <3>3. rPc[v] \in {"live", "drain", "final"} => p <= Len(shown[v])
            BY <2>3, <2>4 DEF Feed
        <3> HIDE DEF t
        <3>4. t[1].seq + Len(t) <= p + 1 /\ t[1].seq + Len(t) = p + 1
            BY <3>1
        <3>5. rPc[v] \notin Over \cup {"off", "opening"}
            BY <2>3 DEF Feed
        <3>6. Len(shown[v]) <= n /\ \A i \in 1 .. Len(shown[v]) : shown[v][i].seq = i - 1
            BY DEF Feed
        <3>7. QED
            <4>1. /\ \A i \in 1 .. Len(chan'[v]) : chan'[v][i].seq = chan'[v][1].seq + (i - 1)
                  /\ chan'[v] # <<>>
                  /\ chan'[v][1].seq = p /\ chan'[v][1].seq + Len(chan'[v]) = p + 1
                  /\ chan'[v][1].seq + Len(chan'[v]) <= p + 1
                BY <2>1, <2>2, <3>1, <3>2, <3>4
            <4>2. /\ Len(shown'[v]) <= n
                  /\ \A i \in 1 .. Len(shown'[v]) : shown'[v][i].seq = i - 1
                  /\ rPc'[v] \notin Over \cup {"off", "opening"}
                  /\ rPc'[v] \in {"live", "drain", "final"} => p <= Len(shown'[v])
                BY <1>2, <3>3, <3>5, <3>6
            <4>3. QED
                BY <4>1, <4>2, Zenon DEF Feed
    <2>5. CASE q # <<>>
        <3>1. q[1].seq + Len(q) = p /\ \A i \in 1 .. Len(q) : q[i].seq = q[1].seq + (i - 1)
            BY <2>3, <2>5 DEF Feed
        <3>2. t[1] = q[1] /\ t[Len(q) + 1].seq = p
            BY <1>1, <1>4, <2>1, <2>5
        <3>3. \A i \in 1 .. Len(t) : t[i].seq = t[1].seq + (i - 1)
            <4>1. SUFFICES ASSUME NEW i \in 1 .. Len(t)
                           PROVE  t[i].seq = t[1].seq + (i - 1)
                OBVIOUS
            <4> HIDE DEF t, q
            <4>2. i \in 1 .. Len(q) \/ i = Len(q) + 1
                BY <1>1, <2>1
            <4>3. CASE i \in 1 .. Len(q)
                BY <2>1, <3>1, <3>2, <4>3
            <4>4. CASE i = Len(q) + 1
                <5>1. p = q[1].seq + (i - 1)
                    BY <1>1, <1>4, <2>5, <3>1, <4>4
                <5>2. QED
                    BY <3>2, <4>4, <5>1
            <4>5. QED
                BY <4>2, <4>3, <4>4
        <3> HIDE DEF t, q
        <3>4. t[1].seq + Len(t) = p + 1 /\ t[1].seq + Len(t) <= p + 1
            BY <1>1, <1>4, <2>1, <2>5, <3>1, <3>2
        <3>5. rPc[v] \in {"live", "drain", "final"} => t[1].seq <= Len(shown[v])
            BY <2>5, <3>2 DEF Feed, q
        <3>6. rPc[v] \notin Over \cup {"off", "opening"}
            BY <2>3 DEF Feed
        <3>7. Len(shown[v]) <= n /\ \A i \in 1 .. Len(shown[v]) : shown[v][i].seq = i - 1
            BY DEF Feed
        <3>8. QED
            BY <1>2, <2>1, <2>2, <3>3, <3>4, <3>5, <3>6, <3>7 DEF Feed
    <2>6. QED
        BY <2>4, <2>5
<1>7. QED
    BY <1>5, <1>6

(* The steps of a page but for those that take a chunk from the channel.   *)
LEMMA FeedReader ==
    ASSUME OneStream, TypeOK, NEW n \in 0 .. MaxChunks, Ingest(n), NEW p \in Int, p <= n,
           NEW v \in Readers, Feed(v, n, p), ReaderStep(v) \/ PageCloses(v) \/ Cut(v)
    PROVE  Feed(v, n, p)' /\ (FinalReplay(v) => Len(shown'[v]) = n)
<1> USE DEF TypeOK
<1>1. Len(shown[v]) \in Nat /\ Len(chan[v]) \in Nat /\ n \in Nat
    BY LenProperties, LogConstants
<1>2. chan[v] # <<>> => Len(chan[v]) >= 1 /\ chan[v][1].seq \in Int
    <2>1. chan[v] # <<>> => Len(chan[v]) >= 1 /\ 1 \in 1 .. Len(chan[v])
        BY <1>1, EmptySeq
    <2>2. chan[v] # <<>> => chan[v][1] \in Chunks
        BY <2>1, ElementOfSeq
    <2>3. QED
        BY <2>1, <2>2, LogConstants DEF Chunks, Seqs
<1>3. CASE Connect(v)
    BY <1>3 DEF Connect, Reader, Feed, FinalReplay, Over
<1>4. CASE Subscribe(v)
    BY <1>4 DEF Subscribe, Reader, Feed, FinalReplay, Over
<1>5. CASE Replay(v)
    <2>1. Len(shown'[v]) = n /\ \A i \in 1 .. n : shown'[v][i].seq = i - 1
        BY <1>5, ReplayFills DEF Replay
    <2>2. /\ chan' = chan /\ open' = open /\ rPc[v] = "replay"
          /\ rPc'[v] \in {"live", "drain"}
        BY <1>5 DEF Replay, Reader
    <2>3. chan[v] # <<>> => chan[v][1].seq <= n
        BY <1>1, <1>2 DEF Feed
    <2>4. Feed(v, n, p)'
        <3>1. rPc'[v] \notin Over \cup {"off", "opening"}
            BY <2>2 DEF Over
        <3>2. Len(shown'[v]) <= n /\ p <= Len(shown'[v])
            BY <1>1, <2>1
        <3>3. \A i \in 1 .. Len(shown'[v]) : shown'[v][i].seq = i - 1
            BY <2>1
        <3>4. chan'[v] # <<>> => chan'[v][1].seq <= Len(shown'[v])
            BY <2>1, <2>2, <2>3
        <3>5. /\ \A i \in 1 .. Len(chan'[v]) : chan'[v][i].seq = chan'[v][1].seq + (i - 1)
              /\ chan'[v] # <<>> =>
                     /\ chan'[v][1].seq + Len(chan'[v]) <= p
                     /\ open'[v] => chan'[v][1].seq + Len(chan'[v]) = p
            BY <2>2, Zenon DEF Feed
        <3>6. QED
            BY <3>1, <3>2, <3>3, <3>4, <3>5, Zenon DEF Feed
    <2>5. QED
        BY <2>2, <2>4 DEF FinalReplay
<1>6. CASE FollowLive(v)
    BY <1>1, <1>6, FeedTake DEF FollowLive, FinalReplay
<1>7. CASE KeepAlive(v)
    BY <1>7 DEF KeepAlive, Reader, Feed, FinalReplay, Over
<1>8. CASE Drain(v)
    <2>1. CASE TakeChunk(v) /\ UNCHANGED rPc
        BY <1>1, <1>8, <2>1, FeedTake DEF Drain, FinalReplay
    <2>2. CASE chan[v] = <<>> /\ Reader(v, "final") /\ UNCHANGED <<chan, shown>>
        BY <1>8, <2>2 DEF Drain, Reader, Feed, FinalReplay, Over
    <2>3. QED
        BY <1>8, <2>1, <2>2 DEF Drain
<1>9. CASE Resync(v) \/ FinalReplay(v)
    <2>1. Len(shown'[v]) = n /\ \A i \in 1 .. n : shown'[v][i].seq = i - 1
        BY <1>9, ReplayFills DEF Resync, FinalReplay
    <2>2. chan'[v] = <<>> /\ ~open'[v] /\ rPc'[v] \in {"off", "ended"}
        BY <1>9 DEF Resync, FinalReplay, Hangup, Reader
    <2>3. Len(shown'[v]) <= n /\ \A i \in 1 .. Len(shown'[v]) : shown'[v][i].seq = i - 1
        BY <1>1, <2>1
    <2>4. rPc'[v] \notin {"live", "drain", "final"}
        BY <2>2
    <2>5. Feed(v, n, p)'
        BY <2>2, <2>3, <2>4, FeedOver, Zenon
    <2>6. QED
        BY <2>1, <2>5
<1>10. CASE PageCloses(v) \/ Cut(v)
    <2>1. /\ chan'[v] = <<>> /\ ~open'[v] /\ rPc'[v] \in {"off", "closed"}
          /\ shown' = shown
        BY <1>10 DEF PageCloses, Cut, Hangup, Reader
    <2>2. ~FinalReplay(v)
        BY <2>1 DEF FinalReplay, Hangup, Reader
    <2>3. Len(shown'[v]) <= n /\ \A i \in 1 .. Len(shown'[v]) : shown'[v][i].seq = i - 1
        BY <2>1, Zenon DEF Feed
    <2>4. rPc'[v] \notin {"live", "drain", "final"}
        BY <2>1
    <2>5. Feed(v, n, p)'
        BY <2>1, <2>3, <2>4, FeedOver, Zenon
    <2>6. QED
        BY <2>2, <2>5
<1>11. QED
    BY <1>3, <1>4, <1>5, <1>6, <1>7, <1>8, <1>9, <1>10 DEF ReaderStep

(* Leasing, starting and finishing the job. *)
LEMMA BridgeJob ==
    ASSUME OneStream, TypeInv, NEW n \in 0 .. MaxChunks, Bridge(n),
           LeaseJob \/ RequeueJob \/ StartJob \/ FinishJob
    PROVE  Bridge(n)'
<1> USE DEF Bridge
<1>1. UNCHANGED <<chunks, ingestVars, readerVars>>
    BY DEF LeaseJob, RequeueJob, StartJob, FinishJob
<1>2. /\ granted' # 0 => lease' = 1
      /\ granted # 0 => granted' # 0
    BY LogConstants DEF TypeInv, TypeOK, OneStream, Ingest, LeaseJob, RequeueJob, StartJob,
                        FinishJob
<1>3. Ingest(n)'
    BY <1>1, <1>2 DEF Ingest, ingestVars
<1>4. Published(n)' = Published(n)
    BY <1>1 DEF Published, Announcing, ingestVars
<1>5. ASSUME NEW v \in Readers PROVE Feed(v, n, Published(n))' /\ Ending(v)'
    <2>1. Feed(v, n, Published(n))'
        BY <1>1, <1>4 DEF Feed, readerVars
    <2>2. Ending(v)'
        BY <1>1 DEF Ending, readerVars, LeaseJob, RequeueJob, StartJob, FinishJob
    <2>3. QED
        BY <2>1, <2>2
<1>6. (due \subseteq chunks)'
    BY <1>1 DEF LeaseJob, RequeueJob, StartJob, FinishJob
<1>7. QED
    BY <1>3, <1>5, <1>6

(* StreamLogs stores the chunks in their order; the one it appends is the  *)
(* next one, and it publishes that before it takes another.                *)
LEMMA BridgeIngest ==
    ASSUME OneStream, TypeInv, NEW n \in 0 .. MaxChunks, Bridge(n), NEW h \in Handlers,
           IngestStep(h) \/ OpenStream(h) \/ CloseStream(h)
    PROVE  \E k \in 0 .. MaxChunks : Bridge(k)'
<1> USE LogConstants DEF Bridge
<1>1. /\ IngestTypes /\ JobTypes /\ TypeOK /\ n \in Nat
      /\ \A g \in Handlers : g = h
    BY TypeParts DEF TypeInv, OneStream
<1>2. UNCHANGED jobVars
    BY DEF IngestStep, RecvChunk, AppendChunk, Publish, OpenStream, CloseStream
<1>3. Announcing <=> hPc[h] = "publish"
    BY <1>1 DEF Announcing
<1>4. Announcing' <=> hPc'[h] = "publish"
    BY <1>1 DEF Announcing
<1>5. ASSUME UNCHANGED <<chunks, readerVars>>, Ingest(n)', Announcing' <=> Announcing
      PROVE  Bridge(n)'
    <2>1. Published(n)' = Published(n)
        BY <1>5 DEF Published
    <2>2. \A v \in Readers : Feed(v, n, Published(n))' /\ Ending(v)'
        BY <1>2, <1>5, <2>1 DEF Feed, Ending, readerVars, jobVars
    <2>3. QED
        BY <1>2, <1>5, <2>2 DEF jobVars
<1>6. CASE OpenStream(h)
    <2>1. PICK l \in 1 .. granted : \E s \in 0 .. sent[l] :
              /\ hLease' = [hLease EXCEPT ![h] = l]
              /\ hNext' = [hNext EXCEPT ![h] = s]
        BY <1>6 DEF OpenStream
    <2>2. l = 1 /\ granted # 0 /\ l \in Leases
        BY <1>1 DEF JobTypes, OneStream, Leases
    <2>3. sent[1] \in Nat /\ sent[1] <= n
        BY <1>1, <1>6, <2>2 DEF IngestTypes, OpenStream, Ingest
    <2>4. /\ hPc'[h] = "recv" /\ hPc[h] = "free" /\ hLease'[h] = 1 /\ hNext'[h] <= n
          /\ UNCHANGED <<chunks, sent, hJob, readerVars>>
        BY <1>1, <1>6, <2>1, <2>2, <2>3 DEF IngestTypes, OpenStream
    <2>5. Ingest(n)'
        BY <1>1, <1>2, <2>2, <2>3, <2>4 DEF Ingest, jobVars
    <2>6. QED
        BY <1>3, <1>4, <1>5, <2>4, <2>5
<1>7. CASE RecvChunk(h)
    <2>1. /\ hPc[h] = "recv" /\ hLease[h] = 1 /\ lease = 1 /\ granted # 0
          /\ hNext[h] <= n /\ hNext[h] \in Nat
          /\ sent[1] <= n /\ sent[1] \in Nat /\ 1 \in Leases
        BY <1>1, <1>7 DEF RecvChunk, Ingest, IngestTypes, OneStream, Leases
    <2>2. /\ hPc'[h] = "append" /\ hJob'[h] = "row" /\ hNext' = hNext
          /\ sent'[1] = IF sent[1] > hNext[h] THEN sent[1] ELSE hNext[h] + 1
          /\ UNCHANGED <<hLease, chunks, readerVars>>
        BY <1>1, <1>7, <2>1 DEF RecvChunk, Handler, Ingest, IngestTypes
    <2>3. sent'[1] <= n \/ (hNext[h] = n /\ sent'[1] = n + 1)
        BY <1>1, <2>1, <2>2
    <2>4. Ingest(n)'
        BY <1>1, <1>2, <2>1, <2>2, <2>3 DEF Ingest, jobVars
    <2>5. QED
        BY <1>3, <1>4, <1>5, <2>1, <2>2, <2>4
<1>8. CASE CloseStream(h)
    <2>1. /\ hPc'[h] = "free" /\ hPc[h] = "recv" /\ hJob'[h] = "none"
          /\ UNCHANGED <<sent, chunks, readerVars>> /\ sent[1] <= n
        BY <1>1, <1>8 DEF CloseStream, Return, IngestTypes, Ingest
    <2>2. Ingest(n)'
        BY <1>1, <1>2, <2>1 DEF Ingest, jobVars
    <2>3. QED
        BY <1>3, <1>4, <1>5, <2>1, <2>2
<1>9. CASE AppendChunk(h)
    <2>1. /\ hPc[h] = "append" /\ hLease[h] = 1 /\ lease = 1 /\ granted # 0
          /\ hNext[h] <= n /\ hNext[h] \in Nat /\ hNext[h] < MaxChunks
          /\ InHand(h) \in Chunks /\ InHand(h).seq = hNext[h]
          /\ UNCHANGED <<sent, hLease, hJob, readerVars>>
        BY <1>1, <1>9, InHandType
           DEF AppendChunk, Handler, Ingest, TypeInv, StreamOK, IngestTypes, Seqs, InHand
    <2>2. InHand(h) \in chunks <=> hNext[h] < n
        BY <2>1 DEF Ingest
    <2>3. CASE hNext[h] < n
        <3>1. /\ chunks' = chunks /\ hPc'[h] = "recv" /\ hNext'[h] = hNext[h] + 1
              /\ sent[1] <= n
            BY <1>1, <1>9, <2>2, <2>3 DEF AppendChunk, Handler, Ingest, IngestTypes
        <3>2. Ingest(n)'
            BY <1>1, <1>2, <2>1, <2>3, <3>1 DEF Ingest, jobVars
        <3>3. QED
            BY <1>3, <1>4, <1>5, <2>1, <3>1, <3>2
    <2>4. CASE hNext[h] = n
        <3>1. /\ chunks' = chunks \cup {InHand(h)} /\ hPc'[h] = "publish"
              /\ hNext' = hNext
            BY <1>1, <1>9, <2>1, <2>2, <2>4 DEF AppendChunk, Handler, IngestTypes
        <3>2. \A c \in Chunks : c \in chunks' <=> c.seq < n + 1
            <4>1. \A c \in Chunks : c.seq \in Int
                BY DEF Chunks, Seqs
            <4>2. \A c \in Chunks : c.seq = n => c = InHand(h)
                BY <2>1, <2>4 DEF Chunks, Leases, OneStream
            <4>3. QED
                BY <1>1, <2>1, <2>4, <3>1, <4>1, <4>2 DEF Ingest
        <3>3. sent[1] <= n + 1
            <4>1. sent[1] \in Nat
                BY <1>1 DEF IngestTypes, Leases, OneStream
            <4>2. QED
                BY <1>1, <4>1 DEF Ingest
        <3>4. Ingest(n + 1)'
            BY <1>1, <1>2, <2>1, <2>4, <3>1, <3>2, <3>3 DEF Ingest, jobVars
        <3>5. Published(n) = n /\ Published(n + 1)' = n
            BY <1>1, <1>3, <1>4, <2>1, <3>1 DEF Published
        <3>6. ASSUME NEW v \in Readers PROVE Feed(v, n + 1, Published(n + 1))' /\ Ending(v)'
            <4>1. Feed(v, n, n)
                BY <3>5
            <4>2. Feed(v, n + 1, n)
                <5>1. Len(shown[v]) \in Nat
                    BY <1>1, LenProperties DEF TypeOK
                <5>2. Len(shown[v]) <= n + 1
                    BY <1>1, <4>1, <5>1 DEF Feed
                <5>3. QED
                    BY <4>1, <5>2 DEF Feed
            <4>3. Feed(v, n + 1, n)'
                BY <2>1, <4>2, FeedSame DEF readerVars
            <4>4. Ending(v)'
                BY <1>2, <2>1 DEF Ending, readerVars, jobVars
            <4>5. QED
                BY <3>5, <4>3, <4>4
        <3>7. (due \subseteq chunks)'
            BY <1>2, <3>1 DEF jobVars
        <3>8. n + 1 \in 0 .. MaxChunks
            BY <1>1, <2>1, <2>4
        <3>9. QED
            BY <3>4, <3>6, <3>7, <3>8
    <2>5. QED
        BY <1>1, <2>1, <2>3, <2>4
<1>10. CASE Publish(h)
    <2>1. /\ hPc[h] = "publish" /\ hPc'[h] = "recv" /\ hNext[h] + 1 = n
          /\ hNext[h] \in Nat /\ hNext'[h] = n /\ sent[1] <= n
          /\ granted # 0 /\ hLease[h] = 1
          /\ UNCHANGED <<chunks, sent, hLease, hJob, rPc, rTerminal, shown>>
        BY <1>1, <1>10 DEF Publish, Handler, Ingest, IngestTypes
    <2>2. Ingest(n)'
        BY <1>1, <1>2, <2>1 DEF Ingest, jobVars
    <2>3. PICK p \in Nat : hNext[h] = p /\ p + 1 = n
        BY <2>1
    <2>4. Published(n) = p /\ Published(n)' = p + 1
        BY <1>1, <1>3, <1>4, <2>1, <2>3 DEF Published
    <2>5. ASSUME NEW v \in Readers PROVE Feed(v, n, Published(n))' /\ Ending(v)'
        <3>1. Feed(v, n, p)
            BY <2>4
        <3>2. Feed(v, n, p + 1)'
            BY <1>1, <1>10, <2>3, <3>1, FeedPublish
        <3>3. Ending(v)'
            BY <1>2, <2>1 DEF Ending, jobVars
        <3>4. QED
            BY <2>4, <3>2, <3>3
    <2>6. QED
        BY <1>2, <2>1, <2>2, <2>5 DEF jobVars
<1>11. QED
    BY <1>6, <1>7, <1>8, <1>9, <1>10 DEF IngestStep

(* A page's own step, and what it means for the others: nothing. *)
LEMMA BridgeReader ==
    ASSUME OneStream, TypeInv, NEW n \in 0 .. MaxChunks, Bridge(n), NEW v \in Readers,
           ReaderStep(v) \/ PageCloses(v) \/ Cut(v)
    PROVE  Bridge(n)'
<1> USE DEF Bridge
<1>1. TypeOK /\ n \in Nat
    BY LogConstants DEF TypeInv
<1>2. UNCHANGED <<jobVars, chunks, ingestVars>>
    BY DEF ReaderStep, PageCloses, Cut, Connect, Subscribe, Replay, FollowLive, Resync, KeepAlive,
           Drain, FinalReplay
<1>3. Ingest(n)' /\ (due \subseteq chunks)'
    BY <1>2 DEF Ingest, jobVars, ingestVars
<1>4. PICK p \in Int : p = Published(n) /\ p <= n
    BY <1>1 DEF Published
<1>5. Published(n)' = p
    BY <1>2, <1>4 DEF Published, Announcing, ingestVars
<1>6. Feed(v, n, p)' /\ (FinalReplay(v) => Len(shown'[v]) = n)
    BY <1>1, <1>4, FeedReader
<1>7. ASSUME NEW w \in Readers, w # v
      PROVE  /\ shown'[w] = shown[w] /\ chan'[w] = chan[w] /\ open'[w] = open[w]
             /\ rPc'[w] = rPc[w] /\ rTerminal'[w] = rTerminal[w]
    BY <1>1, <1>7 DEF TypeOK, ReaderStep, PageCloses, Cut, Connect, Subscribe, Replay, FollowLive,
           Resync, KeepAlive, Drain, FinalReplay, TakeChunk, Reader, Hangup, Deliver
<1>8. Ending(v)'
    <2>1. CASE FinalReplay(v)
        <3>1. \A c \in due : c.seq < n
            BY <1>1 DEF Ingest, TypeOK
        <3>2. jobStatus = "success" /\ rTerminal'[v] = FALSE /\ rPc'[v] = "ended"
            BY <1>1, <2>1 DEF FinalReplay, Hangup, Reader, TypeOK, Ending
        <3>3. QED
            BY <1>2, <1>6, <2>1, <3>1, <3>2 DEF Ending, jobVars
    <2>2. CASE ~FinalReplay(v)
        <3>1. rPc'[v] # "ended"
            BY <1>1, <2>2 DEF TypeOK, ReaderStep, PageCloses, Cut, Connect, Subscribe, Replay,
                   FollowLive, Resync, KeepAlive, Drain, Reader, Hangup
        <3>2. rTerminal'[v] \/ rPc'[v] \in {"drain", "final"} => jobStatus = "success"
            BY <1>1, <2>2 DEF Ending, TypeOK, ReaderStep, PageCloses, Cut, Connect, Subscribe, Replay,
                   FollowLive, Resync, KeepAlive, Drain, Reader, Hangup
        <3>3. QED
            BY <1>2, <3>1, <3>2 DEF Ending, jobVars
    <2>3. QED
        BY <2>1, <2>2
<1>9. ASSUME NEW w \in Readers, w # v PROVE Feed(w, n, p)' /\ Ending(w)'
    BY <1>2, <1>4, <1>7, <1>9, FeedSame DEF Ending, jobVars
<1>10. QED
    BY <1>3, <1>5, <1>6, <1>8, <1>9

(* At the start no chunk is stored. *)
LEMMA BridgeInit == OneStream /\ Init => BridgeInv
<1> SUFFICES ASSUME OneStream, Init PROVE BridgeInv
    OBVIOUS
<1>1. TypeInv
    BY OrderInit DEF OrderInv
<1>2. Ingest(0)
    BY LogConstants DEF Init, Ingest, Chunks, Seqs, OneStream, Leases
<1>3. \A v \in Readers : Feed(v, 0, Published(0)) /\ Ending(v)
    BY DEF Init, Feed, Ending
<1>4. 0 \in 0 .. MaxChunks
    BY LogConstants
<1>5. QED
    BY <1>1, <1>2, <1>3, <1>4 DEF Init, BridgeInv, Bridge

(* BridgeInv is inductive. *)
LEMMA BridgeNext == OneStream /\ OrderInv /\ BridgeInv /\ [Next]_vars => BridgeInv'
<1> SUFFICES ASSUME OneStream, OrderInv, BridgeInv, [Next]_vars PROVE BridgeInv'
    OBVIOUS
<1>1. TypeInv'
    BY OrderNext DEF OrderInv
<1>2. SUFFICES ASSUME faults' = 0 PROVE \E k \in 0 .. MaxChunks : Bridge(k)'
    BY <1>1 DEF BridgeInv
<1>3. /\ TypeInv /\ faults \in Nat
    BY LogConstants DEF BridgeInv, TypeInv, TypeOK
<1>4. \A h \in Handlers : ~AppendFails(h)
    BY <1>2, <1>3 DEF AppendFails
<1>5. \A v \in Readers : ~ReplayFails(v) /\ ~ConnectFails(v)
    BY <1>2, <1>3 DEF ReplayFails, ConnectFails
<1>6. faults = 0
    <2>1. CASE LeaseJob \/ RequeueJob \/ StartJob \/ FinishJob
        BY <1>2, <2>1 DEF LeaseJob, RequeueJob, StartJob, FinishJob
    <2>2. ASSUME NEW h \in Handlers, IngestStep(h) \/ OpenStream(h) \/ CloseStream(h)
          PROVE  faults = 0
        BY <1>2, <2>2 DEF IngestStep, RecvChunk, AppendChunk, Publish, OpenStream, CloseStream
    <2>3. ASSUME NEW v \in Readers, ReaderStep(v) \/ PageCloses(v) \/ Cut(v) PROVE faults = 0
        BY <1>2, <2>3 DEF ReaderStep, PageCloses, Cut, Connect, Subscribe, Replay, FollowLive, Resync,
               KeepAlive, Drain, FinalReplay
    <2>4. CASE UNCHANGED vars
        BY <1>2, <2>4 DEF vars
    <2>5. QED
        BY <1>4, <1>5, <2>1, <2>2, <2>3, <2>4 DEF Next
<1>7. PICK n \in 0 .. MaxChunks : Bridge(n)
    BY <1>6 DEF BridgeInv
<1>8. CASE LeaseJob \/ RequeueJob \/ StartJob \/ FinishJob
    BY <1>3, <1>7, <1>8, BridgeJob
<1>9. ASSUME NEW h \in Handlers, IngestStep(h) \/ OpenStream(h) \/ CloseStream(h)
      PROVE  \E k \in 0 .. MaxChunks : Bridge(k)'
    BY <1>3, <1>7, <1>9, BridgeIngest
<1>10. ASSUME NEW v \in Readers, ReaderStep(v) \/ PageCloses(v) \/ Cut(v)
       PROVE  \E k \in 0 .. MaxChunks : Bridge(k)'
    BY <1>3, <1>7, <1>10, BridgeReader
<1>11. CASE UNCHANGED vars
    <2>1. Bridge(n)'
        BY <1>7, <1>11 DEF vars, jobVars, ingestVars, readerVars, Bridge, Ingest, Feed,
               Ending, Published, Announcing
    <2>2. QED
        BY <2>1
<1>12. QED
    BY <1>4, <1>5, <1>8, <1>9, <1>10, <1>11 DEF Next

(* With one stream at a time of a job leased once, a page shows the log    *)
(* from its start without a gap, whatever is dropped with a full channel   *)
(* or logged while the page connects (logs.go: "Replay -> live bridge (no  *)
(* gap/dupe)"), until a statement fails.                                   *)
THEOREM NoGaps == OneStream /\ Spec => []NoGap
<1>1. OrderInv /\ BridgeInv => NoGap
    <2> SUFFICES ASSUME OrderInv, BridgeInv, faults = 0, NEW v \in Readers,
                        NEW i \in DOMAIN shown[v]
                 PROVE  shown[v][i].seq = i - 1
        BY DEF NoGap
    <2>1. DOMAIN shown[v] = 1 .. Len(shown[v])
        BY LenProperties DEF OrderInv, TypeInv, TypeOK
    <2>2. PICK n \in 0 .. MaxChunks : Bridge(n)
        BY DEF BridgeInv
    <2>3. QED
        BY <2>1, <2>2 DEF Bridge, Feed
<1>2. OneStream => OneStream'
    BY DEF OneStream
<1>3. QED
    BY <1>1, <1>2, OrderInit, OrderNext, BridgeInit, BridgeNext, PTL DEF Spec

(* Under the same conditions a page that is told the end has every chunk   *)
(* that was stored when the job finished (logsMaybeFinish: drain, final    *)
(* replay, end event).                                                     *)
THEOREM EndsComplete == OneStream /\ Spec => []EndIsComplete
<1>1. OneStream /\ OrderInv /\ BridgeInv => EndIsComplete
    <2> SUFFICES ASSUME OneStream, OrderInv, BridgeInv, faults = 0, NEW v \in Readers,
                        rPc[v] = "ended", NEW c \in due
                 PROVE  c \in ToSet(shown[v])
        BY DEF EndIsComplete
    <2>1. PICK n \in 0 .. MaxChunks : Bridge(n)
        BY DEF BridgeInv
    <2>2. shown[v] \in Seq(Chunks) /\ Len(shown[v]) \in Nat /\ c \in Chunks
        BY LenProperties DEF OrderInv, TypeInv, TypeOK
    <2>3. c.seq \in Nat /\ c.seq < Len(shown[v]) /\ c.lease = 1
        BY <2>1, <2>2, LogConstants DEF Bridge, Ending, Chunks, Seqs, Leases, OneStream
    <2>4. PICK i \in 1 .. Len(shown[v]) : i = c.seq + 1
        BY <2>2, <2>3
    <2>5. shown[v][i] \in Chunks /\ shown[v][i].seq = c.seq
        <3>1. shown[v][i].seq = i - 1
            BY <2>1 DEF Bridge, Feed
        <3>2. QED
            BY <2>2, <2>3, <2>4, <3>1, ElementOfSeq
    <2>6. shown[v][i] = c
        BY <2>2, <2>5 DEF Chunks, Leases, OneStream
    <2>7. QED
        BY <2>2, <2>6, LenProperties DEF ToSet
<1>2. OneStream => OneStream'
    BY DEF OneStream
<1>3. QED
    BY <1>1, <1>2, OrderInit, OrderNext, BridgeInit, BridgeNext, PTL DEF Spec
=============================================================================
