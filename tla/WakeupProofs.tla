---------------------------- MODULE WakeupProofs ----------------------------
(***************************************************************************)
(* The wake-up of runners and the answers of POST /api/runs, for any       *)
(* requests, rows and runners: no channel is closed twice, no waiting      *)
(* stream is forgotten, and an answer says what was written.               *)
(***************************************************************************)
EXTENDS Wakeup, FiniteSetTheorems, SequenceTheorems, TLAPS

(* The channel lists hold no channel at the start. *)
LEMMA EmptyList == ToSet(<<>>) = {} /\ IsInjective(<<>>)
BY DEF ToSet, IsInjective

(* wait() appends a channel. *)
LEMMA AppendList ==
    ASSUME NEW S, NEW s \in Seq(S), NEW e \in S
    PROVE  /\ ToSet(Append(s, e)) = ToSet(s) \cup {e}
           /\ IsInjective(s) /\ e \notin ToSet(s) => IsInjective(Append(s, e))
<1> DEFINE t == Append(s, e)
           n == Len(s)
<1>1. /\ n \in Nat
      /\ DOMAIN s = 1 .. n
      /\ DOMAIN t = 1 .. n + 1
      /\ \A i \in 1 .. n : t[i] = s[i]
      /\ t[n + 1] = e
    BY AppendProperties, LenProperties
<1> HIDE DEF t, n
<1>2. \A i \in 1 .. n + 1 : i \in 1 .. n \/ i = n + 1
    BY <1>1
<1>3. 1 .. n \subseteq 1 .. n + 1 /\ n + 1 \in 1 .. n + 1
    BY <1>1
<1>4. ToSet(t) = ToSet(s) \cup {e}
    BY <1>1, <1>2, <1>3 DEF ToSet
<1>5. ASSUME IsInjective(s), e \notin ToSet(s) PROVE IsInjective(t)
    BY <1>1, <1>2, <1>5 DEF ToSet, IsInjective
<1>6. QED
    BY <1>4, <1>5 DEF t

(* notify() closes the first channel of its list. *)
LEMMA TailOfList ==
    ASSUME NEW S, NEW s \in Seq(S), s # <<>>
    PROVE  /\ Head(s) \in S /\ Tail(s) \in Seq(S)
           /\ ToSet(s) = {Head(s)} \cup ToSet(Tail(s))
           /\ IsInjective(s) => Head(s) \notin ToSet(Tail(s)) /\ IsInjective(Tail(s))
<1> DEFINE t == Tail(s)
           h == Head(s)
           n == Len(s)
<1>1. /\ h \in S /\ t \in Seq(S)
      /\ n \in Nat /\ n > 0
      /\ DOMAIN s = 1 .. n
      /\ DOMAIN t = 1 .. n - 1
      /\ \A i \in 1 .. n - 1 : t[i] = s[i + 1]
      /\ s[1] = h
    BY HeadTailProperties, LenProperties
<1> HIDE DEF t, h, n
<1>2. \A i \in 1 .. n : i = 1 \/ (i - 1 \in 1 .. n - 1 /\ i = (i - 1) + 1)
    BY <1>1
<1>3. 1 \in 1 .. n /\ \A i \in 1 .. n - 1 : i + 1 \in 1 .. n /\ i + 1 # 1
    BY <1>1
<1>4. ToSet(s) = {h} \cup ToSet(t)
    <2>1. ASSUME NEW i \in 1 .. n PROVE s[i] \in {h} \cup ToSet(t)
        <3>1. CASE i = 1
            BY <1>1, <3>1
        <3>2. CASE i # 1
            <4>1. i - 1 \in 1 .. n - 1 /\ (i - 1) + 1 = i
                BY <1>2, <3>2
            <4>2. s[i] = t[i - 1]
                BY <1>1, <4>1
            <4>3. QED
                BY <1>1, <4>1, <4>2 DEF ToSet
        <3>3. QED
            BY <3>1, <3>2
    <2>2. ASSUME NEW i \in 1 .. n - 1 PROVE t[i] \in ToSet(s)
        BY <1>1, <1>3 DEF ToSet
    <2>3. h \in ToSet(s)
        BY <1>1, <1>3 DEF ToSet
    <2>4. QED
        BY <1>1, <2>1, <2>2, <2>3 DEF ToSet
<1>5. ASSUME IsInjective(s) PROVE h \notin ToSet(t) /\ IsInjective(t)
    <2>1. \A i, j \in 1 .. n - 1 : i + 1 = j + 1 => i = j
        BY <1>1
    <2>2. IsInjective(t)
        <3>1. ASSUME NEW i \in 1 .. n - 1, NEW j \in 1 .. n - 1, t[i] = t[j]
              PROVE  i = j
            <4>1. s[i + 1] = s[j + 1] /\ i + 1 \in 1 .. n /\ j + 1 \in 1 .. n
                BY <1>1, <1>3, <3>1
            <4>2. i + 1 = j + 1
                BY <1>1, <1>5, <4>1 DEF IsInjective
            <4>3. QED
                BY <2>1, <4>2
        <3>2. QED
            BY <1>1, <3>1 DEF IsInjective
    <2>3. h \notin ToSet(t)
        BY <1>1, <1>3, <1>5 DEF IsInjective, ToSet
    <2>4. QED
        BY <2>2, <2>3
<1>6. QED
    BY <1>1, <1>4, <1>5 DEF t, h

(* A list is finite. *)
LEMMA ListFinite ==
    ASSUME NEW S, NEW s \in Seq(S)
    PROVE  IsFiniteSet(ToSet(s)) /\ ToSet(s) \subseteq S
<1>1. Len(s) \in Nat /\ DOMAIN s = 1 .. Len(s) /\ s \in [1 .. Len(s) -> S]
    BY LenProperties
<1>2. IsFiniteSet(1 .. Len(s))
    BY <1>1, FS_Interval
<1>3. s \in Surjection(1 .. Len(s), ToSet(s))
    BY <1>1 DEF ToSet, Surjection
<1>4. IsFiniteSet(ToSet(s))
    BY <1>2, <1>3, FS_Surjection
<1>5. QED
    BY <1>1, <1>4 DEF ToSet
-----------------------------------------------------------------------------
(* Types.                                                                  *)

Channels == Runners \X (Nat \ {0})

(* A notify() holds channels only while it closes them. *)
TakenWhileClosing ==
    /\ \A p \in Posts : post[p] # "closing" => taken[p] = <<>>
    /\ reaper # "closing" => taken[Reaper] = <<>>

LocalTypeOK ==
    /\ sha \in [Posts -> Nat] /\ yaml \in [Posts -> Nat]
    /\ left \in [Posts -> SUBSET Rows]
    /\ run \in [Posts -> [sha : Nat, yaml : Nat] \cup {NoRun}]
    /\ slots \in [Runners -> Nat]
    /\ job \in [Runners -> Rows \cup {NoRow}]
    /\ ch \in [Runners -> Nat]

QueueTypeOK ==
    /\ subs \in Seq(Channels)
    /\ taken \in [Notifiers -> Seq(Channels)]

TypeInv == TypeOK /\ LocalTypeOK /\ QueueTypeOK /\ TakenWhileClosing

(* The name NewChannel gives to a channel is not in use: there are more    *)
(* names than pending channels.                                            *)
LEMMA NewIsNew ==
    ASSUME QueueTypeOK, NEW r \in Runners
    PROVE  NewChannel(r) \in Nat \ {0} /\ <<r, NewChannel(r)>> \notin Pending
<1>1. IsFiniteSet(Notifiers)
    BY WakeupConstants, FS_Singleton, FS_Union DEF Notifiers
<1> DEFINE Lists == {ToSet(taken[n]) : n \in Notifiers}
           f == [n \in Notifiers |-> ToSet(taken[n])]
<1>2. IsFiniteSet(Lists)
    <2>1. f \in Surjection(Notifiers, Lists)
        BY DEF Surjection
    <2>2. QED
        BY <1>1, <2>1, FS_Surjection
<1>3. \A L \in Lists : IsFiniteSet(L)
    BY ListFinite DEF QueueTypeOK
<1>4. IsFiniteSet(UNION Lists) /\ IsFiniteSet(ToSet(subs))
    BY <1>2, <1>3, FS_UNION, ListFinite DEF QueueTypeOK
<1>5. IsFiniteSet(Pending)
    BY <1>4, FS_Union DEF Pending
<1> DEFINE C == Cardinality(Pending)
<1>6. C \in Nat
    BY <1>5, FS_CardinalityType
<1>7. \E k \in 1 .. C + 1 : <<r, k>> \notin Pending
    <2> SUFFICES ASSUME \A k \in 1 .. C + 1 : <<r, k>> \in Pending
                 PROVE  FALSE
        OBVIOUS
    <2> DEFINE g == [k \in 1 .. C + 1 |-> <<r, k>>]
    <2>1. g \in [1 .. C + 1 -> Pending]
        OBVIOUS
    <2>2. IsFiniteSet(1 .. C + 1) /\ Cardinality(1 .. C + 1) = C + 1
        BY <1>6, FS_Interval
    <2>3. Cardinality(Pending) < Cardinality(1 .. C + 1)
        BY <1>6, <2>2
    <2> HIDE DEF C, g
    <2>4. \E x, y \in 1 .. C + 1 : x # y /\ g[x] = g[y]
        BY <1>5, <2>1, <2>2, <2>3, FS_PigeonHole
    <2>5. QED
        BY <2>4 DEF g
<1>8. NewChannel(r) \in 1 .. C + 1 /\ <<r, NewChannel(r)>> \notin Pending
    BY <1>7 DEF NewChannel
<1>9. QED
    BY <1>6, <1>8

(* The start: no handler runs and no channel exists. *)
LEMMA TypeInit == Init => TypeInv
<1> SUFFICES ASSUME Init PROVE TypeInv
    OBVIOUS
<1>1. TypeOK
    BY WakeupConstants DEF Init, TypeOK
<1>2. LocalTypeOK
    BY DEF Init, LocalTypeOK
<1>3. QueueTypeOK /\ TakenWhileClosing
    BY DEF Init, QueueTypeOK, TakenWhileClosing, Notifiers
<1>4. QED
    BY <1>1, <1>2, <1>3 DEF TypeInv

(* Every step of every handler keeps the types. *)
LEMMA TypeNext == TypeInv /\ [Next]_vars => TypeInv'
<1> SUFFICES ASSUME TypeInv, [Next]_vars PROVE TypeInv'
    OBVIOUS
<1> USE DEF TypeInv, postVars, streamVars, queueVars
<1>1. ASSUME Push PROVE TypeInv'
    BY <1>1, WakeupConstants
    DEF Push, TypeOK, LocalTypeOK, QueueTypeOK, TakenWhileClosing
<1>2. ASSUME NEW p \in Posts,
             \/ Validate(p) \/ ResolveRef(p) \/ FetchWorkflow(p) \/ UpstreamError(p)
             \/ CreateRun(p) \/ CreateJob(p) \/ Created(p)
      PROVE  TypeInv'
    <2>1. CASE Validate(p)
        <3>1. TypeOK'
            BY <1>2, <2>1 DEF Validate, Goto, Answer, TypeOK
        <3>2. LocalTypeOK'
            BY <1>2, <2>1 DEF Validate, Goto, Answer, TypeOK, LocalTypeOK
        <3>3. QueueTypeOK' /\ TakenWhileClosing'
            BY <1>2, <2>1 DEF Validate, Goto, Answer, TypeOK, QueueTypeOK, TakenWhileClosing
        <3>4. QED
            BY <3>1, <3>2, <3>3
    <2>2. CASE ResolveRef(p) \/ FetchWorkflow(p)
        <3>1. TypeOK'
            BY <1>2, <2>2, WakeupConstants DEF ResolveRef, FetchWorkflow, Goto, TypeOK
        <3>2. LocalTypeOK'
            BY <1>2, <2>2, WakeupConstants DEF ResolveRef, FetchWorkflow, Goto, TypeOK, LocalTypeOK
        <3>3. QueueTypeOK' /\ TakenWhileClosing'
            BY <1>2, <2>2 DEF ResolveRef, FetchWorkflow, Goto, TypeOK, QueueTypeOK, TakenWhileClosing
        <3>4. QED
            BY <3>1, <3>2, <3>3
    <2>3. CASE UpstreamError(p)
        <3>1. TypeOK'
            BY <1>2, <2>3 DEF UpstreamError, Goto, Answer, TypeOK
        <3>2. LocalTypeOK'
            BY <1>2, <2>3 DEF UpstreamError, Goto, Answer, TypeOK, LocalTypeOK
        <3>3. QueueTypeOK' /\ TakenWhileClosing'
            BY <1>2, <2>3 DEF UpstreamError, Goto, Answer, TypeOK, QueueTypeOK, TakenWhileClosing
        <3>4. QED
            BY <3>1, <3>2, <3>3
    <2>4. CASE CreateRun(p)
        BY <1>2, <2>4, WakeupConstants
        DEF CreateRun, Goto, TypeOK, LocalTypeOK, QueueTypeOK, TakenWhileClosing
    <2>5. CASE CreateJob(p)
        BY <1>2, <2>5 DEF CreateJob, Goto, TypeOK, LocalTypeOK, QueueTypeOK,
                          TakenWhileClosing
    <2>6. CASE Created(p)
        BY <1>2, <2>6 DEF Created, Goto, Answer, TypeOK, LocalTypeOK, QueueTypeOK,
                          TakenWhileClosing
    <2>7. QED
        BY <1>2, <2>1, <2>2, <2>3, <2>4, <2>5, <2>6
<1>3. ASSUME NEW p \in Posts, Notify(p) \/ NotifyClose(p) PROVE TypeInv'
    <2>1. p \in Notifiers /\ p # Reaper
        BY WakeupConstants DEF Notifiers
    <2>2. TypeOK' /\ LocalTypeOK'
        BY <1>3 DEF Notify, NotifyClose, Goto, TypeOK, LocalTypeOK
    <2>3. CASE Notify(p)
        BY <2>1, <2>2, <2>3, EmptySeq
        DEF Notify, Take, Goto, QueueTypeOK, TakenWhileClosing, TypeOK
    <2>4. CASE NotifyClose(p)
        <3>1. Tail(taken[p]) \in Seq(Channels)
            BY <2>1, <2>4, TailOfList DEF NotifyClose, Close, QueueTypeOK
        <3>2. QED
            BY <2>1, <2>2, <2>4, <3>1
            DEF NotifyClose, Close, QueueTypeOK, TakenWhileClosing
    <2>5. QED
        BY <1>3, <2>2, <2>3, <2>4
<1>4. ASSUME RequeueExpired PROVE TypeInv'
    BY <1>4 DEF RequeueExpired, TypeOK, LocalTypeOK, QueueTypeOK, TakenWhileClosing
<1>5. ASSUME ReaperNotify \/ ReaperClose PROVE TypeInv'
    <2>1. Reaper \in Notifiers /\ \A p \in Posts : p \in Notifiers /\ p # Reaper
        BY WakeupConstants DEF Notifiers
    <2>2. TypeOK' /\ LocalTypeOK'
        BY <1>5 DEF ReaperNotify, ReaperClose, TypeOK, LocalTypeOK
    <2>3. CASE ReaperNotify
        BY <2>1, <2>2, <2>3, EmptySeq
        DEF ReaperNotify, Take, QueueTypeOK, TakenWhileClosing, TypeOK
    <2>4. CASE ReaperClose
        <3>1. CASE Close(Reaper) /\ UNCHANGED reaper
            <4>1. Tail(taken[Reaper]) \in Seq(Channels)
                BY <2>1, <3>1, TailOfList DEF Close, QueueTypeOK
            <4>2. QED
                BY <2>1, <2>2, <2>4, <3>1, <4>1
                DEF ReaperClose, Close, QueueTypeOK, TakenWhileClosing
        <3>2. CASE taken[Reaper] = <<>> /\ UNCHANGED taken
            BY <2>1, <2>2, <2>4, <3>2 DEF ReaperClose, QueueTypeOK, TakenWhileClosing
        <3>3. QED
            BY <2>4, <3>1, <3>2 DEF ReaperClose
    <2>5. QED
        BY <1>5, <2>2, <2>3, <2>4
<1>6. ASSUME NEW r \in Runners,
             \/ Connect(r) \/ Disconnect(r) \/ Scan(r) \/ Woken(r) \/ Backstop(r)
             \/ Send(r) \/ StreamEnds(r)
      PROVE  TypeInv'
    <2>1. CASE Connect(r)
        BY <2>1, WakeupConstants
        DEF Connect, TypeOK, LocalTypeOK, QueueTypeOK, TakenWhileClosing
    <2>2. CASE Disconnect(r)
        BY <2>2 DEF Disconnect, TypeOK, LocalTypeOK, QueueTypeOK, TakenWhileClosing
    <2>3. CASE Scan(r)
        <3>1. TypeOK'
            <4>1. ASSUME NEW j \in Rows,
                         row' = [row EXCEPT ![j] = "leased"],
                         job' = [job EXCEPT ![r] = j],
                         stream' = [stream EXCEPT ![r] = "send"]
                  PROVE  TypeOK'
                BY <2>3, <4>1, WakeupConstants DEF Scan, TypeOK, LocalTypeOK
            <4>2. CASE stream' = [stream EXCEPT ![r] = "wait"] /\ UNCHANGED <<row, job>>
                BY <2>3, <4>2 DEF Scan, TypeOK, LocalTypeOK
            <4>3. QED
                BY <2>3, <4>1, <4>2 DEF Scan
        <3>2. LocalTypeOK'
            BY <2>3, WakeupConstants DEF Scan, TypeOK, LocalTypeOK
        <3>3. QueueTypeOK' /\ TakenWhileClosing'
            BY <2>3 DEF Scan, TypeOK, QueueTypeOK, TakenWhileClosing
        <3>4. QED
            BY <3>1, <3>2, <3>3
    <2>4. CASE Woken(r) \/ Backstop(r)
        <3>1. TypeOK'
            BY <2>4 DEF Woken, Backstop, LeaveSelect, DropChannel, TypeOK, LocalTypeOK
        <3>2. LocalTypeOK'
            BY <2>4 DEF Woken, Backstop, LeaveSelect, DropChannel, TypeOK, LocalTypeOK
        <3>3. QueueTypeOK' /\ TakenWhileClosing'
            BY <2>4 DEF Woken, Backstop, LeaveSelect, QueueTypeOK, TakenWhileClosing
        <3>4. QED
            BY <3>1, <3>2, <3>3
    <2>5. CASE Send(r)
        <3>1. TypeOK'
            <4>1. stream[r] = "send" /\ job[r] \in Rows /\ ch[r] = 0
                BY <2>5 DEF Send, TypeOK, LocalTypeOK
            <4>2. row' \in [Rows -> {"none", "queued", "leased", "sent"}]
                BY <2>5, <4>1 DEF Send, TypeOK
            <4>3. job' = [job EXCEPT ![r] = NoRow] /\ ch' = ch
                BY <2>5 DEF Send
            <4>4. CASE slots[r] = 1 /\ Return(r)
                BY <2>5, <4>1, <4>2, <4>3, <4>4 DEF Send, Return, TypeOK, LocalTypeOK
            <4>5. CASE /\ slots[r] > 1
                       /\ slots' = [slots EXCEPT ![r] = @ - 1]
                       /\ stream' = [stream EXCEPT ![r] = "scan"]
                <5>1. slots[r] \in 1 .. FreeSlots /\ slots[r] - 1 \in 1 .. FreeSlots
                    BY <4>1, <4>5, WakeupConstants DEF TypeOK
                <5>2. QED
                    BY <2>5, <4>1, <4>2, <4>3, <4>5, <5>1 DEF Send, TypeOK, LocalTypeOK
            <4>6. QED
                BY <2>5, <4>4, <4>5 DEF Send
        <3>2. LocalTypeOK'
            BY <2>5, WakeupConstants DEF Send, Return, TypeOK, LocalTypeOK
        <3>3. QueueTypeOK' /\ TakenWhileClosing'
            BY <2>5 DEF Send, Return, TypeOK, QueueTypeOK, TakenWhileClosing
        <3>4. QED
            BY <3>1, <3>2, <3>3
    <2>6. CASE StreamEnds(r)
        BY <2>6 DEF StreamEnds, Return, DropChannel, TypeOK, LocalTypeOK, QueueTypeOK,
                    TakenWhileClosing
    <2>7. QED
        BY <1>6, <2>1, <2>2, <2>3, <2>4, <2>5, <2>6
<1>7. ASSUME NEW r \in Runners, Wait(r) PROVE TypeInv'
    <2>1. NewChannel(r) \in Nat \ {0}
        BY NewIsNew
    <2>2. <<r, NewChannel(r)>> \in Channels
        BY <2>1 DEF Channels
    <2>3. TypeOK' /\ LocalTypeOK' /\ TakenWhileClosing'
        <3>1. TypeOK'
            BY <1>7, <2>1 DEF Wait, TypeOK, LocalTypeOK
        <3>2. LocalTypeOK'
            BY <1>7, <2>1 DEF Wait, LocalTypeOK
        <3>3. TakenWhileClosing'
            BY <1>7 DEF Wait, TakenWhileClosing, postVars
        <3>4. QED
            BY <3>1, <3>2, <3>3
    <2>4. QueueTypeOK'
        BY <1>7, <2>2, AppendProperties DEF Wait, QueueTypeOK
    <2>5. QED
        BY <2>3, <2>4
<1>8. CASE UNCHANGED vars
    BY <1>8 DEF vars, TypeOK, LocalTypeOK, QueueTypeOK, TakenWhileClosing
<1>9. QED
    BY <1>1, <1>2, <1>3, <1>4, <1>5, <1>6, <1>7, <1>8 DEF Next, StreamStep

(* Every handler's state keeps its type; a stream has slots while it is    *)
(* open, a row while it sends and a channel while it waits.                *)
THEOREM TypeCorrect == Spec => []TypeOK
<1>1. TypeInv => TypeOK
    BY DEF TypeInv
<1>2. QED
    BY <1>1, TypeInit, TypeNext, PTL DEF Spec
-----------------------------------------------------------------------------
(* The notifier.  A closed channel is the one a select still holds, so the *)
(* name of a channel nobody refers to may be used again.                   *)

Selecting == {r \in Runners : stream[r] = "select"}

ClosedIsHeld == closed \subseteq {<<r, ch[r]>> : r \in Selecting}

WakeInv == TypeInv /\ ClosedIsHeld /\ ClosedOnce /\ NoWaiterForgotten

(* A list that notify() takes over whole, under the lock. *)
TakeStep(n) ==
    /\ taken[n] = <<>>
    /\ Take(n)
    /\ UNCHANGED <<closed, ch, stream>>

CloseStep(n) == Close(n) /\ UNCHANGED <<subs, ch, stream>>

DropStep(r) ==
    /\ DropChannel(r)
    /\ \E pc : pc # "select" /\ stream' = [stream EXCEPT ![r] = pc]
    /\ UNCHANGED <<subs, taken>>

(* No other step touches the notifier or who waits for it. *)
LEMMA QueueShapes ==
    ASSUME TypeInv, [Next]_vars
    PROVE  \/ UNCHANGED <<subs, taken, closed, ch>> /\ Selecting' = Selecting
           \/ \E n \in Notifiers : TakeStep(n) \/ CloseStep(n)
           \/ \E r \in Runners : Wait(r) \/ DropStep(r)
<1> DEFINE Quiet == UNCHANGED <<subs, taken, closed, ch>> /\ Selecting' = Selecting
<1>1. stream \in [Runners -> {"closed", "scan", "wait", "select", "send"}]
    BY DEF TypeInv, TypeOK
<1>2. ASSUME NEW p \in Posts,
             \/ Validate(p) \/ ResolveRef(p) \/ FetchWorkflow(p) \/ UpstreamError(p)
             \/ CreateRun(p) \/ CreateJob(p) \/ Created(p)
      PROVE  UNCHANGED <<queueVars, streamVars>>
    BY <1>2 DEF Validate, ResolveRef, FetchWorkflow, UpstreamError, CreateRun,
                CreateJob, Created
<1>3. ASSUME NEW p \in Posts, Notify(p) \/ NotifyClose(p)
      PROVE  p \in Notifiers /\ (TakeStep(p) \/ CloseStep(p))
    BY <1>3 DEF Notify, NotifyClose, TakeStep, CloseStep, TypeInv, TakenWhileClosing,
                streamVars, Notifiers
<1>4. ASSUME ReaperNotify \/ ReaperClose
      PROVE  Quiet \/ TakeStep(Reaper) \/ CloseStep(Reaper)
    BY <1>4 DEF ReaperNotify, ReaperClose, TakeStep, CloseStep, TypeInv,
                TakenWhileClosing, streamVars, Selecting
<1>5. ASSUME NEW r \in Runners, NEW pc, pc # "select", stream[r] # "select",
             stream' = [stream EXCEPT ![r] = pc]
      PROVE  Selecting' = Selecting
    BY <1>1, <1>5 DEF Selecting
<1>6. ASSUME NEW r \in Runners, Connect(r) \/ Disconnect(r) \/ Scan(r) \/ Send(r)
      PROVE  Quiet
    <2>1. UNCHANGED <<subs, taken, closed, ch>>
        BY <1>6 DEF Connect, Disconnect, Scan, Send, queueVars
    <2>2. CASE Disconnect(r)
        BY <2>1, <2>2 DEF Disconnect, Selecting
    <2>3. CASE Connect(r)
        BY <1>5, <2>1, <2>3 DEF Connect
    <2>4. CASE Scan(r)
        BY <1>5, <2>1, <2>4 DEF Scan
    <2>5. CASE Send(r)
        BY <1>5, <2>1, <2>5 DEF Send, Return
    <2>6. QED
        BY <1>6, <2>2, <2>3, <2>4, <2>5
<1>7. ASSUME NEW r \in Runners, Woken(r) \/ Backstop(r) \/ StreamEnds(r)
      PROVE  DropStep(r)
    BY <1>7 DEF Woken, Backstop, LeaveSelect, StreamEnds, Return, DropStep
<1>8. ASSUME Push \/ RequeueExpired PROVE UNCHANGED <<subs, taken, closed, streamVars>>
    BY <1>8 DEF Push, RequeueExpired, queueVars
<1>9. CASE UNCHANGED vars
    BY <1>9 DEF vars, queueVars, streamVars, Selecting
<1>10. Reaper \in Notifiers
    BY DEF Notifiers
<1>11. ASSUME Next PROVE Quiet \/ (\E n \in Notifiers : TakeStep(n) \/ CloseStep(n))
                             \/ (\E r \in Runners : Wait(r) \/ DropStep(r))
    BY <1>2, <1>3, <1>4, <1>6, <1>7, <1>8, <1>10, <1>11
    DEF Next, StreamStep, queueVars, streamVars, Selecting
<1>12. QED
    BY <1>9, <1>11

(* The channels that will be closed, list by list. *)
LEMMA PendingIs ==
    ASSUME NEW c
    PROVE  c \in Pending
               <=> c \in ToSet(subs) \/ \E n \in Notifiers : c \in ToSet(taken[n])
BY DEF Pending

(* notify(), under the lock: the channels change hands. *)
LEMMA TakeKeeps ==
    ASSUME WakeInv, NEW n \in Notifiers, TakeStep(n)
    PROVE  ClosedIsHeld' /\ ClosedOnce' /\ NoWaiterForgotten'
<1>1. /\ taken \in [Notifiers -> Seq(Channels)]
      /\ taken' = [taken EXCEPT ![n] = subs] /\ subs' = <<>>
      /\ taken[n] = <<>>
      /\ UNCHANGED <<closed, ch, stream>>
    BY DEF TakeStep, Take, WakeInv, TypeInv, QueueTypeOK
<1>2. taken'[n] = subs /\ \A m \in Notifiers \ {n} : taken'[m] = taken[m]
    BY <1>1
<1>3. ToSet(subs') = {} /\ IsInjective(subs') /\ ToSet(taken[n]) = {}
    BY <1>1, EmptyList
<1>4. Pending' = Pending
    <2>1. ASSUME NEW c PROVE c \in Pending' <=> c \in Pending
        <3>1. c \in Pending' <=> \/ c \in ToSet(subs')
                                 \/ \E m \in Notifiers : c \in ToSet(taken'[m])
            BY DEF Pending
        <3>2. QED
            BY <1>2, <1>3, <3>1, PendingIs
    <2>2. QED
        BY <2>1
<1>5. ClosedOnce'
    BY <1>1, <1>2, <1>3, <1>4 DEF WakeInv, ClosedOnce
<1>6. ClosedIsHeld' /\ NoWaiterForgotten'
    BY <1>1, <1>4 DEF WakeInv, ClosedIsHeld, NoWaiterForgotten, Selecting
<1>7. QED
    BY <1>5, <1>6

(* notify(), after the lock: a channel is closed and is in no list then. *)
LEMMA CloseKeeps ==
    ASSUME WakeInv, NEW n \in Notifiers, CloseStep(n)
    PROVE  ClosedIsHeld' /\ ClosedOnce' /\ NoWaiterForgotten'
<1> DEFINE h == Head(taken[n])
<1>1. /\ taken \in [Notifiers -> Seq(Channels)] /\ taken[n] # <<>>
      /\ taken' = [taken EXCEPT ![n] = Tail(@)]
      /\ closed' = closed \cup ({h} \cap Held)
      /\ UNCHANGED <<subs, ch, stream>>
    BY DEF CloseStep, Close, WakeInv, TypeInv, QueueTypeOK
<1>2. taken'[n] = Tail(taken[n]) /\ \A m \in Notifiers \ {n} : taken'[m] = taken[m]
    BY <1>1
<1>3. /\ h \in Channels
      /\ ToSet(taken[n]) = {h} \cup ToSet(taken'[n])
      /\ h \notin ToSet(taken'[n]) /\ IsInjective(taken'[n])
    BY <1>1, <1>2, TailOfList DEF WakeInv, ClosedOnce
<1> HIDE DEF h
<1>4. h \notin ToSet(subs) /\ \A m \in Notifiers \ {n} : h \notin ToSet(taken[m])
    BY <1>3 DEF WakeInv, ClosedOnce
<1>5. Pending' = Pending \ {h}
    <2>1. ASSUME NEW c PROVE c \in Pending' <=> c \in Pending /\ c # h
        <3>1. c \in Pending' <=> \/ c \in ToSet(subs')
                                 \/ \E m \in Notifiers : c \in ToSet(taken'[m])
            BY DEF Pending
        <3>2. QED
            BY <1>1, <1>2, <1>3, <1>4, <3>1, PendingIs
    <2>2. QED
        BY <2>1
<1>6. ClosedOnce'
    BY <1>1, <1>2, <1>3, <1>4, <1>5 DEF WakeInv, ClosedOnce
<1>7. ClosedIsHeld'
    <2>1. ASSUME h \in Held PROVE h \in {<<r, ch[r]>> : r \in Selecting}
        <3>1. PICK r \in Runners : h = <<r, ch[r]>>
            BY <2>1 DEF Held
        <3>2. ch[r] \in Nat \ {0}
            BY <1>3, <3>1 DEF Channels
        <3>3. stream[r] = "select"
            BY <3>2 DEF WakeInv, TypeInv, TypeOK
        <3>4. QED
            BY <3>1, <3>3 DEF Selecting
    <2>2. QED
        BY <1>1, <2>1 DEF WakeInv, ClosedIsHeld, Selecting
<1>8. NoWaiterForgotten'
    BY <1>1, <1>5 DEF WakeInv, NoWaiterForgotten, Held
<1>9. QED
    BY <1>6, <1>7, <1>8

(* wait(): the new channel is in one list and is open. *)
LEMMA WaitKeeps ==
    ASSUME WakeInv, NEW r \in Runners, Wait(r)
    PROVE  ClosedIsHeld' /\ ClosedOnce' /\ NoWaiterForgotten'
<1> DEFINE c == <<r, NewChannel(r)>>
<1>1. c \in Channels /\ c \notin Pending
    BY NewIsNew DEF WakeInv, TypeInv, Channels
<1>2. /\ subs \in Seq(Channels) /\ stream[r] = "wait"
      /\ stream \in [Runners -> {"closed", "scan", "wait", "select", "send"}]
      /\ ch \in [Runners -> Nat]
      /\ ch' = [ch EXCEPT ![r] = NewChannel(r)]
      /\ stream' = [stream EXCEPT ![r] = "select"]
      /\ subs' = Append(subs, c)
      /\ UNCHANGED <<taken, closed>>
    BY DEF Wait, WakeInv, TypeInv, QueueTypeOK, TypeOK, LocalTypeOK
<1>3. <<r, ch'[r]>> = c
    BY <1>2
<1> HIDE DEF c
<1>4. c \notin ToSet(subs) /\ \A n \in Notifiers : c \notin ToSet(taken[n])
    BY <1>1, PendingIs
<1>5. ToSet(subs') = ToSet(subs) \cup {c} /\ IsInjective(subs')
    BY <1>1, <1>2, <1>4, AppendList DEF WakeInv, ClosedOnce
<1>6. Pending' = Pending \cup {c}
    BY <1>2, <1>5 DEF Pending
<1>7. \A d \in closed : \E q \in Runners \ {r} : stream[q] = "select" /\ d = <<q, ch[q]>>
    BY <1>2 DEF WakeInv, ClosedIsHeld, Selecting
<1>8. c \notin closed
    BY <1>7 DEF c
<1>9. ClosedOnce'
    BY <1>2, <1>4, <1>5, <1>6, <1>8 DEF WakeInv, ClosedOnce
<1>10. ClosedIsHeld'
    <2> SUFFICES ASSUME NEW d \in closed
                 PROVE  \E q \in Runners : stream'[q] = "select" /\ d = <<q, ch'[q]>>
        BY <1>2 DEF ClosedIsHeld, Selecting
    <2>1. QED
        BY <1>2, <1>7
<1>11. NoWaiterForgotten'
    <2> SUFFICES ASSUME NEW q \in Runners, stream'[q] = "select"
                 PROVE  <<q, ch'[q]>> \in Pending' \cup closed'
        BY DEF NoWaiterForgotten
    <2>1. CASE q = r
        BY <1>3, <1>6, <2>1
    <2>2. CASE q # r
        BY <1>2, <1>6, <2>2 DEF WakeInv, NoWaiterForgotten
    <2>3. QED
        BY <2>1, <2>2
<1>12. QED
    BY <1>9, <1>10, <1>11

(* A select that ends forgets its channel, which may stay in a list. *)
LEMMA DropKeeps ==
    ASSUME WakeInv, NEW r \in Runners, DropStep(r)
    PROVE  ClosedIsHeld' /\ ClosedOnce' /\ NoWaiterForgotten'
<1>1. /\ stream \in [Runners -> {"closed", "scan", "wait", "select", "send"}]
      /\ ch \in [Runners -> Nat]
      /\ ch' = [ch EXCEPT ![r] = 0]
      /\ closed' = closed \ {<<r, ch[r]>>}
      /\ UNCHANGED <<subs, taken>>
    BY DEF DropStep, DropChannel, WakeInv, TypeInv, TypeOK, LocalTypeOK
<1>2. stream'[r] # "select" /\ \A q \in Runners \ {r} : stream'[q] = stream[q]
    BY <1>1 DEF DropStep
<1>3. \A q \in Runners \ {r} : ch'[q] = ch[q]
    BY <1>1
<1>4. Pending' = Pending
    BY <1>1 DEF Pending
<1>5. ClosedOnce'
    BY <1>1, <1>4 DEF WakeInv, ClosedOnce
<1>6. ClosedIsHeld'
    <2> SUFFICES ASSUME NEW d \in closed'
                 PROVE  \E q \in Runners : stream'[q] = "select" /\ d = <<q, ch'[q]>>
        BY DEF ClosedIsHeld, Selecting
    <2>1. PICK q \in Runners : stream[q] = "select" /\ d = <<q, ch[q]>>
        BY <1>1 DEF WakeInv, ClosedIsHeld, Selecting
    <2>2. q # r
        BY <1>1, <2>1
    <2>3. QED
        BY <1>2, <1>3, <2>1, <2>2
<1>7. NoWaiterForgotten'
    <2> SUFFICES ASSUME NEW q \in Runners, stream'[q] = "select"
                 PROVE  <<q, ch'[q]>> \in Pending' \cup closed'
        BY DEF NoWaiterForgotten
    <2>1. q # r
        BY <1>2
    <2>2. <<q, ch[q]>> \in Pending \cup closed /\ <<q, ch[q]>> # <<r, ch[r]>>
        BY <1>2, <2>1 DEF WakeInv, NoWaiterForgotten
    <2>3. QED
        BY <1>1, <1>3, <1>4, <2>1, <2>2
<1>8. QED
    BY <1>5, <1>6, <1>7

(* Every step keeps the lists disjoint and the waiters in them. *)
LEMMA WakeNext == WakeInv /\ [Next]_vars => WakeInv'
<1> SUFFICES ASSUME WakeInv, [Next]_vars PROVE WakeInv'
    OBVIOUS
<1>1. TypeInv /\ TypeInv'
    BY TypeNext DEF WakeInv
<1>2. CASE UNCHANGED <<subs, taken, closed, ch>> /\ Selecting' = Selecting
    <2>1. Pending' = Pending
        BY <1>2 DEF Pending
    <2>2. ClosedOnce' /\ ClosedIsHeld'
        BY <1>2, <2>1 DEF WakeInv, ClosedOnce, ClosedIsHeld
    <2>3. \A r \in Runners : stream'[r] = "select" <=> stream[r] = "select"
        BY <1>2 DEF Selecting
    <2>4. NoWaiterForgotten'
        BY <1>2, <2>1, <2>3 DEF WakeInv, NoWaiterForgotten
    <2>5. QED
        BY <1>1, <2>2, <2>4 DEF WakeInv
<1>3. ASSUME NEW n \in Notifiers, TakeStep(n) \/ CloseStep(n) PROVE WakeInv'
    BY <1>1, <1>3, TakeKeeps, CloseKeeps DEF WakeInv
<1>4. ASSUME NEW r \in Runners, Wait(r) \/ DropStep(r) PROVE WakeInv'
    BY <1>1, <1>4, WaitKeeps, DropKeeps DEF WakeInv
<1>5. QED
    BY <1>1, <1>2, <1>3, <1>4, QueueShapes

(* The start: nobody waits. *)
LEMMA WakeInit == Init => WakeInv
<1> SUFFICES ASSUME Init PROVE WakeInv
    OBVIOUS
<1>1. ClosedIsHeld /\ NoWaiterForgotten
    BY DEF Init, ClosedIsHeld, NoWaiterForgotten
<1>2. ClosedOnce
    BY EmptyList DEF Init, ClosedOnce
<1>3. QED
    BY <1>1, <1>2, TypeInit DEF WakeInv

(* No channel is closed twice, so notify() never panics, however many      *)
(* handlers and the reaper notify at the same time.                        *)
THEOREM NeverClosedTwice == Spec => []ClosedOnce
<1>1. WakeInv => ClosedOnce
    BY DEF WakeInv
<1>2. QED
    BY <1>1, WakeInit, WakeNext, PTL DEF Spec

(* A stream in its select is woken by the next notify(), or has been. *)
THEOREM WaitersKept == Spec => []NoWaiterForgotten
<1>1. WakeInv => NoWaiterForgotten
    BY DEF WakeInv
<1>2. QED
    BY <1>1, WakeInit, WakeNext, PTL DEF Spec
-----------------------------------------------------------------------------
(* POST /api/runs.  Whatever can still be answered 400 has written         *)
(* nothing, and Notify is reached with all rows inserted; the rows belong  *)
(* to this request alone.                                                  *)

PostInv(p) ==
    /\ left[p] \subseteq RowsOf[p]
    /\ post[p] \in {"new", "resolve", "fetch", "create", "bad"}
           => run[p] = NoRun /\ \A j \in RowsOf[p] : row[j] = "none"
    /\ post[p] = "create" => yaml[p] = sha[p]
    /\ post[p] = "rows" => \A j \in RowsOf[p] : row[j] = "none" => j \in left[p]
    /\ post[p] \in {"notify", "closing", "created"}
           => \A j \in RowsOf[p] : row[j] # "none"
    /\ run[p] # NoRun => run[p].yaml = run[p].sha

PlanInv == TypeInv /\ \A p \in Posts : PostInv(p)

(* A step that is not of request p nor inserts a row of p. *)
LEMMA OthersKeep ==
    ASSUME NEW p \in Posts, PostInv(p),
           post'[p] = post[p], sha'[p] = sha[p], yaml'[p] = yaml[p],
           left'[p] = left[p], run'[p] = run[p],
           \A j \in RowsOf[p] : row'[j] = "none" <=> row[j] = "none"
    PROVE  PostInv(p)'
BY DEF PostInv

(* A step of request p, which touches no row but its own. *)
PostStep(p) ==
    \/ Validate(p) \/ ResolveRef(p) \/ FetchWorkflow(p) \/ UpstreamError(p)
    \/ CreateRun(p) \/ CreateJob(p) \/ Notify(p) \/ NotifyClose(p) \/ Created(p)

(* A request leaves what the others have planned and hold alone. *)
LEMMA PostStepLocal ==
    ASSUME PlanInv, NEW p \in Posts, PostStep(p), NEW q \in Posts, q # p
    PROVE  PostInv(q)'
<1>1. /\ post \in [Posts -> {"new", "resolve", "fetch", "create", "rows", "notify",
                             "closing", "created", "bad", "error"}]
      /\ LocalTypeOK
      /\ row \in [Rows -> {"none", "queued", "leased", "sent"}]
    BY DEF PlanInv, TypeInv, TypeOK
<1>2. /\ post'[q] = post[q] /\ sha'[q] = sha[q] /\ yaml'[q] = yaml[q]
      /\ left'[q] = left[q] /\ run'[q] = run[q]
    <2>1. CASE Validate(p) \/ ResolveRef(p) \/ FetchWorkflow(p)
        BY <1>1, <2>1 DEF Validate, ResolveRef, FetchWorkflow, Goto, Answer, LocalTypeOK
    <2>2. CASE UpstreamError(p)
        BY <1>1, <2>2 DEF UpstreamError, Goto, Answer, LocalTypeOK
    <2>3. CASE CreateRun(p) \/ CreateJob(p)
        BY <1>1, <2>3 DEF CreateRun, CreateJob, Goto, LocalTypeOK
    <2>4. CASE Notify(p) \/ NotifyClose(p) \/ Created(p)
        BY <1>1, <2>4 DEF Notify, NotifyClose, Created, Goto, Answer, LocalTypeOK, postVars
    <2>5. QED
        BY <2>1, <2>2, <2>3, <2>4 DEF PostStep
<1>3. UNCHANGED row \/ \E k \in left[p] : row' = [row EXCEPT ![k] = "queued"]
    BY DEF PostStep, Validate, ResolveRef, FetchWorkflow, UpstreamError, CreateRun,
           CreateJob, Notify, NotifyClose, Created
<1>4. \A k \in left[p] : k \notin RowsOf[q]
    BY WakeupConstants DEF PlanInv, PostInv
<1>5. \A j \in RowsOf[q] : row'[j] = row[j]
    BY <1>1, <1>3, <1>4, WakeupConstants
<1>6. QED
    BY <1>2, <1>5, OthersKeep DEF PlanInv

(* Rows that are there stay, and other handlers insert none. *)
LEMMA OtherRows ==
    ASSUME TypeInv,
           \/ Push \/ RequeueExpired \/ ReaperNotify \/ ReaperClose
           \/ \E r \in Runners : Connect(r) \/ Disconnect(r) \/ StreamStep(r)
           \/ UNCHANGED vars
    PROVE  /\ UNCHANGED postVars
           /\ \A j \in Rows : row'[j] = "none" <=> row[j] = "none"
<1>1. row \in [Rows -> {"none", "queued", "leased", "sent"}]
    BY DEF TypeInv, TypeOK
<1>2. CASE Push \/ ReaperNotify \/ ReaperClose \/ UNCHANGED vars
    BY <1>2 DEF Push, ReaperNotify, ReaperClose, vars
<1>3. CASE RequeueExpired
    BY <1>1, <1>3 DEF RequeueExpired
<1>4. ASSUME NEW r \in Runners, Connect(r) \/ Disconnect(r) \/ StreamStep(r)
      PROVE  /\ UNCHANGED postVars
             /\ \A j \in Rows : row'[j] = "none" <=> row[j] = "none"
    <2>1. CASE Scan(r)
        BY <1>1, <2>1 DEF Scan
    <2>2. CASE Send(r)
        BY <1>1, <2>2 DEF Send
    <2>3. CASE \/ Connect(r) \/ Disconnect(r) \/ Wait(r) \/ Woken(r) \/ Backstop(r)
               \/ StreamEnds(r)
        BY <2>3 DEF Connect, Disconnect, Wait, Woken, Backstop, LeaveSelect, StreamEnds
    <2>4. QED
        BY <1>4, <2>1, <2>2, <2>3 DEF StreamStep
<1>5. QED
    BY <1>2, <1>3, <1>4

(* A request keeps what PostInv says of it, step by step. *)
LEMMA PostStepKeeps ==
    ASSUME PlanInv, NEW p \in Posts, PostStep(p)
    PROVE  PostInv(p)'
<1>1. /\ post \in [Posts -> {"new", "resolve", "fetch", "create", "rows", "notify",
                             "closing", "created", "bad", "error"}]
      /\ LocalTypeOK
      /\ row \in [Rows -> {"none", "queued", "leased", "sent"}]
      /\ PostInv(p)
    BY DEF PlanInv, TypeInv, TypeOK
<1>2. RowsOf[p] \subseteq Rows
    BY WakeupConstants
<1> USE DEF PostInv, LocalTypeOK
<1>3. CASE Validate(p)
    BY <1>1, <1>3 DEF Validate, Goto, Answer
<1>4. CASE ResolveRef(p)
    BY <1>1, <1>4 DEF ResolveRef, Goto
<1>5. CASE FetchWorkflow(p)
    BY <1>1, <1>5 DEF FetchWorkflow, Goto
<1>6. CASE UpstreamError(p)
    BY <1>1, <1>2, <1>6 DEF UpstreamError, Goto, Answer
<1>7. CASE CreateRun(p)
    BY <1>1, <1>7 DEF CreateRun, Goto
<1>8. CASE CreateJob(p)
    <2>1. PICK k \in left[p] :
              /\ row' = [row EXCEPT ![k] = "queued"]
              /\ left' = [left EXCEPT ![p] = @ \ {k}]
              /\ post' = [post EXCEPT ![p] = IF left[p] = {k} THEN "notify" ELSE "rows"]
        BY <1>8 DEF CreateJob, Goto
    <2>2. post[p] = "rows" /\ UNCHANGED <<sha, yaml, run>>
        BY <1>8 DEF CreateJob
    <2>3. \A j \in RowsOf[p] : row'[j] = "none" => j \in left'[p]
        BY <1>1, <1>2, <2>1, <2>2
    <2>4. QED
        BY <1>1, <2>1, <2>2, <2>3
<1>9. CASE Notify(p) \/ NotifyClose(p)
    BY <1>1, <1>9 DEF Notify, NotifyClose, Goto, postVars
<1>10. CASE Created(p)
    BY <1>1, <1>10 DEF Created, Goto, Answer
<1>11. QED
    BY <1>3, <1>4, <1>5, <1>6, <1>7, <1>8, <1>9, <1>10 DEF PostStep

(* No step of a request, a stream, the reaper or a push disturbs PlanInv. *)
LEMMA PlanNext == PlanInv /\ [Next]_vars => PlanInv'
<1> SUFFICES ASSUME PlanInv, [Next]_vars PROVE PlanInv'
    OBVIOUS
<1>1. TypeInv /\ TypeInv'
    BY TypeNext DEF PlanInv
<1>2. ASSUME NEW p \in Posts, PostStep(p) PROVE PlanInv'
    <2>1. ASSUME NEW q \in Posts PROVE PostInv(q)'
        BY <1>2, PostStepKeeps, PostStepLocal
    <2>2. QED
        BY <1>1, <2>1 DEF PlanInv
<1>3. CASE \/ Push \/ RequeueExpired \/ ReaperNotify \/ ReaperClose
           \/ \E r \in Runners : Connect(r) \/ Disconnect(r) \/ StreamStep(r)
           \/ UNCHANGED vars
    <2>1. UNCHANGED postVars /\ \A j \in Rows : row'[j] = "none" <=> row[j] = "none"
        BY <1>1, <1>3, OtherRows
    <2>2. ASSUME NEW q \in Posts PROVE PostInv(q)'
        BY <2>1, OthersKeep, WakeupConstants DEF PlanInv, postVars
    <2>3. QED
        BY <1>1, <2>2 DEF PlanInv
<1>4. QED
    BY <1>2, <1>3 DEF Next, PostStep

(* No request has planned anything yet. *)
LEMMA PlanInit == Init => PlanInv
<1> SUFFICES ASSUME Init PROVE PlanInv
    OBVIOUS
<1>1. \A p \in Posts : PostInv(p)
    BY WakeupConstants DEF Init, PostInv
<1>2. QED
    BY <1>1, TypeInit DEF PlanInv

(* A run is planned from the workflow of the commit it records, wherever   *)
(* the branch moves meanwhile.                                             *)
THEOREM RunsMatchCommits == Spec => []RunMatchesCommit
<1>1. PlanInv => RunMatchesCommit
    BY DEF PlanInv, PostInv, RunMatchesCommit
<1>2. QED
    BY <1>1, PlanInit, PlanNext, PTL DEF Spec

(* 201 means that all rows were queued, 400 that nothing was written. *)
THEOREM AnswersTrue == Spec => []AnswerIsTrue
<1>1. PlanInv => AnswerIsTrue
    BY DEF PlanInv, PostInv, AnswerIsTrue
<1>2. QED
    BY <1>1, PlanInit, PlanNext, PTL DEF Spec
=============================================================================
