------------------------- MODULE JobLifecycleProofs -------------------------
(***************************************************************************)
(* The safety properties of JobLifecycle hold for every workflow.  The     *)
(* inductive invariant adds that rows are inserted after everything they   *)
(* need: otherwise a group that looks finished could still grow.           *)
(***************************************************************************)
EXTENDS JobLifecycle, WorkflowProofs

(* planner.Plan inserts stage by stage: an inserted row finds all the rows *)
(* it needs in the table.                                                  *)
NeedsInserted ==
    \A j \in Jobs : status[j] # "absent"
        => \A n \in NeedRows(j) : status[n] # "absent"

Inv == TypeOK /\ NeedsInserted /\ NeedsSafe /\ BlockedNeverRuns

(* Every legal move of a single row keeps the types and all other rows. *)
LEMMA MoveFacts ==
    ASSUME TypeOK, NEW j \in Jobs, NEW from \in Statuses, NEW to \in Statuses,
           Move(j, from, to)
    PROVE  /\ TypeOK'
           /\ status[j] = from
           /\ status'[j] = to
           /\ \A k \in Jobs : k # j => status'[k] = status[k]
BY DEF Move, TypeOK

(* The start: every row is absent or queued. *)
LEMMA InitInv == Init => Inv
<1> SUFFICES ASSUME Init PROVE Inv
    OBVIOUS
<1>1. TypeOK
    BY DEF Init, TypeOK, Statuses
<1>2. \A j \in Jobs : status[j] \in {"absent", "queued"}
    BY DEF Init
<1>3. NeedsInserted
    BY NeedRowsFacts DEF Init, NeedsInserted
<1>4. BlockedNeverRuns
    BY <1>2 DEF BlockedNeverRuns
<1>5. QED
    BY <1>1, <1>2, <1>3, <1>4 DEF Inv, NeedsSafe

(* The moves of one row, seen from the rows that need it and the rows it   *)
(* needs: what has to hold for the invariant to survive.                   *)
LEMMA MovePreserves ==
    ASSUME Inv, NEW j \in Jobs, NEW from \in Statuses, NEW to \in Statuses,
           Move(j, from, to),
           from \notin Terminal, to # "absent",
           \A n \in NeedRows(j) : status[n] # "absent",
           to # "queued" => \A n \in NeedRows(j) : status[n] \in Terminal,
           /\ j \notin IfOverride
           /\ \E n \in NeedRows(j) : status[n] \in TerminalNonSuccess
           => to \in {"queued", "skipped"}
    PROVE  Inv'
<1>1. /\ TypeOK'
      /\ status[j] = from
      /\ status'[j] = to
      /\ \A k \in Jobs : k # j => status'[k] = status[k]
    BY MoveFacts DEF Inv
<1>2. \A k \in Jobs : \A n \in NeedRows(k) : n \in Jobs
    BY NeedRowsFacts
<1>3. \A n \in NeedRows(j) : n # j
    BY NeedRowsFacts
<1>4. NeedsInserted'
    BY <1>1, <1>2, <1>3 DEF Inv, NeedsInserted
<1>5. NeedsSafe'
    <2> SUFFICES ASSUME NEW k \in Jobs, status'[k] \notin {"absent", "queued"},
                        NEW n \in NeedRows(k)
                 PROVE  status'[n] \in Terminal
        BY DEF NeedsSafe
    <2>1. CASE k = j
        BY <2>1, <1>1, <1>2, <1>3
    <2>2. CASE k # j
        BY <2>2, <1>1, <1>2 DEF Inv, NeedsSafe
    <2>3. QED
        BY <2>1, <2>2
<1>6. BlockedNeverRuns'
    <2> SUFFICES ASSUME NEW k \in Jobs \ IfOverride, NEW n \in NeedRows(k),
                        status'[n] \in TerminalNonSuccess
                 PROVE  status'[k] \in {"absent", "queued", "skipped"}
        BY DEF BlockedNeverRuns
    <2>1. CASE k = j
        BY <2>1, <1>1, <1>2, <1>3
    <2>2. CASE k # j /\ n # j
        BY <2>2, <1>1, <1>2 DEF Inv, BlockedNeverRuns
    <2>3. CASE k # j /\ n = j
        <3>1. status[j] \notin Terminal
            BY <1>1
        <3>2. status[k] \in {"absent", "queued"}
            BY <3>1, <2>3 DEF Inv, NeedsSafe
        <3>3. QED
            BY <3>2, <2>3, <1>1
    <2>4. QED
        BY <2>1, <2>2, <2>3
<1>7. QED
    BY <1>1, <1>4, <1>5, <1>6 DEF Inv

(* Every move of the lifecycle keeps the invariant. *)
LEMMA NextInv == Inv /\ [Next]_status => Inv'
<1> SUFFICES ASSUME Inv, [Next]_status PROVE Inv'
    OBVIOUS
<1> USE DEF Statuses, Terminal
<1>1. ASSUME NEW j \in Jobs, Plan(j) PROVE Inv'
    <2>1. \A n \in NeedRows(j) : status[n] # "absent"
        BY <1>1, NeedRowsFacts DEF Plan
    <2>2. Move(j, "absent", "queued")
        BY <1>1 DEF Plan
    <2>3. QED
        BY <2>1, <2>2, MovePreserves
<1>2. ASSUME NEW j \in Jobs, Lease(j) PROVE Inv'
    <2>1. Move(j, "queued", "leased") /\ status[j] = "queued"
        BY <1>2 DEF Lease, Move
    <2>2. \A n \in NeedRows(j) : status[n] # "absent"
        BY <2>1 DEF Inv, NeedsInserted
    <2>3. CASE Needs[j] = {}
        <3>1. NeedRows(j) = {}
            BY <2>3 DEF NeedRows
        <3>2. QED
            BY <2>1, <3>1, MovePreserves
    <2>4. CASE AllTerminal(j, status) /\ ~(AnyBlocking(j, status) /\ hasDefaultIfExpr(j))
        <3>1. \A n \in NeedRows(j) : status[n] \in Terminal
            BY <2>2, <2>4, AllTerminalRows
        <3>2. j \notin IfOverride
                => ~\E n \in NeedRows(j) : status[n] \in TerminalNonSuccess
            BY <2>4, AnyBlockingRows DEF hasDefaultIfExpr
        <3>3. QED
            BY <2>1, <2>2, <3>1, <3>2, MovePreserves
    <2>5. QED
        BY <1>2, <2>3, <2>4 DEF Lease, Leasable
<1>3. ASSUME NEW j \in Jobs, Skip(j) PROVE Inv'
    <2>1. Move(j, "queued", "skipped") /\ status[j] = "queued"
        BY <1>3 DEF Skip, Move
    <2>2. \A n \in NeedRows(j) : status[n] # "absent"
        BY <2>1 DEF Inv, NeedsInserted
    <2>3. \A n \in NeedRows(j) : status[n] \in Terminal
        BY <1>3, <2>2, AllTerminalRows DEF Skip, SkipByRule
    <2>4. QED
        BY <2>1, <2>2, <2>3, MovePreserves
<1>4. ASSUME NEW j \in Jobs, NEW from \in {"leased", "running"},
             NEW to \in {"running"} \cup Terminal, Move(j, from, to)
      PROVE  Inv'
    <2>1. status[j] = from
        BY <1>4 DEF Move
    <2>2. \A n \in NeedRows(j) : status[n] \in Terminal
        BY <2>1 DEF Inv, NeedsSafe
    <2>3. ~(/\ j \notin IfOverride
            /\ \E n \in NeedRows(j) : status[n] \in TerminalNonSuccess)
        BY <2>1 DEF Inv, BlockedNeverRuns
    <2>4. QED
        BY <1>4, <2>2, <2>3, MovePreserves
<1>5. ASSUME NEW j \in Jobs, Start(j) \/ Finish(j) PROVE Inv'
    BY <1>4, <1>5 DEF Start, Finish
<1>6. ASSUME Requeue PROVE Inv'
    <2>1. PICK S \in SUBSET {j \in Jobs : status[j] = "leased"} :
              status' = [j \in Jobs |-> IF j \in S THEN "queued" ELSE status[j]]
        BY <1>6 DEF Requeue
    <2>2. \A k \in Jobs : \A n \in NeedRows(k) : n \in Jobs
        BY NeedRowsFacts
    <2>3. \A k \in Jobs : \/ status'[k] = status[k]
                          \/ status[k] = "leased" /\ status'[k] = "queued"
        BY <2>1
    <2>4. TypeOK'
        BY <2>1 DEF Inv, TypeOK
    <2>5. NeedsInserted'
        BY <2>2, <2>3 DEF Inv, NeedsInserted
    <2>6. NeedsSafe'
        BY <2>2, <2>3 DEF Inv, NeedsSafe
    <2>7. BlockedNeverRuns'
        BY <2>2, <2>3 DEF Inv, BlockedNeverRuns, TerminalNonSuccess
    <2>8. QED
        BY <2>4, <2>5, <2>6, <2>7 DEF Inv
<1>7. CASE UNCHANGED status
    BY <1>7 DEF Inv, TypeOK, NeedsInserted, NeedsSafe, BlockedNeverRuns
<1>8. QED
    BY <1>1, <1>2, <1>3, <1>5, <1>6, <1>7 DEF Next

(* The lifecycle keeps its types, and no row is handed out or skipped      *)
(* before everything it needs has finished, nor handed out against the     *)
(* default success() rule: for every workflow graph, every matrix and any  *)
(* number of runs.                                                         *)
THEOREM LifecycleSafe == Spec => [](TypeOK /\ NeedsSafe /\ BlockedNeverRuns)
<1>1. Inv => TypeOK /\ NeedsSafe /\ BlockedNeverRuns
    BY DEF Inv
<1>2. QED
    BY <1>1, InitInv, NextInv, PTL DEF Spec

(* A finished row never changes. *)
THEOREM LifecycleFinal == Spec => TerminalIsFinal
<1>1. TypeOK /\ [Next]_status
        => [\A j \in Jobs : status[j] \in Terminal => status'[j] = status[j]]_status
    BY DEF TypeOK, Next, Plan, Lease, Skip, Start, Finish, Requeue, Move,
           Terminal
<1>2. Spec => []TypeOK
    BY LifecycleSafe, PTL
<1>3. QED
    BY <1>1, <1>2, PTL DEF Spec, TerminalIsFinal
=============================================================================
