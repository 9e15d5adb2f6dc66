----------------------------- MODULE MCJobViews -----------------------------
(***************************************************************************)
(* A job a with one step, a matrix job b needing it with the cells b1 and  *)
(* b2, and d, which runs in any case, needing b.                           *)
(***************************************************************************)
EXTENDS JobViews

Rows == {"a", "b1", "b2", "d"}
OneRun == [j \in Jobs |-> "u"]
Yaml == ("a" :> "a") @@ ("b1" :> "b") @@ ("b2" :> "b") @@ ("d" :> "d")
RowNeeds == ("a" :> {}) @@ ("b1" :> {"a"}) @@ ("b2" :> {"a"}) @@ ("d" :> {"b"})
RowStage == ("a" :> 0) @@ ("b1" :> 1) @@ ("b2" :> 1) @@ ("d" :> 2)
RowRank == ("a" :> 1) @@ ("b1" :> 2) @@ ("b2" :> 3) @@ ("d" :> 4)
OneStep == [j \in Jobs |-> IF j = "a" THEN 1 ELSE 0]

(* A page whose first SELECT finds nothing finished promises nothing and   *)
(* is not followed further.                                                *)
FollowFinished ==
    pPc \in {"listJobs", "listSteps"} => pStatus \in Terminal \cup RunTerminal

(* At most one row is leased while the run is planned, and two once its    *)
(* status was set before its time.                                         *)
FewLeases ==
    /\ plan["u"] \in {"inserting", "failing"} => nextLease <= 1
    /\ early # {} => nextLease <= 2

Symmetry == Permutations(Calls)
=============================================================================
