----------------------------- MODULE MCDispatch -----------------------------
(***************************************************************************)
(* Workflow shapes for model checking Dispatch: rows are strings, their    *)
(* tables are written as functions over them.                              *)
(***************************************************************************)
EXTENDS Dispatch, TLC

OneRun == [j \in Jobs |-> "u"]

(* A matrix job a with the cells a1 and a2, b needing a, c needing b, and  *)
(* d, which runs in any case, needing b; the row ids put dependents first. *)
MatrixRows == {"a1", "a2", "b", "c", "d"}
MatrixYaml == ("a1" :> "a") @@ ("a2" :> "a") @@ [j \in {"b", "c", "d"} |-> j]
MatrixNeeds == ("a1" :> {}) @@ ("a2" :> {}) @@ ("b" :> {"a"}) @@ ("c" :> {"b"})
                   @@ ("d" :> {"b"})
MatrixStage == ("a1" :> 0) @@ ("a2" :> 0) @@ ("b" :> 1) @@ ("c" :> 2) @@ ("d" :> 2)
MatrixRank == ("a1" :> 3) @@ ("a2" :> 4) @@ ("b" :> 1) @@ ("c" :> 0) @@ ("d" :> 2)

(* b needs a, b's row id comes first. *)
PairRows == {"a", "b"}
PairNeeds == ("a" :> {}) @@ ("b" :> {"a"})
PairStage == ("a" :> 0) @@ ("b" :> 1)
PairRank == ("a" :> 1) @@ ("b" :> 0)

(* A single job. *)
SoloRows == {"a"}
SoloNeeds == ("a" :> {})
SoloStage == ("a" :> 0)
SoloRank == ("a" :> 0)

NoMatrix == [j \in Jobs |-> j]

Symmetry == Permutations(Runners) \cup Permutations(Calls)
=============================================================================
