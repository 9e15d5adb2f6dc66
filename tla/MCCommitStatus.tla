--------------------------- MODULE MCCommitStatus ---------------------------
(***************************************************************************)
(* Requests and workflow files for model checking CommitStatus.            *)
(***************************************************************************)
EXTENDS CommitStatus, TLC

(* A good push of a branch, and requests that differ from it. *)
Push == [host |-> "github", authentic |-> TRUE, wellFormed |-> TRUE, push |-> TRUE,
         trusted |-> TRUE, sha |-> "c1", branch |-> "main", files |-> {"src"},
         tree |-> Entries]

SomeRequests ==
    {Push, [Push EXCEPT !.branch = NoBranch], [Push EXCEPT !.files = {"docs"}],
     [Push EXCEPT !.files = {}], [Push EXCEPT !.branch = "wip"],
     [Push EXCEPT !.host = "gitlab"], [Push EXCEPT !.sha = NoSha],
     [Push EXCEPT !.authentic = FALSE], [Push EXCEPT !.trusted = FALSE],
     [Push EXCEPT !.push = FALSE], [Push EXCEPT !.tree = {"test"}],
     [Push EXCEPT !.host = "gitlab", !.tree = {"doc", "lib"}],
     [Push EXCEPT !.host = "gitlab", !.wellFormed = FALSE]}

(* A text file, a directory named like a workflow, and two workflows. *)
SomeEntries == {"doc", "lib", "ci", "test"}
EntryRank == ("doc" :> 1) @@ ("lib" :> 2) @@ ("ci" :> 3) @@ ("test" :> 4)
EntryKind == [e \in SomeEntries |->
    [type |-> IF e = "lib" THEN "dir" ELSE "file", yaml |-> e # "doc"]]

(* ci runs for main only, test for everything but wip and documentation. *)
NoFilter == [push |-> TRUE, branches |-> {}, branchesIgnore |-> {},
             paths |-> {}, pathsIgnore |-> {}]
TwoFiles == ("doc" :> NoFilter) @@ ("lib" :> NoFilter)
         @@ ("ci" :> [NoFilter EXCEPT !.branches = {"main"}, !.paths = {"src"}])
         @@ ("test" :> [NoFilter EXCEPT !.branchesIgnore = {"wip"},
                                        !.pathsIgnore = {"docs"}])

(* A run finalized twice next to one finalized once. *)
FewCalls == Cardinality({c \in RunIds \X Calls : call[c] # "none"}) <= 3
=============================================================================
