------------------------------ MODULE MCWakeup ------------------------------
(* One request that plans every row; the reaper is the second to notify. *)
EXTENDS Wakeup

AllRows == [p \in Posts |-> Rows]

(* bound: channels that some list holds *)
FewChannels == Cardinality(Pending) <= 3

(* bound: of the push, idle polls, lapses, drops and faults, any two *)
TwoTroubles == head + SumFunction(count) <= 2
=============================================================================
