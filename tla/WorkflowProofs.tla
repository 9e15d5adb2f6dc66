--------------------------- MODULE WorkflowProofs ---------------------------
(***************************************************************************)
(* Facts about the gating decisions of module Workflow.                    *)
(***************************************************************************)
EXTENDS Workflow, TLAPS

(* A row that j needs belongs to j's run and to an earlier stage. *)
LEMMA NeedRowsFacts ==
    ASSUME NEW j \in Jobs, NEW n \in NeedRows(j)
    PROVE  /\ n \in Jobs
           /\ RunOf[n] = RunOf[j]
           /\ YamlId[n] \in Needs[j]
           /\ Stage[n] < Stage[j]
           /\ n # j
<1>1. PICK y \in Needs[j] : n \in Cells(RunOf[j], y)
    BY DEF NeedRows
<1>2. n \in Jobs /\ RunOf[n] = RunOf[j] /\ YamlId[n] = y
    BY <1>1 DEF Cells
<1>3. Stage[n] < Stage[j]
    BY PlanIsStaged
<1>4. Stage[j] \in Nat
    BY WorkflowTypes
<1>5. QED
    BY <1>1, <1>2, <1>3, <1>4

(* With every needed row inserted, needsSatisfied's allTerminal speaks of  *)
(* all of them.                                                            *)
LEMMA AllTerminalRows ==
    ASSUME NEW st, NEW j \in Jobs,
           \A n \in NeedRows(j) : st[n] # "absent"
    PROVE  AllTerminal(j, st) <=> \A n \in NeedRows(j) : st[n] \in Terminal
<1>1. \A y \in Needs[j] : Group(RunOf[j], y, st) = Cells(RunOf[j], y)
    BY DEF Group, NeedRows
<1>2. \A y \in Needs[j] : Cells(RunOf[j], y) # {}
    BY PlanIsStaged
<1>3. QED
    BY <1>1, <1>2 DEF AllTerminal, NeedRows

(* anyBlocking: some needed row finished without success. *)
LEMMA AnyBlockingRows ==
    ASSUME NEW st, NEW j \in Jobs
    PROVE  AnyBlocking(j, st)
               <=> \E n \in NeedRows(j) : st[n] \in TerminalNonSuccess
<1>1. \A n : st[n] \in TerminalNonSuccess => st[n] # "absent"
    BY DEF TerminalNonSuccess
<1>2. QED
    BY <1>1 DEF AnyBlocking, NeedRows, Group

(* A decision taken on a snapshot st that shows every needed row stays     *)
(* right on any later statuses: finished rows are final.                   *)
LEMMA DecisionsAgree ==
    ASSUME NEW st, NEW now, NEW j \in Jobs,
           \A n \in NeedRows(j) : st[n] # "absent",
           \A n \in NeedRows(j) : st[n] \in Terminal => now[n] = st[n]
    PROVE  /\ SkipByRule(j, st) => SkipByRule(j, now)
           /\ Leasable(j, st) => Leasable(j, now)
<1>1. ASSUME AllTerminal(j, st)
      PROVE  /\ \A n \in NeedRows(j) : now[n] = st[n]
             /\ AllTerminal(j, now)
             /\ AnyBlocking(j, st) <=> AnyBlocking(j, now)
    <2>1. \A n \in NeedRows(j) : st[n] \in Terminal
        BY <1>1, AllTerminalRows
    <2>2. \A n \in NeedRows(j) : now[n] = st[n]
        BY <2>1
    <2>3. AllTerminal(j, now)
        BY <2>1, <2>2, AllTerminalRows
    <2>4. AnyBlocking(j, st) <=> AnyBlocking(j, now)
        BY <2>2, AnyBlockingRows
    <2>5. QED
        BY <2>2, <2>3, <2>4
<1>2. QED
    BY <1>1 DEF SkipByRule, Leasable
=============================================================================
