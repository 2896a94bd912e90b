------------------------------- MODULE MCFile -------------------------------
(***************************************************************************)
(* A four-node workflow and two processes for DagFile: two mutable nodes   *)
(* may run at the same time, one of them may be retried once.              *)
(***************************************************************************)
EXTENDS DagFile, Sequences, TLC

Order == <<"planner", "a", "b", "pr">>

Nodes == {Order[i] : i \in 1..Len(Order)}

PositionOf == [n \in Nodes |-> CHOOSE i \in 1..Len(Order) : Order[i] = n]

Dependencies ==
  [n \in Nodes |->
     CASE n = "planner" -> {}
       [] n \in {"a", "b"} -> {"planner"}
       [] n = "pr" -> {"a", "b"}]

NoneSkippable == [n \in Nodes |-> {}]
AgentOf == [n \in Nodes |-> IF n \in {"a", "b"} THEN "coder" ELSE n]
RetryLimit == [n \in Nodes |-> IF n = "a" THEN 1 ELSE 0]
RoleLimits == [planner |-> 1, coder |-> 2, pr |-> 1]
OwnPaths == [n \in Nodes |-> n]
NothingDeclared == [n \in Nodes |-> None]

\* Commands are killed, and the task initialised again, in serial use only.
Crashes == [b \in BOOLEAN |-> IF b THEN 2 ELSE 0]
Inits == [b \in BOOLEAN |-> IF b THEN 1 ELSE 0]

Processes == Permutations(Proc)
=============================================================================
