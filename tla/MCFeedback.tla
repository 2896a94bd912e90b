---------------------------- MODULE MCFeedback ------------------------------
(***************************************************************************)
(* The workflow dag:compile makes for a backend change (a chain), with     *)
(* agent-pool.json, for Feedback.                                          *)
(***************************************************************************)
EXTENDS Feedback, Sequences, TLC

Order == <<"planner", "impact", "backend", "test", "review", "pr">>

Nodes == {Order[i] : i \in 1..Len(Order)}

PositionOf == [n \in Nodes |-> CHOOSE i \in 1..Len(Order) : Order[i] = n]

Dependencies ==
  [n \in Nodes |-> IF PositionOf[n] = 1 THEN {} ELSE {Order[PositionOf[n] - 1]}]

NoSkip == [n \in Nodes |-> {}]
AgentOf == [n \in Nodes |-> IF n = "backend" THEN "implementation" ELSE n]
RetryLimit == [n \in Nodes |-> IF n \in {"backend", "test"} THEN 2 ELSE 0]

RoleLimits ==
  [planner |-> 1, impact |-> 1, implementation |-> 3, integration |-> 1,
   test |-> 2, review |-> 2, pr |-> 1]

OwnPaths == [n \in Nodes |-> n]
NothingDeclared == [n \in Nodes |-> None]
=============================================================================
