------------------------------ MODULE MCLoops -------------------------------
(***************************************************************************)
(* Six nodes for SchedulerLoops.  "e" stands before the node it depends    *)
(* on, so that a block has to travel against the file order; "b" and "d"   *)
(* become ready together, and "c" has a declared worktree with the branch  *)
(* allocated to "d", so that a run may be stopped with a request made; the *)
(* pool fills up by kind, by role and altogether.                          *)
(*                                                                         *)
(* The search is tried on every dependency table over three of the nodes.  *)
(***************************************************************************)
EXTENDS SchedulerLoops, TLC

Order == <<"e", "c", "b", "impact", "a", "d">>

Nodes == {Order[i] : i \in 1..Len(Order)}

PositionOf == [n \in Nodes |-> CHOOSE i \in 1..Len(Order) : Order[i] = n]

Dependencies ==
  [n \in Nodes |->
     CASE n \in {"impact", "a"} -> {}
       [] n = "b" -> {"a", "impact"}
       [] n = "c" -> {"a"}
       [] n = "d" -> {"impact"}
       [] n = "e" -> {"c"}]

Skippable == [n \in Nodes |-> {}]

AgentOf ==
  [n \in Nodes |-> IF n \in {"a", "b", "c"} THEN "coder" ELSE n]

MutableNodes == {"a", "b", "c", "d"}
RetryableNodes == {"a"}
RetryLimit == [n \in Nodes |-> IF n = "a" THEN 1 ELSE 0]
ConditionalNodes == {"d"}

RoleLimits == [impact |-> 1, coder |-> 2, d |-> 1, e |-> 1]

OwnPaths == [n \in Nodes |-> n]
DeclaredPaths == [n \in Nodes |-> IF n = "c" THEN "c" ELSE None]
DeclaredBranches == [n \in Nodes |-> IF n = "c" THEN "d" ELSE None]

Three == {"b", "c", "e"}

AllTables ==
  {Dependencies} \cup
  {[n \in Nodes |-> IF n \in Three THEN t[n] ELSE {}] : t \in [Three -> SUBSET Three]}
=============================================================================
