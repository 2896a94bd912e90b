------------------------------- MODULE MCJoin -------------------------------
(***************************************************************************)
(* A small workflow for what the shipped one cannot show: two scheduler    *)
(* owners, a second parallel:init, a pool with room for two agents, a node *)
(* that does not accept a skipped dependency, and a node "b" whose         *)
(* declared worktree is the path the scheduler allocates to the late node  *)
(* "d", which is only needed for a database change.  "join" and "pr" share *)
(* a read-only limit of 1, so that "pr" may wait while "d" behind it runs. *)
(***************************************************************************)
EXTENDS Scheduler, Sequences, TLC

Order == <<"impact", "b", "a", "c", "join", "pr", "d">>

Nodes == {Order[i] : i \in 1..Len(Order)}

PositionOf == [n \in Nodes |-> CHOOSE i \in 1..Len(Order) : Order[i] = n]

Dependencies ==
  [n \in Nodes |->
     CASE n = "impact" -> {}
       [] n \in {"a", "b", "c"} -> {"impact"}
       [] n = "join" -> {"a", "c"}
       [] n = "d" -> {"a"}
       [] n = "pr" -> {"b"}]

Skippable == [n \in Nodes |-> IF n = "join" THEN {"c"} ELSE {}]

AgentOf == [n \in Nodes |-> IF n \in {"impact", "join", "pr"} THEN n ELSE "coder"]

MutableNodes == {"a", "b", "c", "d"}
RetryableNodes == {"a", "join"}
RetryLimit == [n \in Nodes |-> IF n \in RetryableNodes THEN 1 ELSE 0]
ConditionalNodes == {"c", "d"}

RoleLimits == [impact |-> 1, coder |-> 2, join |-> 1, pr |-> 1]

OwnPaths == [n \in Nodes |-> n]
DeclaredPaths == [n \in Nodes |-> IF n = "b" THEN "d" ELSE None]
NothingDeclared == [n \in Nodes |-> None]
=============================================================================
