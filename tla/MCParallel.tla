----------------------------- MODULE MCParallel -----------------------------
(***************************************************************************)
(* .codex/orchestration/parallel-workflow.json and agent-pool.json, the    *)
(* workflow and the pool the repository ships, as an instance of           *)
(* Scheduler.  Retries is the retry limit (policies.json has 2).              *)
(***************************************************************************)
EXTENDS Scheduler, Sequences, TLC

CONSTANTS Retries

Order == <<"planner", "impact", "backend", "frontend", "database",
           "integration", "test", "review", "pr">>

Nodes == {Order[i] : i \in 1..Len(Order)}

PositionOf == [n \in Nodes |-> CHOOSE i \in 1..Len(Order) : Order[i] = n]

Dependencies ==
  [n \in Nodes |->
     CASE n = "planner" -> {}
       [] n = "impact" -> {"planner"}
       [] n \in {"backend", "frontend", "database"} -> {"impact"}
       [] n = "integration" -> {"backend", "frontend", "database"}
       [] n \in {"test", "review"} -> {"integration"}
       [] n = "pr" -> {"test", "review"}]

Skippable ==
  [n \in Nodes |-> IF n = "integration" THEN Dependencies[n] ELSE {}]

AgentOf ==
  [n \in Nodes |->
     IF n \in {"backend", "frontend", "database"} THEN "implementation" ELSE n]

MutableNodes == {"backend", "frontend", "database", "integration"}
RetryableNodes == MutableNodes \cup {"test"}
RetryLimit == [n \in Nodes |-> IF n \in RetryableNodes THEN Retries ELSE 0]
ConditionalNodes == {"database"}

RoleLimits ==
  [planner |-> 1, impact |-> 1, implementation |-> 3, integration |-> 1,
   test |-> 2, review |-> 2, pr |-> 1]

OwnPaths == [n \in Nodes |-> n]
NothingDeclared == [n \in Nodes |-> None]
=============================================================================
