------------------------------ MODULE Workflow ------------------------------
(***************************************************************************)
(* A validated workflow and the pure functions of                          *)
(* scripts/orchestration/lib/workflow.mjs the scheduler is built from.     *)
(*                                                                         *)
(* The constants are the fields of the workflow nodes after                *)
(* normalizeWorkflow, and the limits of agent-pool.json.  The assumptions  *)
(* are what validateWorkflow has checked before a scheduler run gets past  *)
(* its first lines.  The module has no variables, so that it can be        *)
(* instantiated both with a fixed workflow and with one that changes.      *)
(***************************************************************************)
EXTENDS Integers, FiniteSets

CONSTANTS
  Node,          \* the ids of the workflow nodes
  Position,      \* the index of a node in workflow.nodes, from 1
  DependsOn,     \* node -> the set of nodes it depends on
  AllowSkipped,  \* node -> the dependencies whose skip it accepts
  Agent,         \* node -> the agent (pool role) that runs it
  Mutable,       \* the nodes that change code and need a worktree
  Retryable,     \* the nodes that may be retried
  MaxRetries,    \* node -> its retry limit
  Conditional,   \* the nodes guarded by "database_change_required"
  GlobalLimit, MutableLimit, ReadOnlyLimit,   \* pool.limits
  RoleLimit                                   \* agent -> pool.roles

\* The node table is a finite array with unique ids, and dependsOn lists ids
\* of the table (errors duplicate-node and missing-dependency).
NodesAssumption ==
  /\ IsFiniteSet(Node)
  /\ Position \in [Node -> 1..Cardinality(Node)]
  /\ \A m, n \in Node : Position[m] = Position[n] => m = n
  /\ DependsOn \in [Node -> SUBSET Node]
  /\ AllowSkipped \in [Node -> SUBSET Node]
  /\ Mutable \subseteq Node
  /\ Conditional \subseteq Node

\* Retry fields (error invalid-retry-policy).
RetryAssumption ==
  /\ Retryable \subseteq Node
  /\ MaxRetries \in [Node -> Nat]
  /\ \A n \in Node \ Retryable : MaxRetries[n] = 0

\* Pool limits are positive integers, the two kinds within the global one
\* (error invalid-pool-limit).  A role limit is a natural number; for a role
\* pool.roles does not list it is any number of at least Cardinality(Node).
PoolAssumption ==
  /\ GlobalLimit \in Nat \ {0}
  /\ MutableLimit \in 1..GlobalLimit
  /\ ReadOnlyLimit \in 1..GlobalLimit
  /\ \A n \in Node : RoleLimit[Agent[n]] \in Nat

\* No dependency cycle (error cycle): a nonempty set of nodes has a member
\* with no dependency in the set.
IsAcyclic(dependencies) ==
  \A S \in SUBSET Node : S # {} => \E n \in S : dependencies[n] \cap S = {}

ASSUME ValidWorkflow ==
  NodesAssumption /\ RetryAssumption /\ PoolAssumption /\ IsAcyclic(DependsOn)

-----------------------------------------------------------------------------

Status == {"pending", "running", "passed", "failed", "blocked", "skipped"}

Before(m, n) == Position[m] < Position[n]

\* Mutant: some instead of every.
DependencySatisfiedSome(n, status) ==
  \/ DependsOn[n] = {}
  \/ \E d \in DependsOn[n] :
       \/ status[d] = "passed"
       \/ status[d] = "skipped" /\ d \in AllowSkipped[n]

(* dependencySatisfied and hasFailedDependency, on the status of every node. *)
DependencySatisfied(n, status) ==
  \A d \in DependsOn[n] :
    \/ status[d] = "passed"
    \/ status[d] = "skipped" /\ d \in AllowSkipped[n]

FailedNodes(status) == {n \in Node : status[n] \in {"failed", "blocked"}}

HasFailedDependency(n, status) == DependsOn[n] \cap FailedNodes(status) # {}

(***************************************************************************)
(* propagateDependencyBlocks sweeps over the pending nodes until a sweep   *)
(* changes nothing.  The nodes it ends up blocking are the set B that      *)
(* contains exactly the pending nodes with a dependency that failed, was   *)
(* blocked before, or is in B; in an acyclic workflow there is one.        *)
(***************************************************************************)
PendingNodes(status) == {n \in Node : status[n] = "pending"}

\* Mutant: a single sweep that looks at the old statuses.
IsBlockSetOneSweep(B, status) ==
  B = {n \in PendingNodes(status) : HasFailedDependency(n, status)}

IsBlockSet(B, status) ==
  B = {n \in PendingNodes(status) :
         DependsOn[n] \cap (FailedNodes(status) \cup B) # {}}

BlockNodes(B, status) ==
  [n \in Node |-> IF n \in B THEN "blocked" ELSE status[n]]

(***************************************************************************)
(* getRunnableNodes walks the nodes in workflow order and takes a node     *)
(* when its dependencies are satisfied, it has no request yet, and the     *)
(* pool has room for it beside the running nodes and those taken before.   *)
(***************************************************************************)
RunningNodes(status) == {n \in Node : status[n] = "running"}

\* Mutant: <= for <.
PoolHasRoomLate(n, busy) ==
  /\ Cardinality(busy) <= GlobalLimit
  /\ IF n \in Mutable
       THEN Cardinality(busy \cap Mutable) <= MutableLimit
       ELSE Cardinality(busy \ Mutable) <= ReadOnlyLimit
  /\ Cardinality({m \in busy : Agent[m] = Agent[n]}) <= RoleLimit[Agent[n]]

PoolHasRoom(n, busy) ==
  /\ Cardinality(busy) < GlobalLimit
  /\ IF n \in Mutable
       THEN Cardinality(busy \cap Mutable) < MutableLimit
       ELSE Cardinality(busy \ Mutable) < ReadOnlyLimit
  /\ Cardinality({m \in busy : Agent[m] = Agent[n]}) < RoleLimit[Agent[n]]

\* Mutant: a node without a failed dependency counts as ready.
ReadyNodesEager(status, attempt) ==
  {n \in Node : /\ status[n] = "pending"
                /\ attempt[n] = 0
                /\ ~ HasFailedDependency(n, status)}

ReadyNodes(status, attempt) ==
  {n \in Node : /\ status[n] = "pending"
                /\ attempt[n] = 0
                /\ ~ HasFailedDependency(n, status)
                /\ DependencySatisfied(n, status)}

\* Mutant: "break" where the loop has "continue".
IsRunnableSetBreak(S, status, attempt) ==
  S = {n \in ReadyNodes(status, attempt) :
         \A k \in ReadyNodes(status, attempt) :
           Before(k, n) \/ k = n =>
             PoolHasRoom(k, RunningNodes(status) \cup {m \in S : Before(m, k)})}

IsRunnableSet(S, status, attempt) ==
  S = {n \in ReadyNodes(status, attempt) :
         PoolHasRoom(n, RunningNodes(status) \cup {m \in S : Before(m, n)})}
=============================================================================
