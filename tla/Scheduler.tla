----------------------------- MODULE Scheduler ------------------------------
(***************************************************************************)
(* The parallel DAG scheduler, one command at a time: an operator (or a    *)
(* script) runs parallel:init, parallel:run, parallel:complete and         *)
(* parallel:retry in any order, agents answer the request files, and the   *)
(* impact agent writes impact.json, on which the conditional nodes depend. *)
(*                                                                         *)
(* A request file stays on disk, so its answer may come at any time after  *)
(* it was issued, more than once, and after a newer request of its node.   *)
(***************************************************************************)
EXTENDS DagState

CONSTANTS
  MaxInits       \* bound: how often parallel:init is run for the task

ASSUME MaxInitsAssumption == MaxInits \in Nat \ {0}

VARIABLES
  dag,      \* runs/<task>/dag.json
  issued,   \* the request files <<node, attempt, run>> written so far
  impact,   \* shared/<task>/impact.json: "absent", or its database verdict
  run       \* history: how many times the task was initialised

vars == <<dag, issued, impact, run>>

Impact == {"absent", "no-database", "database"}

\* evaluateCondition("database_change_required")
DatabaseChangeRequired == impact = "database"

\* impact.json may be there already, from earlier work on the same task.
Init ==
  /\ dag = InitialDocument
  /\ issued = {}
  /\ impact \in Impact
  /\ run = 1

\* parallel:init overwrites the document whatever the state of the task; the
\* request files and the shared workspace stay.
ParallelInit ==
  /\ run < MaxInits
  /\ dag' = InitialDocument
  /\ run' = run + 1
  /\ UNCHANGED <<issued, impact>>

\* parallel:run and dag:run (runScheduler)
RunScheduler(owner) ==
  /\ \E o \in ScheduleRunnableNodes(dag, owner, DatabaseChangeRequired) :
       /\ dag' = o.document
       /\ issued' = issued \cup {<<q[1], q[2], run>> : q \in o.requests}
  /\ UNCHANGED <<impact, run>>

\* parallel:complete (applyResultFile) with a result some agent wrote for a
\* request file it was given.
ApplyResult(n) ==
  /\ \E q \in issued, status \in ResultStatus, sound, retryable \in BOOLEAN :
       LET r == [node |-> n, attempt |-> q[2], status |-> status,
                 sound |-> sound, retryable |-> retryable]
       IN  /\ q[1] = n
           /\ ValidateStageResult(dag, r)
           /\ dag' = ApplyStageResult(dag, r)
  /\ UNCHANGED <<issued, impact, run>>

\* parallel:retry (retryNode)
Retry(n) ==
  /\ CanRetry(dag, n)
  /\ dag' = PrepareRetry(dag, n)
  /\ UNCHANGED <<issued, impact, run>>

\* An agent working on the impact node writes its verdict.
WriteImpact ==
  /\ \E n \in Node : Agent[n] = "impact" /\ dag.status[n] = "running"
  /\ impact' \in {"no-database", "database"}
  /\ UNCHANGED <<dag, issued, run>>

Next ==
  \/ ParallelInit
  \/ \E owner \in Owner : RunScheduler(owner)
  \/ \E n \in Node : ApplyResult(n) \/ Retry(n)
  \/ WriteImpact

Spec == Init /\ [][Next]_vars

-----------------------------------------------------------------------------
(* The type invariant: what dag.json, the request files and impact.json   *)
(* can hold.                                                               *)
TypeOK ==
  /\ IsDocument(dag)
  /\ issued \subseteq Node \X Nat \X Nat
  /\ impact \in Impact
  /\ run \in Nat

(* The document on disk satisfies the document invariants of DagState:     *)
(* dependency order, pool limits, request ledger, worktree isolation.      *)
DagDependencyOrder == DependencyOrder(dag)
DagPoolRespected == PoolRespected(dag)
DagRequestLedger == RequestLedger(dag)
DagWorktreeIsolation == WorktreeIsolation(dag)

(* Retry budget: whatever the order of results, retries and scheduler      *)
(* runs, a node is sent to an agent under at most 1 + maxRetries request   *)
(* identities, and every request on record had its file written.           *)
RequestBudget ==
  /\ RetryBudget(dag)
  /\ \A q \in issued : q[2] <= MaxRetries[q[1]] + 1
  /\ \A q \in DOMAIN dag.requests : <<q[1], q[2], run>> \in issued

(* The delivery gate: the pr stage is only started when everything it      *)
(* rests on has passed with evidence or was skipped - a failed, blocked or *)
(* unverified stage cannot slip past a join anywhere in the graph, though  *)
(* dependencySatisfied only looks one edge back.                           *)
DeliveryGate ==
  \A n \in Node :
    Agent[n] = "pr" /\ dag.status[n] \in {"running", "passed"} =>
      \E U \in SUBSET Node :
        /\ DependsOn[n] \subseteq U
        /\ \A u \in U : \/ dag.status[u] = "skipped"
                       \/ /\ dag.status[u] = "passed" /\ dag.evidence[u]
                          /\ DependsOn[u] \subseteq U

(* Nothing a command does to a started node reaches back: within one run   *)
(* of the task a passed or skipped node keeps its status and its evidence, *)
(* whatever late, duplicated or retried results arrive (validateStageResult*)
(* and prepareRetry).                                                      *)
SettledIsFinal ==
  [][\A n \in Node :
       dag.status[n] \in {"passed", "skipped"} /\ run' = run =>
         /\ dag'.status[n] = dag.status[n]
         /\ dag'.evidence[n] = dag.evidence[n]]_vars

(* "requests" is a log of requests: what was sent stays on record, one     *)
(* result settles it, and it is never opened or sent again (the code keeps *)
(* this promise between hasDuplicateRequest, applyStageResult, prepareRetry*)
(* and, beside them, feedback-reset-nodes).                                *)
Log == INSTANCE RequestLog WITH requests <- dag.requests, Answer <- ResultStatus
LogSpec == Log!Spec

(* A scheduler run, at whatever moment it comes, leaves no pending node     *)
(* below a failure: every node that can no longer run is marked blocked in *)
(* the same document (propagateDependencyBlocks reaches its fixpoint); and *)
(* it passes over no node it could start: whatever ready node it leaves,   *)
(* the pool has no room for it beside the agents then at work              *)
(* (getRunnableNodes goes on after a node of a kind that is full).         *)
SchedulerRuns ==
  UNION {ScheduleRunnableNodes(dag, owner, DatabaseChangeRequired) : owner \in Owner}

FailureReachesDescendants ==
  \A o \in SchedulerRuns : \A n \in PendingNodes(o.document.status) :
    ~ HasFailedDependency(n, o.document.status)

NoReadyNodeIsPassedOver ==
  \A o \in SchedulerRuns :
    ~ o.stopped =>
      \A n \in ReadyNodes(o.document.status, o.document.attempt) :
        ~ PoolHasRoom(n, RunningNodes(o.document.status))

-----------------------------------------------------------------------------
(* Nothing in the repository runs the commands by itself.  Liveness is     *)
(* stated for an operator who keeps running the scheduler as one owner and *)
(* retries what may be retried, and for agents that answer their requests. *)
Driven(owner) ==
  /\ WF_vars(RunScheduler(owner))
  /\ \A n \in Node : WF_vars(ApplyResult(n)) /\ WF_vars(Retry(n))

FairSpec == Spec /\ \A owner \in Owner : Driven(owner)

(* Every task comes to rest: no node stays pending or running for ever, by *)
(* losing its request, its pool slot or its place below a settled          *)
(* dependency.                                                             *)
TaskSettles ==
  <>[](\A n \in Node : dag.status[n] \notin {"pending", "running"})

=============================================================================
