------------------------------ MODULE DagState ------------------------------
(***************************************************************************)
(* The document runs/<task>/dag.json and the functions that turn one       *)
(* document into the next: scheduleRunnableNodes (lib/scheduler-safety),   *)
(* applyStageResult and prepareRetry (lib/results), the steps runScheduler *)
(* takes around them (lib/legacy-scheduler), and parallel-init.            *)
(*                                                                         *)
(* A document is a value here, and an operation says which documents may   *)
(* come out of it.  Scheduler.tla applies the operations one command at a  *)
(* time, DagFile.tla interleaves the commands' reads and writes.           *)
(*                                                                         *)
(* requestId and attemptId are written and cleared together and both are   *)
(* the node id with the number retryCount + 1, so a document keeps that    *)
(* number (0: null).  Timestamps, artifact lists, the failure text and the *)
(* "active" flag, which always says status = running, are left out.        *)
(***************************************************************************)
EXTENDS Workflow

CONSTANTS
  Owner,            \* the scheduler owners (HARNESS_SCHEDULER_OWNER)
  Path,             \* worktree paths
  OwnPath,          \* node -> the path allocateNodeWorktree gives it
  DeclaredPath,     \* node -> the "worktree" of its workflow entry, or None
  Branch, OwnBranch, DeclaredBranch,  \* the same for branches
  None

\* The path and the branch of an allocated worktree contain the node id.
ASSUME PathAssumption ==
  /\ None \notin Owner \cup Path \cup Branch
  /\ OwnPath \in [Node -> Path]
  /\ \A m, n \in Node : OwnPath[m] = OwnPath[n] => m = n
  /\ DeclaredPath \in [Node -> Path \cup {None}]
  /\ OwnBranch \in [Node -> Branch]
  /\ \A m, n \in Node : OwnBranch[m] = OwnBranch[n] => m = n
  /\ DeclaredBranch \in [Node -> Branch \cup {None}]

ResultStatus == {"passed", "failed", "blocked"}

RequestStatus == {"queued"} \cup ResultStatus

IsDocument(s) ==
  /\ s \in [status    : [Node -> Status],
            retry     : [Node -> Nat],       \* retryCount
            attempt   : [Node -> Nat],       \* requestId and attemptId
            evidence  : [Node -> BOOLEAN],   \* artifacts and verification
            worktree  : [Node -> Path \cup {None}],
            requests  : {s.requests},        \* requestId -> status
            lock      : Owner \cup {None}]
  /\ DOMAIN s.requests \subseteq Node \X Nat
  /\ s.requests \in [DOMAIN s.requests -> RequestStatus]

\* parallel-init: the document of a fresh run.
InitialDocument ==
  [status    |-> [n \in Node |-> "pending"],
   retry     |-> [n \in Node |-> 0],
   attempt   |-> [n \in Node |-> 0],
   evidence  |-> [n \in Node |-> FALSE],
   worktree  |-> [n \in Node |-> None],
   requests  |-> [q \in {} |-> "queued"],
   lock      |-> None]

-----------------------------------------------------------------------------
(* One scheduler run. *)

\* markConditionalNodes: a pending node whose condition is false is skipped.
MarkConditionalNodes(s, databaseChange) ==
  [s EXCEPT !.status =
     [n \in Node |->
        IF n \in Conditional /\ s.status[n] = "pending" /\ ~ databaseChange
          THEN "skipped" ELSE s.status[n]]]

\* acquireTaskLock: the owner of the lock enters again, another is refused.
LockAvailable(s, owner) == s.lock \in {None, owner}

\* The effective worktree of a node, and its branch: an allocated worktree comes
\* with a branch of its own, a declared one with the branch declared, if any.
WorktreeOf(s, n) == IF s.worktree[n] # None THEN s.worktree[n] ELSE DeclaredPath[n]

BranchOf(s, n) == IF s.worktree[n] # None THEN OwnBranch[n] ELSE DeclaredBranch[n]

SameBranch(s, m, n) == BranchOf(s, m) # None /\ BranchOf(s, m) = BranchOf(s, n)

\* worktreeConflicts: two mutable nodes with worktrees that have the same path
\* or the same branch.
WorktreeConflict(s) ==
  \E m, n \in {k \in Mutable : WorktreeOf(s, k) # None} :
    m # n /\ (WorktreeOf(s, m) = WorktreeOf(s, n) \/ SameBranch(s, m, n))

\* The loop of scheduleRunnableNodes has given a worktree to the nodes of S.
AllocateWorktrees(s, S) ==
  [s EXCEPT !.worktree =
     [n \in Node |->
        IF n \in S \cap Mutable /\ WorktreeOf(s, n) = None
          THEN OwnPath[n] ELSE s.worktree[n]]]

UpTo(S, n) == {m \in S : Position[m] <= Position[n]}

\* The nodes of S the loop reaches: it returns at the first conflict.
ReachedNodes(s, S) ==
  {n \in S : ~ WorktreeConflict(AllocateWorktrees(s, {m \in S : Before(m, n)}))
             \/ {m \in S : Before(m, n)} = {}}

\* hasDuplicateRequest: the next request of the node is already on record.
NextRequest(s, n) == <<n, s.retry[n] + 1>>

DuplicateRequest(s, n) == NextRequest(s, n) \in DOMAIN s.requests

\* Mutant: the worktrees are not compared.
DispatchedNodesUnchecked(s, S) == {n \in S : ~ DuplicateRequest(s, n)}

\* The nodes of S that are sent to an agent.
DispatchedNodes(s, S) ==
  {n \in S : /\ ~ WorktreeConflict(AllocateWorktrees(s, UpTo(S, n)))
             /\ ~ DuplicateRequest(s, n)}

NewRequests(s, D) == {NextRequest(s, n) : n \in D}

Dispatch(s, D) ==
  [s EXCEPT
     !.status   = [n \in Node |-> IF n \in D THEN "running" ELSE s.status[n]],
     !.attempt  = [n \in Node |-> IF n \in D THEN s.retry[n] + 1 ELSE s.attempt[n]],
     !.requests = [q \in DOMAIN s.requests \cup NewRequests(s, D) |->
                     IF q \in NewRequests(s, D) THEN "queued" ELSE s.requests[q]]]

\* The document in which the runnable nodes are looked for.
Prepared(s, owner, databaseChange, B) ==
  LET marked == MarkConditionalNodes(s, databaseChange)
  IN  [marked EXCEPT !.lock = owner, !.status = BlockNodes(B, marked.status)]

BlockSets(status) == {B \in SUBSET PendingNodes(status) : IsBlockSet(B, status)}

RunnableSets(status, attempt) ==
  {S \in SUBSET ReadyNodes(status, attempt) : IsRunnableSet(S, status, attempt)}

\* What scheduleRunnableNodes returns when S are the runnable nodes of p.
Outcome(p, S) ==
  [document |-> Dispatch(AllocateWorktrees(p, ReachedNodes(p, S)), DispatchedNodes(p, S)),
   requests |-> NewRequests(p, DispatchedNodes(p, S)),
   stopped  |-> S # {} /\ WorktreeConflict(AllocateWorktrees(p, S))]

(***************************************************************************)
(* What a run of the scheduler by owner writes: the new document and the   *)
(* requests.  The set is empty when the run writes nothing: the lock is    *)
(* another owner's, or a worktree conflict stopped it with no request.     *)
(***************************************************************************)
ScheduleRunnableNodes(s, owner, databaseChange) ==
  {o \in UNION {LET p == Prepared(s, owner, databaseChange, B)
                IN  {Outcome(p, S) : S \in RunnableSets(p.status, p.attempt)} :
                  B \in BlockSets(MarkConditionalNodes(s, databaseChange).status)} :
     /\ LockAvailable(s, owner)
     /\ ~ (o.stopped /\ o.requests = {})}

-----------------------------------------------------------------------------
(* One stage result. *)

\* A stage result file.  sound: it lists the expected artifacts, which exist,
\* with evidence (passed), or has a failure summary (failed, blocked), and an
\* impact result has its graph provenance; retryable: failure.retryable.
Result ==
  [node : Node, attempt : Nat \ {0}, status : ResultStatus,
   sound : BOOLEAN, retryable : BOOLEAN]

\* Mutant: the node need not be running.
ValidateStageResultAnytime(s, r) ==
  /\ r.sound
  /\ s.attempt[r.node] # 0 => s.attempt[r.node] = r.attempt
  /\ r.status = "passed" => ~ r.retryable
  /\ r.status = "failed" /\ r.retryable => r.node \in Retryable

\* validateStageResult, on a well-formed file for this task.
ValidateStageResult(s, r) ==
  /\ r.sound
  /\ s.status[r.node] = "running"
  /\ s.attempt[r.node] # 0 => s.attempt[r.node] = r.attempt
  /\ r.status = "passed" => ~ r.retryable
  /\ r.status = "failed" /\ r.retryable => r.node \in Retryable

\* Mutant: the entry in "requests" is forgotten.
ApplyStageResultNodeOnly(s, r) ==
  [s EXCEPT !.status[r.node] = r.status, !.evidence[r.node] = r.sound]

ApplyStageResult(s, r) ==
  [s EXCEPT
     !.status[r.node]   = r.status,
     !.evidence[r.node] = r.sound,
     !.requests = [q \in DOMAIN s.requests |->
                     IF q = <<r.node, r.attempt>> THEN r.status ELSE s.requests[q]]]

-----------------------------------------------------------------------------
(* One retry. *)

CanRetry(s, n) ==
  /\ s.status[n] = "failed"
  /\ n \in Retryable
  /\ s.retry[n] < MaxRetries[n]

\* Mutant: the old requestId and attemptId are kept.
PrepareRetryKeepsRequest(s, n) ==
  [s EXCEPT !.status[n] = "pending", !.retry[n] = s.retry[n] + 1]

PrepareRetry(s, n) ==
  [s EXCEPT !.status[n]  = "pending",
            !.retry[n]   = s.retry[n] + 1,
            !.attempt[n] = 0]

-----------------------------------------------------------------------------
(* What every document must satisfy. *)

\* The node has been sent to an agent.
Engaged(s, n) == s.attempt[n] # 0 \/ s.retry[n] > 0

(* Dependency order: a node is only ever sent to an agent when each of its *)
(* dependencies has passed, or was skipped where the workflow accepts it   *)
(* (dependencySatisfied), and that stays so: no later command may take a   *)
(* dependency back under a node that has started.                          *)
DependencyOrder(s) ==
  \A n \in Node :
    /\ Engaged(s, n) => DependencySatisfied(n, s.status)
    /\ s.status[n] \in {"running", "passed", "failed"} => Engaged(s, n)

(* Pool limits: counting over all scheduler runs, the agents at work never *)
(* exceed the global, mutable, read-only and role limits of the pool       *)
(* (getRunnableNodes counts once, before a run that may start several).    *)
PoolRespected(s) ==
  LET busy == RunningNodes(s.status)
  IN  /\ Cardinality(busy) <= GlobalLimit
      /\ Cardinality(busy \cap Mutable) <= MutableLimit
      /\ Cardinality(busy \ Mutable) <= ReadOnlyLimit
      /\ \A n \in Node :
           Cardinality({m \in busy : Agent[m] = Agent[n]}) <= RoleLimit[Agent[n]]

(* Request ledger: "requests" and the node table tell the same story.  A   *)
(* node has had exactly the requests 1..k; the last one is queued while    *)
(* the node is running and carries the node's result afterwards; all the   *)
(* earlier ones failed.  So a next request is never taken for a duplicate. *)
LastRequest(s, n) == IF s.attempt[n] # 0 THEN s.attempt[n] ELSE s.retry[n]

RequestLedger(s) ==
  /\ DOMAIN s.requests = UNION {{n} \X (1..LastRequest(s, n)) : n \in Node}
  /\ \A n \in Node :
       /\ s.attempt[n] \in {0, s.retry[n] + 1}
       /\ s.status[n] \in {"running", "passed", "failed"} => s.attempt[n] # 0
       /\ s.status[n] \in {"pending", "skipped"} => s.attempt[n] = 0
       /\ \A k \in 1..s.retry[n] : s.requests[<<n, k>>] = "failed"
       /\ s.attempt[n] # 0 =>
            s.requests[<<n, s.attempt[n]>>] =
              IF s.status[n] = "running" THEN "queued" ELSE s.status[n]

(* Retry budget: no sequence of results, retries and scheduler runs takes  *)
(* the count of a node past its limit (prepareRetry).                      *)
RetryBudget(s) == \A n \in Node : s.retry[n] <= MaxRetries[n]

(* Worktree isolation: two different mutable nodes that were ever started  *)
(* never share a worktree or a branch, and each of them has a worktree; a  *)
(* collision of a declared and an allocated one fails closed               *)
(* (worktreeConflicts).                                                    *)
WorktreeIsolation(s) ==
  \A m \in Mutable :
    Engaged(s, m) =>
      /\ WorktreeOf(s, m) # None
      /\ \A n \in Mutable \ {m} :
           Engaged(s, n) =>
             WorktreeOf(s, m) # WorktreeOf(s, n) /\ ~ SameBranch(s, m, n)

(* A legal document: all of these together.  Each of them alone is too     *)
(* weak to be kept by every operation; together they are inductive.        *)
DocumentInv(s) ==
  /\ IsDocument(s)
  /\ DependencyOrder(s)
  /\ PoolRespected(s)
  /\ RequestLedger(s)
  /\ RetryBudget(s)
  /\ WorktreeIsolation(s)
=============================================================================
