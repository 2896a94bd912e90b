--------------------------- MODULE SchedulerProofs --------------------------
(***************************************************************************)
(* Theorems about Scheduler, Feedback and SchedulerLoops, for every        *)
(* workflow, pool, set of owners and number of initialisations that        *)
(* satisfy the assumptions of Workflow, DagState and Scheduler.            *)
(***************************************************************************)
EXTENDS Feedback, SchedulerLoops, DagStateProofs, SequenceTheorems

(***************************************************************************)
(* The inductive invariant: the document invariants of DagState, and what  *)
(* relates the document to the request files.  The request files matter    *)
(* because a result may answer any of them; evidence because a passed      *)
(* status alone does not tell that validateStageResult has seen it.        *)
(***************************************************************************)
IInv ==
  /\ DocumentInv(dag)
  /\ impact \in Impact
  /\ run \in Nat
  /\ issued \subseteq Node \X (Nat \ {0}) \X Nat
  /\ \A q \in issued : q[2] <= MaxRetries[q[1]] + 1
  /\ \A q \in DOMAIN dag.requests : <<q[1], q[2], run>> \in issued
  /\ \A n \in Node : dag.status[n] = "passed" => dag.evidence[n]

-----------------------------------------------------------------------------
(* The inductive invariant *)

\* The initial states satisfy the invariant.
LEMMA InitIInv == Init => IInv
<1> SUFFICES ASSUME Init PROVE IInv
  OBVIOUS
<1>1. DocumentInv(dag)
  BY InitialDocumentInv DEF Init
<1>2. DOMAIN dag.requests = {} /\ \A n \in Node : dag.status[n] = "pending"
  BY DEF Init, InitialDocument
<1> QED
  BY <1>1, <1>2 DEF IInv, Init

\* parallel:init
LEMMA ParallelInitIInv == IInv /\ ParallelInit => IInv'
<1> SUFFICES ASSUME IInv, ParallelInit PROVE IInv'
  OBVIOUS
<1>1. DocumentInv(dag')
  BY InitialDocumentInv DEF ParallelInit
<1>2. DOMAIN dag'.requests = {} /\ \A n \in Node : dag'.status[n] = "pending"
  BY DEF ParallelInit, InitialDocument
<1> QED
  BY <1>1, <1>2 DEF IInv, ParallelInit, DocumentInv, IsDocument

\* parallel:run
LEMMA RunSchedulerIInv ==
  ASSUME NEW owner \in Owner, IInv, RunScheduler(owner)
  PROVE  IInv'
<1>1. PICK o \in ScheduleRunnableNodes(dag, owner, DatabaseChangeRequired) :
        /\ dag' = o.document
        /\ issued' = issued \cup {<<q[1], q[2], run>> : q \in o.requests}
  BY DEF RunScheduler
<1>2. DocumentInv(dag) /\ IsDocument(dag) /\ DatabaseChangeRequired \in BOOLEAN
  BY DEF IInv, DocumentInv, DatabaseChangeRequired
<1>3. DocumentInv(dag')
  BY <1>1, <1>2, ScheduleInv
<1>4. /\ dag'.evidence = dag.evidence
      /\ \A n \in Node : dag.status[n] # "pending" => dag'.status[n] = dag.status[n]
      /\ \A n \in Node : dag.status[n] = "pending" => dag'.status[n] # "passed"
      /\ DOMAIN dag'.requests = DOMAIN dag.requests \cup o.requests
      /\ \A q \in o.requests : q[1] \in Node /\ q = <<q[1], dag.retry[q[1]] + 1>>
  BY <1>1, <1>2, ScheduleFields
<1>5. \A n \in Node : dag.retry[n] \in Nat /\ dag.retry[n] <= MaxRetries[n]
                      /\ MaxRetries[n] \in Nat
  BY <1>2, ValidWorkflow DEF IsDocument, DocumentInv, RetryBudget, RetryAssumption
<1>6. \A q \in o.requests :
        /\ <<q[1], q[2], run>> \in Node \X (Nat \ {0}) \X Nat
        /\ q[2] <= MaxRetries[q[1]] + 1
  BY <1>4, <1>5 DEF IInv
<1>7. run' = run /\ impact' = impact
  BY DEF RunScheduler
<1>8. \A n \in Node : dag'.status[n] = "passed" => dag'.evidence[n]
  BY <1>4 DEF IInv
<1>9. issued' \subseteq Node \X (Nat \ {0}) \X Nat
  BY <1>1, <1>6 DEF IInv
<1>10. \A q \in issued' : q[2] <= MaxRetries[q[1]] + 1
  BY <1>1, <1>6 DEF IInv
<1>11. \A q \in DOMAIN dag'.requests : <<q[1], q[2], run>> \in issued'
  BY <1>1, <1>4 DEF IInv
<1> QED
  BY <1>3, <1>7, <1>8, <1>9, <1>10, <1>11 DEF IInv

\* What parallel:complete applies is a result that validateStageResult accepts.
LEMMA ApplyResultCases ==
  ASSUME NEW n \in Node, ApplyResult(n), issued \subseteq Node \X (Nat \ {0}) \X Nat
  PROVE  \E r \in Result : /\ r.node = n
                           /\ ValidateStageResult(dag, r)
                           /\ dag' = ApplyStageResult(dag, r)
<1>1. PICK q \in issued, status \in ResultStatus, sound \in BOOLEAN, retryable \in BOOLEAN :
        LET r == [node |-> n, attempt |-> q[2], status |-> status,
                  sound |-> sound, retryable |-> retryable]
        IN  ValidateStageResult(dag, r) /\ dag' = ApplyStageResult(dag, r)
  BY DEF ApplyResult
<1> DEFINE r == [node |-> n, attempt |-> q[2], status |-> status,
                 sound |-> sound, retryable |-> retryable]
<1>2. r \in Result /\ r.node = n
  BY DEF Result
<1>3. ValidateStageResult(dag, r) /\ dag' = ApplyStageResult(dag, r)
  BY <1>1
<1> HIDE DEF r
<1> QED
  BY <1>2, <1>3

\* parallel:complete
LEMMA ApplyResultIInv ==
  ASSUME NEW n \in Node, IInv, ApplyResult(n)
  PROVE  IInv'
<1>1. PICK r \in Result : /\ r.node = n
                          /\ ValidateStageResult(dag, r)
                          /\ dag' = ApplyStageResult(dag, r)
  BY ApplyResultCases DEF IInv
<1>2. DocumentInv(dag')
  BY <1>1, ApplyStageResultInv DEF IInv
<1>3. r.sound = TRUE
  BY <1>1 DEF ValidateStageResult, Result
<1>4. /\ \A m \in Node :
           /\ dag'.status[m] = IF m = n THEN r.status ELSE dag.status[m]
           /\ dag'.evidence[m] = IF m = n THEN r.sound ELSE dag.evidence[m]
      /\ DOMAIN dag'.requests = DOMAIN dag.requests
  BY <1>1, ResultFields DEF IInv, DocumentInv
<1>5. \A m \in Node : dag'.status[m] = "passed" => dag'.evidence[m]
  BY <1>3, <1>4 DEF IInv
<1> QED
  BY <1>2, <1>4, <1>5 DEF IInv, ApplyResult

\* parallel:retry
LEMMA RetryIInv ==
  ASSUME NEW n \in Node, IInv, Retry(n)
  PROVE  IInv'
<1>1. DocumentInv(dag')
  BY PrepareRetryInv DEF Retry, IInv
<1>2. /\ dag'.status = [dag.status EXCEPT ![n] = "pending"]
      /\ dag'.evidence = dag.evidence /\ dag'.requests = dag.requests
  BY DEF Retry, PrepareRetry, IInv, DocumentInv, IsDocument
<1>3. \A m \in Node : dag'.status[m] = "passed" => dag'.evidence[m]
  BY <1>2 DEF IInv, DocumentInv, IsDocument
<1> QED
  BY <1>1, <1>2, <1>3 DEF IInv, Retry

\* The invariant is inductive.
LEMMA NextIInv == IInv /\ [Next]_vars => IInv'
<1> SUFFICES ASSUME IInv, [Next]_vars PROVE IInv'
  OBVIOUS
<1>1. CASE ParallelInit
  BY <1>1, ParallelInitIInv
<1>2. CASE \E owner \in Owner : RunScheduler(owner)
  BY <1>2, RunSchedulerIInv
<1>3. CASE \E n \in Node : ApplyResult(n)
  BY <1>3, ApplyResultIInv
<1>4. CASE \E n \in Node : Retry(n)
  BY <1>4, RetryIInv
<1>5. CASE WriteImpact
  BY <1>5 DEF WriteImpact, IInv, Impact
<1>6. CASE UNCHANGED vars
  BY <1>6 DEF vars, IInv
<1> QED
  BY <1>1, <1>2, <1>3, <1>4, <1>5, <1>6 DEF Next

\* Every reachable state satisfies the invariant.
LEMMA SpecIInv == Spec => []IInv
BY InitIInv, NextIInv, PTL DEF Spec

-----------------------------------------------------------------------------
(* The theorems *)

\* dag.json, the request files and impact.json always have their types.
THEOREM TypeCorrect == Spec => []TypeOK
<1>1. IInv => TypeOK
  BY DEF IInv, TypeOK, DocumentInv
<1> QED
  BY <1>1, SpecIInv, PTL

\* No node is sent to an agent before its dependencies are settled, and no
\* later command takes a dependency back (dependencySatisfied).
THEOREM DependencyOrderHolds == Spec => []DagDependencyOrder
<1>1. IInv => DagDependencyOrder
  BY DEF IInv, DocumentInv, DagDependencyOrder
<1> QED
  BY <1>1, SpecIInv, PTL

\* The agents at work never exceed a limit of the pool (getRunnableNodes).
THEOREM PoolHolds == Spec => []DagPoolRespected
<1>1. IInv => DagPoolRespected
  BY DEF IInv, DocumentInv, DagPoolRespected
<1> QED
  BY <1>1, SpecIInv, PTL

\* requests and the node table tell the same story (hasDuplicateRequest,
\* applyStageResult, prepareRetry).
THEOREM LedgerHolds == Spec => []DagRequestLedger
<1>1. IInv => DagRequestLedger
  BY DEF IInv, DocumentInv, DagRequestLedger
<1> QED
  BY <1>1, SpecIInv, PTL

\* Two started mutable nodes never share a worktree (worktreeConflicts).
THEOREM IsolationHolds == Spec => []DagWorktreeIsolation
<1>1. IInv => DagWorktreeIsolation
  BY DEF IInv, DocumentInv, DagWorktreeIsolation
<1> QED
  BY <1>1, SpecIInv, PTL

\* A node is sent to an agent under at most 1 + maxRetries request
\* identities, each with its request file (prepareRetry, runScheduler).
THEOREM BudgetHolds == Spec => []RequestBudget
<1>1. IInv => RequestBudget
  BY DEF IInv, DocumentInv, RequestBudget
<1> QED
  BY <1>1, SpecIInv, PTL

\* The pr stage only starts when everything upstream of it has passed with
\* evidence or was skipped.
THEOREM GateHolds == Spec => []DeliveryGate
<1>1. ASSUME IInv PROVE DeliveryGate
  <2> DEFINE U == {u \in Node : dag.status[u] \in {"passed", "skipped"}}
  <2>1. ASSUME NEW n \in Node, dag.status[n] \in {"running", "passed"}
        PROVE  DependsOn[n] \subseteq U
    <3>1. DependencySatisfied(n, dag.status)
      BY <1>1, <2>1 DEF IInv, DocumentInv, DependencyOrder
    <3> QED
      BY <3>1, ValidWorkflow DEF DependencySatisfied, NodesAssumption
  <2>2. \A u \in U : \/ dag.status[u] = "skipped"
                     \/ /\ dag.status[u] = "passed" /\ dag.evidence[u]
                        /\ DependsOn[u] \subseteq U
    BY <1>1, <2>1 DEF IInv
  <2>3. U \in SUBSET Node
    OBVIOUS
  <2> HIDE DEF U
  <2> QED
    BY <2>1, <2>2, <2>3 DEF DeliveryGate
<1> QED
  BY <1>1, SpecIInv, PTL

\* Within one run of the task no command changes a passed or skipped node.
LEMMA SettledStep ==
  ASSUME IsDocument(dag), issued \subseteq Node \X (Nat \ {0}) \X Nat, run \in Nat,
         Next, run' = run,
         NEW n \in Node, dag.status[n] \in {"passed", "skipped"}
  PROVE  /\ dag'.status[n] = dag.status[n]
         /\ dag'.evidence[n] = dag.evidence[n]
<1>1. ~ ParallelInit
  BY DEF ParallelInit
<1>2. ASSUME NEW owner \in Owner, RunScheduler(owner)
      PROVE  dag'.status[n] = dag.status[n] /\ dag'.evidence[n] = dag.evidence[n]
  <2>1. PICK o \in ScheduleRunnableNodes(dag, owner, DatabaseChangeRequired) :
          dag' = o.document
    BY <1>2 DEF RunScheduler
  <2>2. DatabaseChangeRequired \in BOOLEAN
    BY DEF DatabaseChangeRequired
  <2> QED
    BY <2>1, <2>2, ScheduleFields
<1>3. ASSUME NEW m \in Node, ApplyResult(m)
      PROVE  dag'.status[n] = dag.status[n] /\ dag'.evidence[n] = dag.evidence[n]
  <2>1. PICK r \in Result : ValidateStageResult(dag, r) /\ dag' = ApplyStageResult(dag, r)
    BY <1>3, ApplyResultCases
  <2>2. n # r.node
    BY <2>1 DEF ValidateStageResult
  <2> QED
    BY <2>1, <2>2, ResultFields
<1>4. ASSUME NEW m \in Node, Retry(m)
      PROVE  dag'.status[n] = dag.status[n] /\ dag'.evidence[n] = dag.evidence[n]
  <2>1. n # m /\ dag' = PrepareRetry(dag, m)
    BY <1>4 DEF Retry, CanRetry
  <2> QED
    BY <2>1, RetryFields
<1>5. CASE WriteImpact
  BY <1>5 DEF WriteImpact
<1> QED
  BY <1>1, <1>2, <1>3, <1>4, <1>5 DEF Next

\* Within one run of the task a passed or skipped node keeps its status and
\* its evidence.
THEOREM SettledStays == Spec => SettledIsFinal
<1> DEFINE Final == \A n \in Node :
             dag.status[n] \in {"passed", "skipped"} /\ run' = run =>
               /\ dag'.status[n] = dag.status[n]
               /\ dag'.evidence[n] = dag.evidence[n]
<1>1. IInv /\ [Next]_vars => [Final]_vars
  BY SettledStep DEF IInv, DocumentInv
<1> QED
  BY <1>1, SpecIInv, PTL DEF Spec, SettledIsFinal

\* A scheduler run leaves no pending node below a failed or blocked one
\* (propagateDependencyBlocks).
THEOREM FailureReaches == Spec => []FailureReachesDescendants
<1>1. ASSUME IInv PROVE FailureReachesDescendants
  <2> SUFFICES ASSUME NEW owner \in Owner,
                      NEW o \in ScheduleRunnableNodes(dag, owner, DatabaseChangeRequired),
                      NEW n \in PendingNodes(o.document.status)
               PROVE  ~ HasFailedDependency(n, o.document.status)
    BY DEF FailureReachesDescendants, SchedulerRuns
  <2> DEFINE change == DatabaseChangeRequired
             marked == MarkConditionalNodes(dag, change)
  <2>1. IsDocument(dag) /\ change \in BOOLEAN
    BY <1>1 DEF IInv, DocumentInv, DatabaseChangeRequired
  <2>2. PICK B \in SUBSET PendingNodes(marked.status), S \in SUBSET Node :
          LET p == Prepared(dag, owner, change, B)
          IN  /\ IsBlockSet(B, marked.status)
              /\ S \subseteq ReadyNodes(p.status, p.attempt)
              /\ o = Outcome(p, S)
    BY <2>1, ScheduleIsOutcome
  <2> DEFINE p == Prepared(dag, owner, change, B)
             D == DispatchedNodes(p, S)
             t == Outcome(p, S).document
  <2>3. /\ IsDocument(p)
        /\ \A k \in Node : p.status[k] = IF k \in B THEN "blocked" ELSE marked.status[k]
    BY <2>1, PreparedFields
  <2>4. \A k \in Node : t.status[k] = IF k \in D THEN "running" ELSE p.status[k]
    BY <2>3, OutcomeFields
  <2>5. IsBlockSet(B, marked.status) /\ o.document = t
    BY <2>2 DEF Outcome
  <2> HIDE DEF marked, p, D, t
  <2>6. n \in Node /\ n \notin B /\ marked.status[n] = "pending"
    BY <2>3, <2>4, <2>5 DEF PendingNodes
  <2>7. DependsOn[n] \cap (FailedNodes(marked.status) \cup B) = {}
    BY <2>5, <2>6 DEF IsBlockSet, PendingNodes
  <2>8. FailedNodes(t.status) \subseteq FailedNodes(marked.status) \cup B
    BY <2>3, <2>4 DEF FailedNodes
  <2> QED
    BY <2>5, <2>7, <2>8 DEF HasFailedDependency
<1> QED
  BY <1>1, SpecIInv, PTL

\* Unless a worktree conflict stops it, a scheduler run leaves no ready node
\* the pool has room for (getRunnableNodes, hasDuplicateRequest).
THEOREM NobodyIsPassedOver == Spec => []NoReadyNodeIsPassedOver
<1>1. ASSUME IInv PROVE NoReadyNodeIsPassedOver
  <2> SUFFICES ASSUME NEW owner \in Owner,
                      NEW o \in ScheduleRunnableNodes(dag, owner, DatabaseChangeRequired),
                      ~ o.stopped,
                      NEW n \in ReadyNodes(o.document.status, o.document.attempt)
               PROVE  ~ PoolHasRoom(n, RunningNodes(o.document.status))
    BY DEF NoReadyNodeIsPassedOver, SchedulerRuns
  <2> DEFINE change == DatabaseChangeRequired
  <2>1. DocumentInv(dag) /\ IsDocument(dag) /\ change \in BOOLEAN
    BY <1>1 DEF IInv, DocumentInv, DatabaseChangeRequired
  <2>2. PICK B \in SUBSET PendingNodes(MarkConditionalNodes(dag, change).status),
             S \in SUBSET Node :
          LET p == Prepared(dag, owner, change, B)
          IN  /\ S \subseteq ReadyNodes(p.status, p.attempt)
              /\ IsRunnableSet(S, p.status, p.attempt)
              /\ o = Outcome(p, S)
    BY <2>1, ScheduleIsOutcome
  <2> DEFINE p == Prepared(dag, owner, change, B)
             D == DispatchedNodes(p, S)
             t == Outcome(p, S).document
             R == RunningNodes(p.status)
  <2>3. /\ DocumentInv(p) /\ IsDocument(p)
        /\ S \subseteq ReadyNodes(p.status, p.attempt)
        /\ IsRunnableSet(S, p.status, p.attempt)
        /\ o.document = t
        /\ S = {} \/ ~ WorktreeConflict(AllocateWorktrees(p, S))
    BY <2>1, <2>2, PreparedInv DEF Outcome, DocumentInv
  <2> HIDE DEF p
  <2>4. D = S
    <3>1. ASSUME NEW m \in S PROVE ~ DuplicateRequest(p, m)
      <4>1. /\ m \in Node /\ p.attempt[m] = 0 /\ p.retry[m] \in Nat
        BY <2>3 DEF ReadyNodes, IsDocument
      <4>2. NextRequest(p, m) \notin UNION {{k} \X (1..LastRequest(p, k)) : k \in Node}
        BY <4>1 DEF NextRequest, LastRequest
      <4> QED
        BY <2>3, <4>2 DEF DuplicateRequest, DocumentInv, RequestLedger
    <3>2. ASSUME NEW m \in S PROVE ~ WorktreeConflict(AllocateWorktrees(p, UpTo(S, m)))
      <4>1. UpTo(S, m) \in SUBSET S
        BY DEF UpTo
      <4> QED
        BY <2>3, <4>1, ConflictStays
    <3> QED
      BY <3>1, <3>2 DEF DispatchedNodes
  <2>5. n \in ReadyNodes(p.status, p.attempt) /\ n \notin S /\ n \in Node
    <3>1. n \in ReadyNodes(p.status, p.attempt) \ D
      BY <2>3, ReadyAfterDispatch
    <3> QED
      BY <2>4, <3>1 DEF ReadyNodes
  <2>6. ~ PoolHasRoom(n, R \cup {m \in S : Before(m, n)})
    BY <2>3, <2>5 DEF IsRunnableSet
  <2>7. RunningNodes(t.status) = R \cup S
    <3>1. \A k \in Node : t.status[k] = IF k \in D THEN "running" ELSE p.status[k]
      BY <2>3, OutcomeFields
    <3> HIDE DEF t, D
    <3> QED
      BY <2>4, <3>1 DEF RunningNodes
  <2>8. R \cup S \in SUBSET Node /\ R \cup {m \in S : Before(m, n)} \in SUBSET (R \cup S)
    BY DEF RunningNodes
  <2> HIDE DEF t, R
  <2>9. ~ PoolHasRoom(n, R \cup S)
    BY <2>5, <2>6, <2>8, RoomShrinks
  <2> QED
    BY <2>3, <2>7, <2>9
<1> QED
  BY <1>1, SpecIInv, PTL

-----------------------------------------------------------------------------
(***************************************************************************)
(* The feedback loop opens nodes again that have been started, so that the *)
(* dependency order and the link between status and request end there.     *)
(* What is left of the document invariants is kept by every command and by *)
(* the loop, and it is enough: a node with a request identity is never     *)
(* ready, and a running node's request is the one that waits.              *)
(***************************************************************************)
KeptDocument(s) ==
  /\ IsDocument(s)
  /\ PoolRespected(s)
  /\ RetryBudget(s)
  /\ WorktreeIsolation(s)
  /\ \A n \in Node :
       /\ s.attempt[n] \in {0, s.retry[n] + 1}
       /\ s.status[n] \in {"running", "passed", "failed"} => s.attempt[n] # 0
       /\ s.status[n] = "running" =>
            /\ <<n, s.attempt[n]>> \in DOMAIN s.requests
            /\ s.requests[<<n, s.attempt[n]>>] = "queued"

(* Every request file of this run has its request on record.               *)
FInv ==
  /\ KeptDocument(dag)
  /\ impact \in Impact
  /\ run \in Nat
  /\ issued \subseteq Node \X (Nat \ {0}) \X Nat
  /\ \A q \in issued : q[3] <= run /\ (q[3] = run => <<q[1], q[2]>> \in DOMAIN dag.requests)

\* The document invariants imply what is kept.
LEMMA LegalIsKept ==
  ASSUME NEW s, DocumentInv(s)
  PROVE  KeptDocument(s)
<1>1. ASSUME NEW n \in Node, s.status[n] = "running"
      PROVE  /\ <<n, s.attempt[n]>> \in DOMAIN s.requests
             /\ s.requests[<<n, s.attempt[n]>>] = "queued"
  <2>1. s.attempt[n] # 0 /\ s.attempt[n] = s.retry[n] + 1 /\ s.retry[n] \in Nat
    BY <1>1 DEF DocumentInv, RequestLedger, IsDocument
  <2>2. s.attempt[n] \in 1..LastRequest(s, n)
    BY <2>1 DEF LastRequest
  <2> QED
    BY <1>1, <2>1, <2>2 DEF DocumentInv, RequestLedger
<1> QED
  BY <1>1 DEF DocumentInv, KeptDocument, RequestLedger

\* A scheduler run keeps it, also of a document that the loop has reopened.
LEMMA ScheduleKept ==
  ASSUME NEW s, KeptDocument(s), NEW owner \in Owner, NEW change \in BOOLEAN,
         NEW o \in ScheduleRunnableNodes(s, owner, change)
  PROVE  KeptDocument(o.document)
<1> DEFINE d == o.document
<1>1. IsDocument(s)
  BY DEF KeptDocument
<1>2. /\ IsDocument(d) /\ d.retry = s.retry
      /\ \A n \in Node : s.status[n] # "pending" => d.status[n] = s.status[n]
      /\ \A n \in Node : s.status[n] = "pending" =>
                           d.status[n] \in {"pending", "skipped", "blocked", "running"}
      /\ \A n \in Node :
           IF s.status[n] = "pending" /\ d.status[n] = "running"
             THEN d.attempt[n] = s.retry[n] + 1 /\ <<n, s.retry[n] + 1>> \in o.requests
             ELSE d.attempt[n] = s.attempt[n]
      /\ DOMAIN d.requests = DOMAIN s.requests \cup o.requests
      /\ \A q \in o.requests : d.requests[q] = "queued"
      /\ \A q \in DOMAIN s.requests : d.requests[q] = s.requests[q]
  BY <1>1, ScheduleFields
<1>3. PICK B \in SUBSET PendingNodes(MarkConditionalNodes(s, change).status),
           S \in SUBSET Node :
        LET p == Prepared(s, owner, change, B)
        IN  /\ S \subseteq ReadyNodes(p.status, p.attempt)
            /\ IsRunnableSet(S, p.status, p.attempt)
            /\ o = Outcome(p, S)
  BY ScheduleIsOutcome
<1> DEFINE p == Prepared(s, owner, change, B)
<1>4. /\ IsDocument(p) /\ p.retry = s.retry /\ p.attempt = s.attempt
      /\ p.worktree = s.worktree
      /\ \A n \in Node :
           \/ p.status[n] = s.status[n]
           \/ s.status[n] = "pending" /\ p.status[n] \in {"skipped", "blocked"}
  BY <1>1, PreparedFields
<1>5. IsRunnableSet(S, p.status, p.attempt) /\ d = Outcome(p, S).document
  BY <1>3
<1> HIDE DEF p, d
<1>6. PoolRespected(d)
  <2>1. RunningNodes(p.status) \subseteq RunningNodes(s.status)
    BY <1>4 DEF RunningNodes
  <2>2. PoolRespected(p)
    BY <2>1, PoolShrinks DEF KeptDocument
  <2>3. \A n \in Node : d.status[n] = IF n \in DispatchedNodes(p, S) THEN "running"
                                                                   ELSE p.status[n]
    BY <1>4, <1>5, OutcomeFields
  <2>4. RunningNodes(d.status) \subseteq RunningNodes(p.status) \cup S
    BY <2>3 DEF RunningNodes, DispatchedNodes
  <2> QED
    BY <1>5, <2>2, <2>4, RunnableSetFits
<1>7. WorktreeIsolation(d)
  <2>1. WorktreeIsolation(p)
    BY <1>4 DEF KeptDocument, WorktreeIsolation, Engaged, WorktreeOf, BranchOf, SameBranch
  <2> QED
    BY <1>4, <1>5, <2>1, DispatchKeepsIsolation
<1>8. RetryBudget(d)
  BY <1>2 DEF KeptDocument, RetryBudget
<1>9. ASSUME NEW n \in Node
      PROVE  /\ d.attempt[n] \in {0, d.retry[n] + 1}
             /\ d.status[n] \in {"running", "passed", "failed"} => d.attempt[n] # 0
             /\ d.status[n] = "running" =>
                  /\ <<n, d.attempt[n]>> \in DOMAIN d.requests
                  /\ d.requests[<<n, d.attempt[n]>>] = "queued"
  <2>1. s.retry[n] \in Nat
    BY <1>1 DEF IsDocument
  <2>2. CASE s.status[n] = "pending" /\ d.status[n] = "running"
    <3>1. d.attempt[n] = s.retry[n] + 1 /\ d.retry[n] = s.retry[n]
      BY <1>2, <2>2
    <3>2. <<n, s.retry[n] + 1>> \in o.requests
      BY <1>2, <2>2
    <3>3. /\ <<n, s.retry[n] + 1>> \in DOMAIN d.requests
          /\ d.requests[<<n, s.retry[n] + 1>>] = "queued"
      BY <1>2, <3>2
    <3> QED
      BY <2>1, <3>1, <3>3
  <2>3. CASE ~ (s.status[n] = "pending" /\ d.status[n] = "running")
    <3>1. d.attempt[n] = s.attempt[n] /\ d.retry[n] = s.retry[n]
      BY <1>2, <2>3
    <3>2. \/ d.status[n] = s.status[n]
          \/ d.status[n] \in {"pending", "skipped", "blocked"}
      BY <1>2, <2>3
    <3>3. /\ s.attempt[n] \in {0, s.retry[n] + 1}
          /\ s.status[n] \in {"running", "passed", "failed"} => s.attempt[n] # 0
          /\ s.status[n] = "running" =>
               /\ <<n, s.attempt[n]>> \in DOMAIN s.requests
               /\ s.requests[<<n, s.attempt[n]>>] = "queued"
      BY DEF KeptDocument
    <3>4. ASSUME d.status[n] = "running"
          PROVE  /\ <<n, s.attempt[n]>> \in DOMAIN d.requests
                 /\ d.requests[<<n, s.attempt[n]>>] = "queued"
      BY <1>2, <3>2, <3>3, <3>4
    <3> QED
      BY <3>1, <3>2, <3>3, <3>4
  <2> QED
    BY <2>2, <2>3
<1> QED
  BY <1>2, <1>6, <1>7, <1>8, <1>9 DEF KeptDocument, d

\* So does a result, a retry,
LEMMA ResultKept ==
  ASSUME NEW s, KeptDocument(s), NEW r \in Result, ValidateStageResult(s, r)
  PROVE  KeptDocument(ApplyStageResult(s, r))
<1> DEFINE t == ApplyStageResult(s, r)
           n == r.node
<1>1. /\ n \in Node /\ r.status \in ResultStatus
      /\ s.status[n] = "running" /\ IsDocument(s)
  BY DEF Result, ValidateStageResult, KeptDocument
<1>2. s.attempt[n] # 0 /\ r.attempt = s.attempt[n]
  BY <1>1 DEF KeptDocument, ValidateStageResult
<1>3. /\ IsDocument(t)
      /\ \A m \in Node : t.status[m] = IF m = n THEN r.status ELSE s.status[m]
      /\ t.retry = s.retry /\ t.attempt = s.attempt /\ t.worktree = s.worktree
      /\ DOMAIN t.requests = DOMAIN s.requests
      /\ \A q \in DOMAIN s.requests :
           t.requests[q] = IF q = <<n, r.attempt>> THEN r.status ELSE s.requests[q]
  BY <1>1, ResultFields
<1> HIDE DEF t, n
<1>4. PoolRespected(t)
  <2>1. RunningNodes(t.status) \subseteq RunningNodes(s.status)
    BY <1>1, <1>3 DEF RunningNodes
  <2> QED
    BY <2>1, PoolShrinks DEF KeptDocument
<1>5. RetryBudget(t) /\ WorktreeIsolation(t)
  BY <1>3 DEF KeptDocument, RetryBudget, WorktreeIsolation, Engaged, WorktreeOf, BranchOf, SameBranch
<1>6. ASSUME NEW m \in Node
      PROVE  /\ t.attempt[m] \in {0, t.retry[m] + 1}
             /\ t.status[m] \in {"running", "passed", "failed"} => t.attempt[m] # 0
             /\ t.status[m] = "running" =>
                  /\ <<m, t.attempt[m]>> \in DOMAIN t.requests
                  /\ t.requests[<<m, t.attempt[m]>>] = "queued"
  <2>1. CASE m = n
    BY <1>1, <1>2, <1>3, <2>1 DEF KeptDocument, ResultStatus
  <2>2. CASE m # n
    BY <1>3, <2>2 DEF KeptDocument
  <2> QED
    BY <2>1, <2>2
<1> QED
  BY <1>3, <1>4, <1>5, <1>6 DEF KeptDocument, t

LEMMA RetryKept ==
  ASSUME NEW s, KeptDocument(s), NEW n \in Node, CanRetry(s, n)
  PROVE  KeptDocument(PrepareRetry(s, n))
<1> DEFINE t == PrepareRetry(s, n)
<1>1. /\ IsDocument(s) /\ s.status[n] = "failed" /\ s.retry[n] \in Nat
      /\ s.retry[n] < MaxRetries[n] /\ MaxRetries[n] \in Nat /\ s.attempt[n] # 0
  BY ValidWorkflow DEF KeptDocument, CanRetry, IsDocument, RetryAssumption
<1>2. /\ IsDocument(t)
      /\ t.status[n] = "pending" /\ t.retry[n] = s.retry[n] + 1 /\ t.attempt[n] = 0
      /\ \A m \in Node \ {n} : /\ t.status[m] = s.status[m] /\ t.retry[m] = s.retry[m]
                               /\ t.attempt[m] = s.attempt[m]
      /\ t.worktree = s.worktree /\ t.requests = s.requests
  BY <1>1, RetryFields
<1> HIDE DEF t
<1>3. PoolRespected(t)
  <2>1. RunningNodes(t.status) \subseteq RunningNodes(s.status)
    BY <1>2 DEF RunningNodes
  <2> QED
    BY <2>1, PoolShrinks DEF KeptDocument
<1>4. WorktreeIsolation(t)
  <2>1. \A m \in Node : Engaged(t, m) <=> Engaged(s, m)
    BY <1>1, <1>2 DEF Engaged
  <2> QED
    BY <1>2, <2>1, ValidWorkflow
       DEF KeptDocument, WorktreeIsolation, WorktreeOf, BranchOf, SameBranch, NodesAssumption
<1>5. RetryBudget(t)
  BY <1>1, <1>2 DEF KeptDocument, RetryBudget
<1>6. ASSUME NEW m \in Node
      PROVE  /\ t.attempt[m] \in {0, t.retry[m] + 1}
             /\ t.status[m] \in {"running", "passed", "failed"} => t.attempt[m] # 0
             /\ t.status[m] = "running" =>
                  /\ <<m, t.attempt[m]>> \in DOMAIN t.requests
                  /\ t.requests[<<m, t.attempt[m]>>] = "queued"
  <2>1. CASE m = n
    BY <1>2, <2>1
  <2>2. CASE m # n
    BY <1>2, <2>2 DEF KeptDocument
  <2> QED
    BY <2>1, <2>2
<1> QED
  BY <1>2, <1>3, <1>4, <1>5, <1>6 DEF KeptDocument, t

\* and the loop, which leaves running nodes and all identities alone.
LEMMA ReopenFields ==
  ASSUME IsDocument(dag), NEW N \in SUBSET Node, NEW t, t = Reopen(N)
  PROVE  /\ IsDocument(t)
         /\ \A n \in Node : t.status[n] = IF n \in N THEN "pending" ELSE dag.status[n]
         /\ t.retry = dag.retry /\ t.attempt = dag.attempt /\ t.evidence = dag.evidence
         /\ t.worktree = dag.worktree /\ t.requests = dag.requests
<1> DEFINE f == [n \in Node |-> IF n \in N THEN "pending" ELSE dag.status[n]]
<1>1. dag \in [status : [Node -> Status], retry : [Node -> Nat], attempt : [Node -> Nat],
               evidence : [Node -> BOOLEAN], worktree : [Node -> Path \cup {None}],
               requests : {dag.requests}, lock : Owner \cup {None}]
  BY DEF IsDocument
<1>2. f \in [Node -> Status]
  BY <1>1 DEF Status
<1>3. t = [dag EXCEPT !.status = f]
  BY DEF Reopen
<1>4. \A n \in Node : f[n] = IF n \in N THEN "pending" ELSE dag.status[n]
  OBVIOUS
<1> HIDE DEF f
<1>5. /\ t.status = f
      /\ t.retry = dag.retry /\ t.attempt = dag.attempt /\ t.evidence = dag.evidence
      /\ t.worktree = dag.worktree /\ t.requests = dag.requests
      /\ t \in [status : [Node -> Status], retry : [Node -> Nat], attempt : [Node -> Nat],
                evidence : [Node -> BOOLEAN], worktree : [Node -> Path \cup {None}],
                requests : {t.requests}, lock : Owner \cup {None}]
  BY <1>1, <1>2, <1>3
<1> QED
  BY <1>4, <1>5 DEF IsDocument

LEMMA ReopenKept ==
  ASSUME KeptDocument(dag)
  PROVE  KeptDocument(Reopen(ClosedEnd))
<1> DEFINE t == Reopen(ClosedEnd)
<1>1. /\ IsDocument(t)
      /\ \A n \in Node : t.status[n] = IF n \in ClosedEnd THEN "pending" ELSE dag.status[n]
      /\ t.retry = dag.retry /\ t.attempt = dag.attempt
      /\ t.worktree = dag.worktree /\ t.requests = dag.requests
  <2>1. IsDocument(dag) /\ ClosedEnd \in SUBSET Node
    BY FeedbackAssumption DEF KeptDocument, ClosedEnd
  <2> QED
    BY <2>1, ReopenFields
<1> HIDE DEF t
<1>2. PoolRespected(t)
  <2>1. RunningNodes(t.status) \subseteq RunningNodes(dag.status)
    BY <1>1 DEF RunningNodes
  <2> QED
    BY <2>1, PoolShrinks DEF KeptDocument
<1>3. RetryBudget(t) /\ WorktreeIsolation(t)
  BY <1>1 DEF KeptDocument, RetryBudget, WorktreeIsolation, Engaged, WorktreeOf, BranchOf, SameBranch
<1> QED
  BY <1>1, <1>2, <1>3 DEF KeptDocument, t

-----------------------------------------------------------------------------
(* The steps of the feedback specification *)

\* The initial states satisfy the invariant.
LEMMA InitFInv == FeedbackInit => FInv
<1>1. InitialDocument.requests = [q \in {} |-> "queued"] /\ KeptDocument(InitialDocument)
  BY InitialDocumentInv, LegalIsKept DEF InitialDocument
<1> QED
  BY <1>1 DEF FeedbackInit, Init, FInv

\* Every command of the scheduler keeps it.
LEMMA SchedulerStepFInv == FInv /\ Next => FInv'
<1> SUFFICES ASSUME FInv, Next PROVE FInv'
  OBVIOUS
<1>1. CASE ParallelInit
  <2>1. KeptDocument(dag')
    BY <1>1, InitialDocumentInv, LegalIsKept DEF ParallelInit
  <2>2. /\ run \in Nat /\ run' = run + 1 /\ issued' = issued /\ impact' = impact
    BY <1>1 DEF ParallelInit, FInv
  <2>3. ASSUME NEW q \in issued PROVE q[3] <= run' /\ q[3] # run'
    <3>1. q[3] \in Nat /\ q[3] <= run
      BY DEF FInv
    <3> QED
      BY <2>2, <3>1
  <2> QED
    BY <2>1, <2>2, <2>3 DEF FInv
<1>2. ASSUME NEW owner \in Owner, RunScheduler(owner) PROVE FInv'
  <2>1. PICK o \in ScheduleRunnableNodes(dag, owner, DatabaseChangeRequired) :
          /\ dag' = o.document
          /\ issued' = issued \cup {<<q[1], q[2], run>> : q \in o.requests}
    BY <1>2 DEF RunScheduler
  <2>2. impact' = impact /\ run' = run /\ DatabaseChangeRequired \in BOOLEAN
    BY <1>2 DEF RunScheduler, DatabaseChangeRequired
  <2>3. KeptDocument(dag')
    BY <2>1, <2>2, ScheduleKept DEF FInv
  <2>4. IsDocument(dag) /\ \A n \in Node : dag.retry[n] \in Nat
    BY DEF FInv, KeptDocument, IsDocument
  <2>5. /\ DOMAIN dag'.requests = DOMAIN dag.requests \cup o.requests
        /\ \A q \in o.requests : q[1] \in Node /\ q = <<q[1], dag.retry[q[1]] + 1>>
    BY <2>1, <2>2, <2>4, ScheduleFields
  <2>6. ASSUME NEW q \in o.requests
        PROVE  /\ <<q[1], q[2], run>> \in Node \X (Nat \ {0}) \X Nat
               /\ <<q[1], q[2]>> \in o.requests
    <3>1. q[1] \in Node /\ q = <<q[1], dag.retry[q[1]] + 1>> /\ dag.retry[q[1]] \in Nat
      BY <2>4, <2>5
    <3>2. q[2] = dag.retry[q[1]] + 1 /\ q[2] \in Nat \ {0}
      BY <3>1
    <3>3. <<q[1], q[2]>> = q
      BY <3>1, <3>2
    <3> QED
      BY <3>1, <3>2, <3>3 DEF FInv
  <2>7. \A q \in issued' : /\ q \in Node \X (Nat \ {0}) \X Nat
                           /\ q[3] <= run
                           /\ q[3] = run => <<q[1], q[2]>> \in DOMAIN dag'.requests
    <3>1. ASSUME NEW q \in issued
          PROVE  /\ q \in Node \X (Nat \ {0}) \X Nat
                 /\ q[3] <= run
                 /\ q[3] = run => <<q[1], q[2]>> \in DOMAIN dag'.requests
      BY <2>5 DEF FInv
    <3>2. ASSUME NEW q \in o.requests, NEW k, k = <<q[1], q[2], run>>
          PROVE  /\ k \in Node \X (Nat \ {0}) \X Nat
                 /\ k[3] <= run
                 /\ k[3] = run => <<k[1], k[2]>> \in DOMAIN dag'.requests
      <4>1. /\ k \in Node \X (Nat \ {0}) \X Nat
            /\ <<q[1], q[2]>> \in DOMAIN dag'.requests /\ run \in Nat
        BY <2>5, <2>6, <3>2 DEF FInv
      <4> QED
        BY <3>2, <4>1
    <3> QED
      BY <2>1, <3>1, <3>2
  <2> QED
    BY <2>2, <2>3, <2>7 DEF FInv
<1>3. ASSUME NEW n \in Node, ApplyResult(n) PROVE FInv'
  <2>1. PICK r \in Result : ValidateStageResult(dag, r) /\ dag' = ApplyStageResult(dag, r)
    BY <1>3, ApplyResultCases DEF FInv
  <2>2. KeptDocument(dag')
    BY <2>1, ResultKept DEF FInv
  <2>3. DOMAIN dag'.requests = DOMAIN dag.requests
    BY <2>1, ResultFields DEF FInv, KeptDocument
  <2> QED
    BY <1>3, <2>2, <2>3 DEF ApplyResult, FInv
<1>4. ASSUME NEW n \in Node, Retry(n) PROVE FInv'
  <2>1. CanRetry(dag, n) /\ dag' = PrepareRetry(dag, n)
    BY <1>4 DEF Retry
  <2>2. KeptDocument(dag')
    BY <2>1, RetryKept DEF FInv
  <2>3. dag'.requests = dag.requests
    BY <2>1, RetryFields DEF FInv, KeptDocument
  <2> QED
    BY <1>4, <2>2, <2>3 DEF Retry, FInv
<1>5. CASE WriteImpact
  BY <1>5 DEF WriteImpact, FInv, Impact
<1> QED
  BY <1>1, <1>2, <1>3, <1>4, <1>5 DEF Next

\* The invariant of the feedback specification is inductive.
LEMMA FeedbackNextFInv == FInv /\ [FeedbackNext]_fvars => FInv'
<1>1. ASSUME FInv, ResetNodes PROVE FInv'
  <2>1. /\ dag' = Reopen(ClosedEnd)
        /\ UNCHANGED <<issued, impact, run>>
    BY <1>1 DEF ResetNodes
  <2>2. KeptDocument(dag')
    BY <1>1, <2>1, ReopenKept DEF FInv
  <2>3. dag'.requests = dag.requests
    <3>1. IsDocument(dag) /\ ClosedEnd \in SUBSET Node
      BY <1>1, FeedbackAssumption DEF FInv, KeptDocument, ClosedEnd
    <3> QED
      BY <2>1, <3>1, ReopenFields
  <2> QED
    BY <1>1, <2>1, <2>2, <2>3 DEF FInv
<1>2. ASSUME FInv, UNCHANGED fvars PROVE FInv'
  BY <1>2 DEF fvars, vars, FInv
<1> QED
  BY <1>1, <1>2, SchedulerStepFInv DEF FeedbackNext, SchedulerStep

\* Every reachable state satisfies it.
LEMMA FeedbackFInv == FeedbackSpec => []FInv
BY InitFInv, FeedbackNextFInv, PTL DEF FeedbackSpec

-----------------------------------------------------------------------------
(* The theorems about the feedback loop *)

\* However often feedback:loop opens the end of the life cycle again, the agents
\* at work stay within the pool, no two started nodes share a worktree, and no
\* node is retried past its limit.
THEOREM FeedbackStaysLegal ==
  FeedbackSpec => [](DagPoolRespected /\ DagWorktreeIsolation /\ RetryBudget(dag))
<1>1. FInv => DagPoolRespected /\ DagWorktreeIsolation /\ RetryBudget(dag)
  BY DEF FInv, KeptDocument, DagPoolRespected, DagWorktreeIsolation
<1> QED
  BY <1>1, FeedbackFInv, PTL

\* The loop takes back nothing but the end of the life cycle: what has passed or
\* was skipped upstream keeps its status and evidence (feedback-reset-nodes).
THEOREM UpstreamStays == FeedbackSpec => FeedbackKeepsUpstream
<1> DEFINE Final == \A n \in Node \ LifecycleEnd :
             dag.status[n] \in {"passed", "skipped"} /\ run' = run =>
               /\ dag'.status[n] = dag.status[n]
               /\ dag'.evidence[n] = dag.evidence[n]
<1>1. ASSUME FInv, [FeedbackNext]_fvars PROVE [Final]_fvars
  <2>1. CASE SchedulerStep
    BY <1>1, <2>1, SettledStep DEF SchedulerStep, FInv, KeptDocument
  <2>2. CASE ResetNodes
    <3>1. IsDocument(dag) /\ ClosedEnd \in SUBSET Node /\ ClosedEnd \subseteq LifecycleEnd
      BY <1>1, FeedbackAssumption DEF FInv, KeptDocument, ClosedEnd
    <3>2. /\ \A n \in Node : dag'.status[n] = IF n \in ClosedEnd THEN "pending"
                                              ELSE dag.status[n]
          /\ dag'.evidence = dag.evidence
      BY <2>2, <3>1, ReopenFields DEF ResetNodes
    <3> QED
      BY <3>1, <3>2
  <2> QED
    BY <1>1, <2>1, <2>2 DEF FeedbackNext
<1> QED
  BY <1>1, FeedbackFInv, PTL DEF FeedbackSpec, FeedbackKeepsUpstream

\* A node is never started under a request identity it has had before in this run
\* of the task, loop or no loop (getRunnableNodes, hasDuplicateRequest).
THEOREM SentOnce == FeedbackSpec => RequestsAreSentOnce
<1> DEFINE Fresh == \A n \in Node :
             dag.status[n] # "running" /\ dag'.status[n] = "running" =>
               <<n, dag'.attempt[n], run>> \notin issued
<1>1. ASSUME FInv, Next PROVE Fresh
  <2>1. IsDocument(dag) /\ issued \subseteq Node \X (Nat \ {0}) \X Nat
    BY <1>1 DEF FInv, KeptDocument
  <2>2. CASE ParallelInit
    <3>1. \A n \in Node : dag'.status[n] = "pending"
      BY <2>2 DEF ParallelInit, InitialDocument
    <3> QED
      BY <3>1
  <2>3. ASSUME NEW owner \in Owner, RunScheduler(owner) PROVE Fresh
    <3>1. PICK o \in ScheduleRunnableNodes(dag, owner, DatabaseChangeRequired) :
            dag' = o.document
      BY <2>3 DEF RunScheduler
    <3>2. DatabaseChangeRequired \in BOOLEAN
      BY DEF DatabaseChangeRequired
    <3>3. /\ \A n \in Node : dag.status[n] # "pending" => dag'.status[n] = dag.status[n]
          /\ \A n \in Node :
               dag.status[n] = "pending" /\ dag'.status[n] = "running" =>
                 /\ dag'.attempt[n] = dag.retry[n] + 1
                 /\ <<n, dag.retry[n] + 1>> \in o.requests
          /\ \A q \in o.requests : q \notin DOMAIN dag.requests
      BY <2>1, <3>1, <3>2, ScheduleFields
    <3>4. ASSUME NEW n \in Node, dag.status[n] # "running", dag'.status[n] = "running"
          PROVE  <<n, dag'.attempt[n], run>> \notin issued
      <4>1. <<n, dag'.attempt[n]>> \notin DOMAIN dag.requests
        BY <3>3, <3>4
      <4> QED
        BY <1>1, <4>1 DEF FInv
    <3> QED
      BY <3>4
  <2>4. ASSUME NEW n \in Node, ApplyResult(n) PROVE Fresh
    <3>1. PICK r \in Result : ValidateStageResult(dag, r) /\ dag' = ApplyStageResult(dag, r)
      BY <2>1, <2>4, ApplyResultCases
    <3>2. \A m \in Node : dag'.status[m] = IF m = r.node THEN r.status ELSE dag.status[m]
      BY <2>1, <3>1, ResultFields
    <3>3. r.status # "running"
      BY DEF Result, ResultStatus
    <3> QED
      BY <3>2, <3>3
  <2>5. ASSUME NEW n \in Node, Retry(n) PROVE Fresh
    <3>1. /\ dag'.status[n] = "pending"
          /\ \A m \in Node \ {n} : dag'.status[m] = dag.status[m]
      BY <2>1, <2>5, RetryFields DEF Retry
    <3> QED
      BY <3>1
  <2>6. CASE WriteImpact
    BY <2>6 DEF WriteImpact
  <2> HIDE DEF Fresh
  <2> QED
    BY <1>1, <2>2, <2>3, <2>4, <2>5, <2>6 DEF Next
<1>2. ASSUME FInv, ResetNodes PROVE Fresh
  <2>1. IsDocument(dag) /\ ClosedEnd \in SUBSET Node
    BY <1>2, FeedbackAssumption DEF FInv, KeptDocument, ClosedEnd
  <2>2. \A n \in Node : dag'.status[n] = IF n \in ClosedEnd THEN "pending"
                                         ELSE dag.status[n]
    BY <1>2, <2>1, ReopenFields DEF ResetNodes
  <2> QED
    BY <2>2
<1>3. FInv /\ [FeedbackNext]_fvars => [Fresh]_fvars
  <2> HIDE DEF Fresh
  <2> QED
    BY <1>1, <1>2 DEF FeedbackNext, SchedulerStep
<1> QED
  BY <1>3, FeedbackFInv, PTL DEF FeedbackSpec, RequestsAreSentOnce

-----------------------------------------------------------------------------
(* The log of requests *)

\* A command is a step of the log: parallel:init empties it, a scheduler run
\* extends it, a result settles an entry that waits, the others leave it alone.
LEMMA CommandFollows ==
  ASSUME KeptDocument(dag), issued \subseteq Node \X (Nat \ {0}) \X Nat, Next
  PROVE  Log!Next \/ UNCHANGED <<dag.requests, run>>
<1> DEFINE old == dag.requests
           new == dag'.requests
<1>1. IsDocument(dag)
  BY DEF KeptDocument
<1>2. CASE ParallelInit
  BY <1>2 DEF ParallelInit, InitialDocument, Log!Next, Log!StartAnew, Log!NoRequest
<1>3. ASSUME NEW owner \in Owner, RunScheduler(owner) PROVE Log!Next
  <2>1. PICK o \in ScheduleRunnableNodes(dag, owner, DatabaseChangeRequired) :
          dag' = o.document
    BY <1>3 DEF RunScheduler
  <2>2. DatabaseChangeRequired \in BOOLEAN /\ run' = run
    BY <1>3 DEF RunScheduler, DatabaseChangeRequired
  <2>3. /\ DOMAIN old \subseteq DOMAIN new
        /\ new = [q \in DOMAIN new |-> IF q \in DOMAIN old THEN old[q] ELSE "queued"]
    BY <1>1, <2>1, <2>2, ScheduleExtends
  <2> HIDE DEF old, new
  <2>4. Log!Sent(old, new)
    BY <2>3 DEF Log!Sent
  <2> QED
    BY <2>2, <2>4 DEF Log!Next, Log!Work, Log!Follows, old, new
<1>4. ASSUME NEW n \in Node, ApplyResult(n) PROVE Log!Next
  <2>1. PICK r \in Result : ValidateStageResult(dag, r) /\ dag' = ApplyStageResult(dag, r)
    BY <1>4, ApplyResultCases
  <2> DEFINE k == <<r.node, r.attempt>>
  <2>2. k \in DOMAIN old /\ old[k] = "queued"
    BY <2>1 DEF KeptDocument, ValidateStageResult, Result
  <2>3. new = [old EXCEPT ![k] = r.status] /\ r.status \in ResultStatus
    BY <1>1, <2>1, <2>2, ResultSettles DEF Result
  <2> HIDE DEF old, new, k
  <2>4. Log!Settled(old, new)
    BY <2>2, <2>3 DEF Log!Settled
  <2> QED
    BY <1>4, <2>4 DEF ApplyResult, Log!Next, Log!Work, Log!Follows, old, new
<1>5. ASSUME NEW n \in Node, Retry(n) PROVE UNCHANGED <<dag.requests, run>>
  BY <1>1, <1>5, RetryFields DEF Retry
<1>6. CASE WriteImpact
  BY <1>6 DEF WriteImpact
<1> QED
  BY <1>2, <1>3, <1>4, <1>5, <1>6 DEF Next

\* The scheduler implements the log of requests: whatever the order of runs,
\* results and retries, what was sent is settled once and never sent again.
THEOREM LogImplemented == Spec => LogSpec
<1>1. Init => Log!Init
  BY DEF Init, InitialDocument, Log!Init, Log!NoRequest
<1>2. IInv /\ [Next]_vars => [Log!Next]_<<dag.requests, run>>
  BY LegalIsKept, CommandFollows DEF IInv, vars
<1> QED
  BY <1>1, <1>2, SpecIInv, PTL DEF Spec, LogSpec, Log!Spec

\* So it does with the feedback loop beside it, which opens nodes again but no
\* request (feedback-reset-nodes leaves requestId, attemptId and requests).
THEOREM FeedbackImplementsLog == FeedbackSpec => LogSpec
<1>1. FeedbackInit => Log!Init
  BY DEF FeedbackInit, Init, InitialDocument, Log!Init, Log!NoRequest
<1>2. FInv /\ [FeedbackNext]_fvars => [Log!Next]_<<dag.requests, run>>
  <2>1. ASSUME FInv, ResetNodes PROVE UNCHANGED <<dag.requests, run>>
    <3>1. IsDocument(dag) /\ ClosedEnd \in SUBSET Node
      BY <2>1, FeedbackAssumption DEF FInv, KeptDocument, ClosedEnd
    <3> QED
      BY <2>1, <3>1, ReopenFields DEF ResetNodes
  <2> QED
    BY <2>1, CommandFollows DEF FInv, FeedbackNext, SchedulerStep, fvars, vars
<1> QED
  BY <1>1, <1>2, FeedbackFInv, PTL DEF FeedbackSpec, LogSpec, Log!Spec

-----------------------------------------------------------------------------
(* The search for a cycle *)

\* No set of visited nodes is a cycle, and what they depend on was visited.
VisitedInOrder ==
  /\ visited \subseteq Node
  /\ \A n \in visited : dependsOn[n] \subseteq visited
  /\ \A S \in SUBSET visited : S # {} => \E n \in S : dependsOn[n] \cap S = {}

(***************************************************************************)
(* The invariant of the search: the calls under way are the nodes being    *)
(* visited, each for a dependency of the one before it, and what a call    *)
(* has looked at was visited or is the call it waits for.                  *)
(***************************************************************************)
SearchInv ==
  /\ dependsOn \in [Node -> SUBSET Node]
  /\ calls \in Seq(Node)
  /\ left \in [Node -> SUBSET Node]
  /\ visiting = {calls[i] : i \in 1..Len(calls)}
  /\ visiting \cap visited = {}
  /\ \A i, j \in 1..Len(calls) : calls[i] = calls[j] => i = j
  /\ \A i \in 1..Len(calls) : i < Len(calls) => calls[i + 1] \in dependsOn[calls[i]]
  /\ \A i \in 1..Len(calls) : left[calls[i]] \subseteq dependsOn[calls[i]]
  /\ \A i \in 1..Len(calls) : \A d \in dependsOn[calls[i]] \ left[calls[i]] :
       d \in visited \/ (i < Len(calls) /\ d = calls[i + 1])
  /\ VisitedInOrder
  /\ CycleSearchIsExact

\* A search that begins satisfies the invariant.
LEMMA FreshSearch ==
  ASSUME dependsOn' \in [Node -> SUBSET Node], calls' = <<>>,
         left' = [n \in Node |-> {}], visiting' = {}, visited' = {},
         verdict' = "searching"
  PROVE  SearchInv'
BY DEF SearchInv, VisitedInOrder, CycleSearchIsExact

\* The last of a sequence of calls, and the calls after a push and a pop.
LEMMA CallsFacts ==
  ASSUME NEW c \in Seq(Node)
  PROVE  /\ Len(c) \in Nat
         /\ \A i \in 1..Len(c) : c[i] \in Node
         /\ c # <<>> => Len(c) \in 1..Len(c)
         /\ \A n \in Node : /\ Append(c, n) \in Seq(Node)
                            /\ Len(Append(c, n)) = Len(c) + 1
                            /\ Append(c, n)[Len(c) + 1] = n
                            /\ \A i \in 1..Len(c) : Append(c, n)[i] = c[i]
         /\ c # <<>> =>
              /\ SubSeq(c, 1, Len(c) - 1) \in Seq(Node)
              /\ Len(SubSeq(c, 1, Len(c) - 1)) = Len(c) - 1
              /\ \A i \in 1..Len(c) - 1 : SubSeq(c, 1, Len(c) - 1)[i] = c[i]
<1>1. Len(c) \in Nat /\ \A i \in 1..Len(c) : c[i] \in Node
  OBVIOUS
<1>2. c # <<>> => Len(c) \in 1..Len(c)
  BY <1>1, EmptySeq
<1>3. ASSUME NEW n \in Node
      PROVE  /\ Append(c, n) \in Seq(Node)
             /\ Len(Append(c, n)) = Len(c) + 1
             /\ Append(c, n)[Len(c) + 1] = n
             /\ \A i \in 1..Len(c) : Append(c, n)[i] = c[i]
  BY AppendProperties
<1>4. ASSUME c # <<>>
      PROVE  /\ SubSeq(c, 1, Len(c) - 1) \in Seq(Node)
             /\ Len(SubSeq(c, 1, Len(c) - 1)) = Len(c) - 1
             /\ \A i \in 1..Len(c) - 1 : SubSeq(c, 1, Len(c) - 1)[i] = c[i]
  <2>1. \A i \in 1..Len(c) - 1 : c[i] \in Node
    BY <1>1
  <2>2. 1 \in Int /\ Len(c) - 1 \in Int
    BY <1>1
  <2>3. /\ SubSeq(c, 1, Len(c) - 1) \in Seq(Node)
        /\ Len(SubSeq(c, 1, Len(c) - 1)) = IF 1 <= Len(c) - 1 THEN Len(c) - 1 - 1 + 1 ELSE 0
        /\ \A i \in 1..Len(c) - 1 - 1 + 1 : SubSeq(c, 1, Len(c) - 1)[i] = c[1 + i - 1]
    BY <2>1, <2>2, SubSeqProperties
  <2>4. Len(c) - 1 - 1 + 1 = Len(c) - 1 /\ \A i \in 1..Len(c) - 1 : 1 + i - 1 = i
    BY <1>1
  <2> QED
    BY <1>1, <1>2, <1>4, <2>3, <2>4
<1> QED
  BY <1>1, <1>2, <1>3, <1>4

\* Entering a node that is neither visiting nor visited keeps the invariant.
\* The current call, if there is one, looked at it last.
LEMMA EnterInv ==
  ASSUME SearchInv, NEW n \in Node, n \notin visiting, n \notin visited,
         verdict = "searching", NEW rest, Enter(n, rest),
         IF calls = <<>> THEN rest = left
         ELSE n \in left[Current] /\ rest = [left EXCEPT ![Current] = @ \ {n}]
  PROVE  SearchInv'
<1> DEFINE L == Len(calls)
<1>1. /\ L \in Nat /\ \A i \in 1..L : calls[i] \in Node /\ calls[i] \in visiting
      /\ calls # <<>> => L \in 1..L
  BY CallsFacts DEF SearchInv
<1>2. /\ calls' \in Seq(Node) /\ Len(calls') = L + 1 /\ calls'[L + 1] = n
      /\ \A i \in 1..L : calls'[i] = calls[i]
  BY CallsFacts DEF SearchInv, Enter
<1>3. /\ dependsOn' = dependsOn /\ visited' = visited /\ verdict' = verdict
      /\ visiting' = visiting \cup {n}
  BY DEF Enter
<1>4. rest \in [Node -> SUBSET Node] /\ left' = [rest EXCEPT ![n] = dependsOn[n]]
  BY <1>1 DEF SearchInv, Enter, Current
<1>5. left' \in [Node -> SUBSET Node] /\ left'[n] = dependsOn[n]
  BY <1>4 DEF SearchInv
<1>6. /\ \A i \in 1..L : i # L => left'[calls[i]] = left[calls[i]]
      /\ calls # <<>> => left'[calls[L]] = left[calls[L]] \ {n}
  <2>1. \A i \in 1..L : left'[calls[i]] = rest[calls[i]]
    BY <1>1, <1>4
  <2>2. CASE calls = <<>>
    BY <2>1, <2>2
  <2>3. CASE calls # <<>>
    <3>1. rest = [left EXCEPT ![calls[L]] = left[calls[L]] \ {n}]
      BY <2>3 DEF Current
    <3>2. \A i \in 1..L : i # L => calls[i] # calls[L]
      BY <1>1 DEF SearchInv
    <3>3. calls[L] \in Node /\ left \in [Node -> SUBSET Node]
      BY <1>1, <2>3 DEF SearchInv
    <3> QED
      BY <1>1, <2>1, <2>3, <3>1, <3>2, <3>3
  <2> QED
    BY <2>2, <2>3
<1>7. visiting' = {calls'[i] : i \in 1..Len(calls')}
  BY <1>1, <1>2, <1>3 DEF SearchInv
<1>8. \A i, j \in 1..Len(calls') : calls'[i] = calls'[j] => i = j
  BY <1>1, <1>2 DEF SearchInv
<1>9. \A i \in 1..Len(calls') : i < Len(calls') => calls'[i + 1] \in dependsOn[calls'[i]]
  <2>1. ASSUME NEW i \in 1..L, i < L PROVE calls'[i + 1] \in dependsOn[calls'[i]]
    BY <1>1, <1>2, <2>1 DEF SearchInv
  <2>2. L \in 1..L => calls'[L + 1] \in dependsOn[calls'[L]]
    <3> SUFFICES ASSUME L \in 1..L PROVE n \in dependsOn[calls[L]]
      BY <1>2
    <3>1. calls # <<>> /\ n \in left[calls[L]]
      BY DEF Current
    <3> QED
      BY <3>1 DEF SearchInv
  <2> QED
    BY <1>1, <1>2, <2>1, <2>2
<1>10. ASSUME NEW i \in 1..Len(calls')
       PROVE  left'[calls'[i]] \subseteq dependsOn[calls'[i]]
  <2>1. i = L + 1 \/ i \in 1..L
    BY <1>1, <1>2
  <2>2. ASSUME i \in 1..L PROVE left'[calls[i]] \subseteq left[calls[i]]
    <3>1. i = L => calls # <<>>
      BY <1>1, <2>2 DEF SearchInv
    <3> QED
      BY <1>6, <2>2, <3>1
  <2>3. ASSUME i \in 1..L PROVE left[calls[i]] \subseteq dependsOn[calls[i]]
    BY <2>3 DEF SearchInv
  <2> QED
    BY <1>2, <1>5, <2>1, <2>2, <2>3
<1>11. ASSUME NEW i \in 1..Len(calls'), NEW d \in dependsOn[calls'[i]] \ left'[calls'[i]]
       PROVE  d \in visited \/ (i < Len(calls') /\ d = calls'[i + 1])
  <2>1. CASE i = L + 1
    BY <1>2, <1>5, <2>1
  <2>2. CASE i = L
    <3>1. d = n \/ d \in dependsOn[calls[i]] \ left[calls[i]]
      <4>1. i \in 1..L /\ calls # <<>>
        BY <1>1, <1>2, <2>2 DEF SearchInv
      <4> QED
        BY <1>2, <1>6, <2>2, <4>1
    <3> QED
      BY <1>1, <1>2, <2>2, <3>1 DEF SearchInv
  <2>3. CASE i \in 1..L /\ i # L
    <3>1. d \in dependsOn[calls[i]] \ left[calls[i]]
      BY <1>1, <1>2, <1>6, <2>3
    <3>2. i + 1 \in 1..L /\ i < L
      BY <1>1, <2>3
    <3> QED
      BY <1>1, <1>2, <3>1, <3>2 DEF SearchInv
  <2> QED
    BY <1>1, <1>2, <2>1, <2>2, <2>3
<1>12. VisitedInOrder'
  BY <1>3 DEF SearchInv, VisitedInOrder
<1>13. CycleSearchIsExact'
  BY <1>3 DEF CycleSearchIsExact
<1> QED
  BY <1>2, <1>3, <1>5, <1>7, <1>8, <1>9, <1>10, <1>11, <1>12, <1>13 DEF SearchInv

\* A node whose dependencies were visited joins the visited nodes.
LEMMA VisitedGrows ==
  ASSUME VisitedInOrder, NEW n \in Node, n \notin visited, dependsOn[n] \subseteq visited,
         visited' = visited \cup {n}, dependsOn' = dependsOn
  PROVE  VisitedInOrder'
<1>1. visited' \subseteq Node /\ \A m \in visited' : dependsOn'[m] \subseteq visited'
  BY DEF VisitedInOrder
<1>2. ASSUME NEW S \in SUBSET visited', S # {}
      PROVE  \E m \in S : dependsOn[m] \cap S = {}
  <2>1. CASE S \ {n} = {}
    <3>1. n \in S /\ dependsOn[n] \cap S = {}
      BY <1>2, <2>1
    <3> QED
      BY <3>1
  <2>2. CASE S \ {n} # {}
    <3>1. PICK m \in S \ {n} : dependsOn[m] \cap (S \ {n}) = {}
      BY <2>2 DEF VisitedInOrder
    <3>2. n \notin dependsOn[m]
      BY <3>1 DEF VisitedInOrder
    <3> QED
      BY <3>1, <3>2
  <2> QED
    BY <2>1, <2>2
<1> QED
  BY <1>1, <1>2 DEF VisitedInOrder

\* Returning from a call keeps the invariant.
LEMMA LeaveInv == SearchInv /\ verdict = "searching" /\ Leave => SearchInv'
<1> SUFFICES ASSUME SearchInv, verdict = "searching", Leave PROVE SearchInv'
  OBVIOUS
<1> DEFINE L == Len(calls)
<1>1. /\ L \in Nat /\ L \in 1..L /\ \A i \in 1..L : calls[i] \in Node
      /\ calls # <<>> /\ left[calls[L]] = {}
  BY CallsFacts DEF SearchInv, Leave, Current
<1>2. /\ calls' \in Seq(Node) /\ Len(calls') = L - 1
      /\ \A i \in 1..L - 1 : calls'[i] = calls[i]
  BY <1>1, CallsFacts DEF SearchInv, Leave
<1>3. /\ dependsOn' = dependsOn /\ left' = left /\ verdict' = verdict
      /\ visiting' = visiting \ {calls[L]} /\ visited' = visited \cup {calls[L]}
  BY DEF Leave, Current
<1>4. \A i \in 1..L - 1 : i \in 1..L /\ i + 1 \in 1..L /\ i < L
  BY <1>1
<1>5. visiting' = {calls'[i] : i \in 1..Len(calls')}
  <2>1. \A i \in 1..L - 1 : calls[i] # calls[L]
    BY <1>1, <1>4 DEF SearchInv
  <2>2. \A i \in 1..L : i = L \/ i \in 1..L - 1
    BY <1>1
  <2>3. visiting = {calls[i] : i \in 1..L}
    BY DEF SearchInv
  <2>4. visiting' = {calls[i] : i \in 1..L - 1}
    BY <1>3, <1>4, <2>1, <2>2, <2>3
  <2> QED
    BY <1>2, <2>4
<1>6. visiting' \cap visited' = {}
  BY <1>3 DEF SearchInv
<1>7. \A i, j \in 1..Len(calls') : calls'[i] = calls'[j] => i = j
  BY <1>2, <1>4 DEF SearchInv
<1>8. \A i \in 1..Len(calls') : i < Len(calls') => calls'[i + 1] \in dependsOn[calls'[i]]
  BY <1>1, <1>2, <1>4 DEF SearchInv
<1>9. \A i \in 1..Len(calls') : left'[calls'[i]] \subseteq dependsOn[calls'[i]]
  BY <1>2, <1>3, <1>4 DEF SearchInv
<1>10. ASSUME NEW i \in 1..Len(calls'), NEW d \in dependsOn[calls'[i]] \ left'[calls'[i]]
       PROVE  d \in visited' \/ (i < Len(calls') /\ d = calls'[i + 1])
  <2>1. i \in 1..L - 1 /\ d \in dependsOn[calls[i]] \ left[calls[i]]
    BY <1>2, <1>3
  <2>2. d \in visited \/ d = calls[i + 1]
    BY <1>4, <2>1 DEF SearchInv
  <2>3. i + 1 = L \/ (i < L - 1 /\ i + 1 \in 1..L - 1)
    BY <1>1, <2>1
  <2> QED
    BY <1>2, <1>3, <2>2, <2>3
<1>11. VisitedInOrder'
  <2>1. calls[L] \in Node /\ calls[L] \notin visited /\ VisitedInOrder
    BY <1>1 DEF SearchInv
  <2>2. dependsOn[calls[L]] \subseteq visited
    BY <1>1 DEF SearchInv
  <2> QED
    BY <1>3, <2>1, <2>2, VisitedGrows
<1>12. CycleSearchIsExact'
  BY <1>3 DEF CycleSearchIsExact
<1> QED
  BY <1>2, <1>3, <1>5, <1>6, <1>7, <1>8, <1>9, <1>10, <1>11, <1>12 DEF SearchInv

\* A dependency that is being visited closes a cycle through all the calls.
LEMMA FoundIsCycle ==
  ASSUME SearchInv, calls # <<>>, NEW d \in left[Current], d \in visiting
  PROVE  ~ IsAcyclic(dependsOn)
<1>1. /\ Len(calls) \in Nat /\ Len(calls) \in 1..Len(calls)
      /\ \A i \in 1..Len(calls) : calls[i] \in Node
  BY CallsFacts DEF SearchInv
<1>2. visiting \in SUBSET Node /\ visiting # {}
  BY <1>1 DEF SearchInv
<1>3. ASSUME NEW n \in visiting PROVE dependsOn[n] \cap visiting # {}
  <2>1. PICK i \in 1..Len(calls) : n = calls[i]
    BY DEF SearchInv
  <2>2. CASE i = Len(calls)
    BY <1>1, <2>1, <2>2 DEF SearchInv, Current
  <2>3. CASE i < Len(calls)
    <3>1. i + 1 \in 1..Len(calls) /\ calls[i + 1] \in dependsOn[n]
      BY <1>1, <2>1, <2>3 DEF SearchInv
    <3>2. calls[i + 1] \in visiting
      BY <3>1 DEF SearchInv
    <3> QED
      BY <3>1, <3>2
  <2> QED
    BY <1>1, <2>2, <2>3
<1> QED
  BY <1>2, <1>3 DEF IsAcyclic

\* Every step of the search keeps its invariant.
LEMMA SearchStepInv == SearchInv /\ SearchStep => SearchInv'
<1> SUFFICES ASSUME SearchInv, SearchStep PROVE SearchInv'
  OBVIOUS
<1>1. verdict = "searching"
  BY DEF SearchStep
<1>2. ASSUME NEW n \in Node, VisitRoot(n) PROVE SearchInv'
  <2>1. n \notin visiting
    BY <1>2 DEF VisitRoot, SearchInv
  <2> QED
    BY <1>1, <1>2, <2>1, EnterInv DEF VisitRoot
<1>3. ASSUME NEW d \in Node, VisitDependency(d) PROVE SearchInv'
  <2>1. CASE d \in visiting
    <3>1. /\ verdict' = "cycle"
          /\ UNCHANGED <<dependsOn, calls, left, visiting, visited>>
      BY <1>3, <2>1 DEF VisitDependency, Enter
    <3>2. ~ IsAcyclic(dependsOn)
      BY <1>3, <2>1, FoundIsCycle DEF VisitDependency
    <3> QED
      BY <3>1, <3>2 DEF SearchInv, VisitedInOrder, CycleSearchIsExact
  <2>2. CASE d \in visited \ visiting
    <3> DEFINE L == Len(calls)
    <3>1. /\ left' = [left EXCEPT ![Current] = @ \ {d}]
          /\ UNCHANGED <<dependsOn, calls, visiting, visited, verdict>>
      BY <1>3, <2>2 DEF VisitDependency, Enter
    <3>2. Current \in Node
      BY <1>3, CallsFacts DEF VisitDependency, Current, SearchInv
    <3>3. /\ left' \in [Node -> SUBSET Node]
          /\ \A n \in Node : left[n] \ {d} \subseteq left'[n] /\ left'[n] \subseteq left[n]
      BY <3>1, <3>2 DEF SearchInv
    <3>4. \A i \in 1..L : calls[i] \in Node
      BY CallsFacts DEF SearchInv
    <3>5. \A i \in 1..L : left'[calls[i]] \subseteq dependsOn[calls[i]]
      BY <3>3, <3>4 DEF SearchInv
    <3>6. ASSUME NEW i \in 1..L, NEW e \in dependsOn[calls[i]] \ left'[calls[i]]
          PROVE  e \in visited \/ (i < L /\ e = calls[i + 1])
      BY <2>2, <3>3, <3>4 DEF SearchInv
    <3>7. VisitedInOrder' /\ CycleSearchIsExact'
      BY <3>1 DEF SearchInv, VisitedInOrder, CycleSearchIsExact
    <3> QED
      BY <3>1, <3>3, <3>5, <3>6, <3>7 DEF SearchInv
  <2>3. CASE d \notin visiting \cup visited
    BY <1>1, <1>3, <2>3, EnterInv DEF VisitDependency
  <2> QED
    BY <2>1, <2>2, <2>3
<1>4. CASE Leave
  BY <1>1, <1>4, LeaveInv
<1>5. CASE Accept
  <2>1. /\ verdict' = "acyclic" /\ Node = visited
        /\ UNCHANGED <<dependsOn, calls, left, visiting, visited>>
    BY <1>5 DEF Accept, SearchInv, VisitedInOrder
  <2>2. IsAcyclic(dependsOn)
    BY <2>1 DEF IsAcyclic, SearchInv, VisitedInOrder
  <2> QED
    BY <2>1, <2>2 DEF SearchInv, VisitedInOrder, CycleSearchIsExact
<1> QED
  BY <1>2, <1>3, <1>4, <1>5 DEF SearchStep

-----------------------------------------------------------------------------
(* The loops of a scheduler run *)

\* The documents a run may look for runnable nodes in.
PreparedDocuments ==
  {Prepared(dag, who, DatabaseChangeRequired, B) :
     B \in BlockSets(MarkConditionalNodes(dag, DatabaseChangeRequired).status)}

\* The sweeps block only what they must; one that has changed nothing so far
\* has met no node it should have blocked.
BlocksInv ==
  LET status == MarkConditionalNodes(dag, DatabaseChangeRequired).status
  IN  \E B \in SUBSET PendingNodes(status) :
        /\ work = Prepared(dag, who, DatabaseChangeRequired, B)
        /\ \A n \in B : DependsOn[n] \cap (FailedNodes(status) \cup B) # {}
        /\ ~ changed =>
             \A n \in PendingNodes(status) \ B :
               Position[n] < index => DependsOn[n] \cap (FailedNodes(status) \cup B) = {}

\* What the counters say of the nodes at work and the nodes taken.
Count(busy) ==
  [global   |-> Cardinality(busy),
   mutable  |-> Cardinality(busy \cap Mutable),
   readOnly |-> Cardinality(busy \ Mutable),
   role     |-> [a \in {Agent[n] : n \in Node} |->
                   Cardinality({m \in busy : Agent[m] = a})]]

\* The nodes taken are a runnable set of the part of the table walked.
ChooseInv ==
  /\ work \in PreparedDocuments
  /\ runnable = {n \in ReadyNodes(work.status, work.attempt) :
                   /\ Position[n] < index
                   /\ PoolHasRoom(n, RunningNodes(work.status)
                                       \cup {m \in runnable : Before(m, n)})}
  /\ usage = Count(RunningNodes(work.status) \cup runnable)

\* A document p after the loop has given worktrees to the nodes of T and sent
\* the nodes of S.
Sent(p, T, S) ==
  LET D == {n \in S : ~ DuplicateRequest(p, n)}
  IN  /\ work = Dispatch(AllocateWorktrees(p, T), D)
      /\ requests = NewRequests(p, D)

NoConflict(p, T) == T = {} \/ ~ WorktreeConflict(AllocateWorktrees(p, T))

SendInv ==
  LET T == {m \in runnable : Position[m] < index}
  IN  \E p \in PreparedDocuments :
        /\ runnable \in RunnableSets(p.status, p.attempt)
        /\ NoConflict(p, T)
        /\ Sent(p, T, T)

StoppedInv ==
  \E p \in PreparedDocuments, n \in runnable :
    LET T == {m \in runnable : Before(m, n)}
    IN  /\ runnable \in RunnableSets(p.status, p.attempt)
        /\ NoConflict(p, T)
        /\ WorktreeConflict(AllocateWorktrees(p, T \cup {n}))
        /\ Sent(p, T \cup {n}, T)

(***************************************************************************)
(* The invariant of a run: in every loop, what it has computed so far is   *)
(* what the definitions of DagState say of the part of the table it has    *)
(* walked.                                                                 *)
(***************************************************************************)
RunInv ==
  /\ phase \in Phase
  /\ index \in Nat /\ changed \in BOOLEAN
  /\ phase \in {"blocks", "choose", "dispatch", "stopped"} =>
       who \in Owner /\ LockAvailable(dag, who)
  /\ phase \in {"validate", "blocks"} => runnable = {}
  /\ phase \in {"validate", "blocks", "choose"} => requests = {}
  /\ phase = "validate" => index = 1 /\ changed = FALSE
  /\ phase = "blocks" => BlocksInv
  /\ phase = "choose" => ChooseInv
  /\ phase = "dispatch" => SendInv
  /\ phase = "stopped" => StoppedInv

\* What the documents of a run's first loop are: p is the document that the
\* blocks of B have made of dag.
LEMMA PreparedIsLegal ==
  ASSUME IInv, who \in Owner,
         NEW B \in SUBSET PendingNodes(MarkConditionalNodes(dag, DatabaseChangeRequired).status),
         NEW p, p = Prepared(dag, who, DatabaseChangeRequired, B)
  PROVE  LET status == MarkConditionalNodes(dag, DatabaseChangeRequired).status
         IN  /\ IsDocument(p)
             /\ \A n \in Node : p.status[n] = IF n \in B THEN "blocked" ELSE status[n]
             /\ FailedNodes(p.status) = FailedNodes(status) \cup B
<1> DEFINE status == MarkConditionalNodes(dag, DatabaseChangeRequired).status
<1>1. IsDocument(dag) /\ DatabaseChangeRequired \in BOOLEAN
  BY DEF IInv, DocumentInv, DatabaseChangeRequired
<1>2. /\ IsDocument(p)
      /\ \A n \in Node : p.status[n] = IF n \in B THEN "blocked" ELSE status[n]
  BY <1>1, PreparedFields
<1>3. B \subseteq Node
  BY DEF PendingNodes
<1> HIDE DEF status
<1>4. FailedNodes(p.status) = FailedNodes(status) \cup B
  BY <1>2, <1>3 DEF FailedNodes
<1> QED
  BY <1>2, <1>4 DEF status

\* The lock and the mark: the sweeps have blocked nobody yet.
LEMMA LockTaskInv ==
  ASSUME IInv, NEW owner \in Owner, LockTask(owner), index = 1, changed = FALSE
  PROVE  BlocksInv'
<1> DEFINE marked == MarkConditionalNodes(dag, DatabaseChangeRequired)
<1>1. /\ dag' = dag /\ impact' = impact /\ who' = owner /\ index' = 1 /\ changed' = FALSE
      /\ work' = [marked EXCEPT !.lock = owner]
  BY DEF LockTask, vars
<1>2. IsDocument(dag) /\ DatabaseChangeRequired \in BOOLEAN
  BY DEF IInv, DocumentInv, DatabaseChangeRequired
<1>3. work' = Prepared(dag, owner, DatabaseChangeRequired, {})
  <2> DEFINE p == Prepared(dag, owner, DatabaseChangeRequired, {})
             st == [n \in Node |-> IF n \in {} THEN "blocked" ELSE marked.status[n]]
  <2>1. p = [[marked EXCEPT !.lock = owner] EXCEPT !.status = st]
    BY DEF Prepared, BlockNodes
  <2>2. marked.status \in [Node -> Status]
        /\ marked \in [status : [Node -> Status], retry : [Node -> Nat], attempt : [Node -> Nat],
                       evidence : [Node -> BOOLEAN], worktree : [Node -> Path \cup {None}],
                       requests : {dag.requests}, lock : Owner \cup {None}]
    BY <1>2 DEF MarkConditionalNodes, IsDocument, Status
  <2>3. st = marked.status
    BY <2>2
  <2> HIDE DEF st, marked, p
  <2>4. p = [marked EXCEPT !.lock = owner]
    BY <2>1, <2>2, <2>3
  <2> QED
    BY <1>1, <2>4 DEF p
<1>4. \A n \in Node : Position[n] \in 1..Cardinality(Node)
  BY ValidWorkflow DEF NodesAssumption
<1>5. (MarkConditionalNodes(dag, DatabaseChangeRequired))' = marked
      /\ DatabaseChangeRequired' = DatabaseChangeRequired
  BY <1>1 DEF DatabaseChangeRequired
<1>6. {} \in SUBSET PendingNodes(marked.status)
      /\ \A n \in PendingNodes(marked.status) : ~ (Position[n] < 1)
  BY <1>4 DEF PendingNodes
<1> HIDE DEF marked
<1> QED
  BY <1>1, <1>3, <1>5, <1>6 DEF BlocksInv

\* A pass of a sweep.
LEMMA BlockOrPassInv ==
  ASSUME IInv, who \in Owner, BlocksInv, changed \in BOOLEAN, index \in Nat,
         NEW n \in Node, BlockOrPass(n)
  PROVE  BlocksInv'
<1> DEFINE marked == MarkConditionalNodes(dag, DatabaseChangeRequired)
           status == marked.status
<1>1. /\ dag' = dag /\ impact' = impact /\ who' = who /\ index' = index + 1
      /\ Position[n] = index
      /\ work' = IF MustBlock(n) THEN [work EXCEPT !.status[n] = "blocked"] ELSE work
      /\ changed' = (changed \/ MustBlock(n))
  BY DEF BlockOrPass, vars
<1>2. (MarkConditionalNodes(dag, DatabaseChangeRequired))' = marked
      /\ DatabaseChangeRequired' = DatabaseChangeRequired
  BY <1>1 DEF DatabaseChangeRequired
<1>3. PICK B \in SUBSET PendingNodes(status) :
        /\ work = Prepared(dag, who, DatabaseChangeRequired, B)
        /\ \A m \in B : DependsOn[m] \cap (FailedNodes(status) \cup B) # {}
        /\ ~ changed =>
             \A m \in PendingNodes(status) \ B :
               Position[m] < index => DependsOn[m] \cap (FailedNodes(status) \cup B) = {}
  BY DEF BlocksInv
<1>4. /\ IsDocument(work)
      /\ \A m \in Node : work.status[m] = IF m \in B THEN "blocked" ELSE status[m]
      /\ FailedNodes(work.status) = FailedNodes(status) \cup B
  BY <1>3, PreparedIsLegal
<1>5. PendingNodes(status) \subseteq Node
      /\ \A m \in Node : m \in PendingNodes(status) <=> status[m] = "pending"
  BY DEF PendingNodes
<1>6. MustBlock(n) <=> /\ n \in PendingNodes(status) \ B
                       /\ DependsOn[n] \cap (FailedNodes(status) \cup B) # {}
  BY <1>4, <1>5 DEF MustBlock, HasFailedDependency
<1>7. \A m \in Node : Position[m] \in Nat /\ (Position[m] = index => m = n)
  BY <1>1, ValidWorkflow DEF NodesAssumption
<1>8. CASE MustBlock(n)
  <2> DEFINE C == B \cup {n}
             q == Prepared(dag, who, DatabaseChangeRequired, C)
             w == [work EXCEPT !.status[n] = "blocked"]
  <2>1. C \in SUBSET PendingNodes(status)
    BY <1>6, <1>8
  <2>2. /\ IsDocument(q)
        /\ \A m \in Node : q.status[m] = IF m \in C THEN "blocked" ELSE status[m]
    <3> HIDE DEF C
    <3> QED
      BY <2>1, PreparedIsLegal
  <2>3. /\ q.retry = dag.retry /\ q.attempt = dag.attempt /\ q.worktree = dag.worktree
        /\ q.requests = dag.requests /\ q.evidence = dag.evidence
        /\ work.retry = dag.retry /\ work.attempt = dag.attempt /\ work.worktree = dag.worktree
        /\ work.requests = dag.requests /\ work.evidence = dag.evidence
    <3>1. IsDocument(dag) /\ DatabaseChangeRequired \in BOOLEAN
      BY DEF IInv, DocumentInv, DatabaseChangeRequired
    <3> HIDE DEF C
    <3> QED
      BY <1>3, <2>1, <3>1, PreparedFields
  <2>4. q.lock = who /\ work.lock = who
    <3>1. IsDocument(dag)
      BY DEF IInv, DocumentInv
    <3> HIDE DEF C
    <3> QED
      BY <1>3, <3>1, PreparedLock
  <2>5. /\ IsDocument(w) /\ w.retry = work.retry /\ w.attempt = work.attempt
        /\ w.worktree = work.worktree /\ w.evidence = work.evidence
        /\ w.requests = work.requests /\ w.lock = work.lock
        /\ \A m \in Node : w.status[m] = IF m = n THEN "blocked" ELSE work.status[m]
    BY <1>4 DEF IsDocument, Status
  <2> HIDE DEF q, w
  <2>6. w = q
    BY <1>4, <2>2, <2>3, <2>4, <2>5, SameDocument
  <2>7. \A m \in C : DependsOn[m] \cap (FailedNodes(status) \cup C) # {}
    BY <1>3, <1>6, <1>8
  <2>8. changed' = TRUE /\ work' = q
    BY <1>1, <1>8, <2>6 DEF w
  <2> HIDE DEF C, marked
  <2> QED
    BY <1>1, <1>2, <2>1, <2>7, <2>8 DEF BlocksInv, q
<1>9. CASE ~ MustBlock(n)
  <2>1. work' = work /\ changed' = changed
    BY <1>1, <1>9
  <2>2. ASSUME ~ changed, NEW m \in PendingNodes(status) \ B, Position[m] < index + 1
        PROVE  DependsOn[m] \cap (FailedNodes(status) \cup B) = {}
    <3>1. Position[m] < index \/ m = n
      BY <1>5, <1>7, <2>2
    <3> QED
      BY <1>3, <1>6, <1>9, <2>2, <3>1
  <2> HIDE DEF marked
  <2> QED
    BY <1>1, <1>2, <1>3, <2>1, <2>2 DEF BlocksInv
<1> QED
  BY <1>8, <1>9

\* The end of a sweep that changed nothing: the blocks are the block set.
LEMMA SweptIsPrepared ==
  ASSUME BlocksInv, ~ changed, index > Cardinality(Node), index \in Nat
  PROVE  work \in PreparedDocuments
<1> DEFINE status == MarkConditionalNodes(dag, DatabaseChangeRequired).status
<1>1. PICK B \in SUBSET PendingNodes(status) :
        /\ work = Prepared(dag, who, DatabaseChangeRequired, B)
        /\ \A m \in B : DependsOn[m] \cap (FailedNodes(status) \cup B) # {}
        /\ \A m \in PendingNodes(status) \ B :
             Position[m] < index => DependsOn[m] \cap (FailedNodes(status) \cup B) = {}
  BY DEF BlocksInv
<1>2. \A m \in PendingNodes(status) : Position[m] < index
  <2>1. Cardinality(Node) \in Nat
    BY FS_CardinalityType, ValidWorkflow DEF NodesAssumption
  <2> QED
    BY <2>1, ValidWorkflow DEF NodesAssumption, PendingNodes
<1>3. IsBlockSet(B, status)
  BY <1>1, <1>2 DEF IsBlockSet
<1> QED
  BY <1>1, <1>3 DEF PreparedDocuments, BlockSets

\* The counters tell whether the pool has room.
LEMMA CountersTellRoom ==
  ASSUME NEW busy \in SUBSET Node, usage = Count(busy), NEW n \in Node
  PROVE  /\ usage.global = Cardinality(busy)
         /\ PoolHasRoom(n, busy) <=> usage.global < GlobalLimit /\ ~ KindOrRoleFull(n)
<1> DEFINE role(a) == {m \in busy : Agent[m] = a}
<1>1. /\ IsFiniteSet(busy) /\ IsFiniteSet(busy \cap Mutable)
      /\ IsFiniteSet(busy \ Mutable) /\ IsFiniteSet(role(Agent[n]))
  <2>1. IsFiniteSet(busy)
    BY ValidWorkflow, FS_Subset DEF NodesAssumption
  <2>2. busy \cap Mutable \subseteq busy /\ busy \ Mutable \subseteq busy
        /\ role(Agent[n]) \subseteq busy
    OBVIOUS
  <2> QED
    BY <2>1, <2>2, FS_Subset
<1>2. /\ Cardinality(busy) \in Nat /\ Cardinality(busy \cap Mutable) \in Nat
      /\ Cardinality(busy \ Mutable) \in Nat /\ Cardinality(role(Agent[n])) \in Nat
  BY <1>1, FS_CardinalityType
<1>3. /\ usage.global = Cardinality(busy)
      /\ usage.mutable = Cardinality(busy \cap Mutable)
      /\ usage.readOnly = Cardinality(busy \ Mutable)
      /\ usage.role[Agent[n]] = Cardinality(role(Agent[n]))
  BY DEF Count
<1>4. /\ GlobalLimit \in Nat /\ MutableLimit \in Nat /\ ReadOnlyLimit \in Nat
      /\ RoleLimit[Agent[n]] \in Nat
  BY ValidWorkflow DEF PoolAssumption
<1>5. PoolHasRoom(n, busy) <=>
        /\ Cardinality(busy) < GlobalLimit
        /\ IF n \in Mutable
             THEN Cardinality(busy \cap Mutable) < MutableLimit
             ELSE Cardinality(busy \ Mutable) < ReadOnlyLimit
        /\ Cardinality(role(Agent[n])) < RoleLimit[Agent[n]]
  BY DEF PoolHasRoom
<1> HIDE DEF role
<1> QED
  BY <1>2, <1>3, <1>4, <1>5 DEF KindOrRoleFull

\* Counting a node that is taken.
LEMMA CountNodeCounts ==
  ASSUME NEW busy \in SUBSET Node, usage = Count(busy), NEW n \in Node \ busy,
         usage' = CountNode(n)
  PROVE  usage' = Count(busy \cup {n})
<1> DEFINE A == {Agent[m] : m \in Node}
           role == [a \in A |-> Cardinality({m \in busy : Agent[m] = a})]
           with == busy \cup {n}
<1>1. IsFiniteSet(busy)
  BY ValidWorkflow, FS_Subset DEF NodesAssumption
<1>2. ASSUME NEW T
      PROVE  Cardinality(with \cap T) = IF n \in T THEN Cardinality(busy \cap T) + 1
                                        ELSE Cardinality(busy \cap T)
  <2>1. IsFiniteSet(busy \cap T) /\ n \notin busy \cap T
    BY <1>1, FS_Subset
  <2>2. with \cap T = IF n \in T THEN (busy \cap T) \cup {n} ELSE busy \cap T
    OBVIOUS
  <2> QED
    BY <2>1, <2>2, FS_AddElement
<1>3. Cardinality(with) = Cardinality(busy) + 1
  BY <1>1, FS_AddElement
<1>4. Cardinality(with \cap Mutable) = IF n \in Mutable THEN Cardinality(busy \cap Mutable) + 1
                                       ELSE Cardinality(busy \cap Mutable)
  BY <1>2
<1>5. Cardinality(with \ Mutable) = IF n \in Mutable THEN Cardinality(busy \ Mutable)
                                    ELSE Cardinality(busy \ Mutable) + 1
  <2>1. with \ Mutable = with \cap (Node \ Mutable) /\ busy \ Mutable = busy \cap (Node \ Mutable)
    OBVIOUS
  <2> QED
    BY <1>2, <2>1
<1>6. ASSUME NEW a \in A
      PROVE  Cardinality({m \in with : Agent[m] = a})
               = IF a = Agent[n] THEN role[Agent[n]] + 1 ELSE role[a]
  <2> DEFINE T == {m \in Node : Agent[m] = a}
  <2>1. {m \in with : Agent[m] = a} = with \cap T /\ {m \in busy : Agent[m] = a} = busy \cap T
    OBVIOUS
  <2>2. Cardinality(with \cap T) = IF n \in T THEN Cardinality(busy \cap T) + 1
                                   ELSE Cardinality(busy \cap T)
    BY <1>2
  <2>3. role[a] = Cardinality(busy \cap T)
    BY <2>1
  <2> QED
    BY <2>1, <2>2, <2>3
<1>7. [role EXCEPT ![Agent[n]] = @ + 1] = [a \in A |-> Cardinality({m \in with : Agent[m] = a})]
  <2> HIDE DEF with
  <2>1. Agent[n] \in A
    OBVIOUS
  <2>2. DOMAIN role = A
    OBVIOUS
  <2> HIDE DEF role, A
  <2> QED
    BY <1>6, <2>1, <2>2
<1>8. usage = [global |-> Cardinality(busy), mutable |-> Cardinality(busy \cap Mutable),
               readOnly |-> Cardinality(busy \ Mutable), role |-> role]
  BY DEF Count
<1>9. usage' = [global |-> Cardinality(busy) + 1,
                mutable |-> IF n \in Mutable THEN Cardinality(busy \cap Mutable) + 1
                            ELSE Cardinality(busy \cap Mutable),
                readOnly |-> IF n \in Mutable THEN Cardinality(busy \ Mutable)
                             ELSE Cardinality(busy \ Mutable) + 1,
                role |-> [role EXCEPT ![Agent[n]] = @ + 1]]
  <2> HIDE DEF role
  <2> DEFINE u == [global |-> Cardinality(busy), mutable |-> Cardinality(busy \cap Mutable),
                   readOnly |-> Cardinality(busy \ Mutable), role |-> role]
  <2>1. usage' = [u EXCEPT !.global = @ + 1,
                           !.mutable = IF n \in Mutable THEN @ + 1 ELSE @,
                           !.readOnly = IF n \in Mutable THEN @ ELSE @ + 1,
                           !.role[Agent[n]] = @ + 1]
    BY <1>8, Zenon DEF CountNode
  <2> QED
    BY <2>1
<1>10. usage' = [global |-> Cardinality(with), mutable |-> Cardinality(with \cap Mutable),
                 readOnly |-> Cardinality(with \ Mutable),
                 role |-> [a \in A |-> Cardinality({m \in with : Agent[m] = a})]]
  <2> HIDE DEF role, with
  <2> QED
    BY <1>3, <1>4, <1>5, <1>7, <1>9
<1> QED
  BY <1>10 DEF Count

\* The counters start from the running nodes.
LEMMA InitialUsageCounts ==
  ASSUME NEW status, usage' = InitialUsage(status)
  PROVE  usage' = Count(RunningNodes(status))
<1> DEFINE busy == RunningNodes(status)
<1>1. IsFiniteSet(busy)
  BY ValidWorkflow, FS_Subset DEF NodesAssumption, RunningNodes
<1>2. Cardinality(busy \ Mutable) = Cardinality(busy) - Cardinality(busy \cap Mutable)
  BY <1>1, FS_Difference
<1> QED
  BY <1>2 DEF Count, InitialUsage

\* The nodes taken among the ones before position i.
LEMMA WalkedBefore ==
  ASSUME NEW n \in Node, NEW S \in SUBSET Node, \A m \in S : Position[m] < Position[n]
  PROVE  {m \in S : Before(m, n)} = S
BY DEF Before

\* A pass of getRunnableNodes over a node it does not take.
LEMMA PassOverInv ==
  ASSUME IInv, who \in Owner, ChooseInv, index \in Nat, NEW n \in Node, PassOver(n)
  PROVE  ChooseInv'
<1> DEFINE ready == ReadyNodes(work.status, work.attempt)
           running == RunningNodes(work.status)
<1>1. /\ dag' = dag /\ impact' = impact /\ who' = who /\ index' = index + 1
      /\ Position[n] = index /\ work' = work /\ runnable' = runnable /\ usage' = usage
      /\ n \in ready => usage.global < GlobalLimit /\ KindOrRoleFull(n)
  BY DEF PassOver, vars, Candidate
<1>2. PreparedDocuments' = PreparedDocuments
  BY <1>1 DEF PreparedDocuments, DatabaseChangeRequired
<1>3. runnable = {m \in ready : /\ Position[m] < index
                                /\ PoolHasRoom(m, running \cup {k \in runnable : Before(k, m)})}
  BY DEF ChooseInv
<1>4. \A m \in Node : Position[m] \in Nat /\ (Position[m] = index => m = n)
  BY <1>1, ValidWorkflow DEF NodesAssumption
<1>5. ready \subseteq Node /\ running \subseteq Node
  BY DEF ReadyNodes, RunningNodes
<1>6. n \in ready => ~ PoolHasRoom(n, running \cup {k \in runnable : Before(k, n)})
  <2>1. runnable \in SUBSET Node /\ \A m \in runnable : Position[m] < Position[n]
    BY <1>1, <1>3, <1>5
  <2>2. {k \in runnable : Before(k, n)} = runnable
    BY <2>1, WalkedBefore
  <2>3. PoolHasRoom(n, running \cup runnable) <=> usage.global < GlobalLimit /\ ~ KindOrRoleFull(n)
    BY <1>5, <2>1, CountersTellRoom DEF ChooseInv
  <2> QED
    BY <1>1, <2>2, <2>3
<1>7. \A m \in Node : Position[m] < index + 1 <=> Position[m] < index \/ m = n
  BY <1>1, <1>4
<1>8. runnable = {m \in ready : /\ Position[m] < index + 1
                                /\ PoolHasRoom(m, running \cup {k \in runnable : Before(k, m)})}
  <2> HIDE DEF ready, running
  <2> QED
    BY <1>3, <1>5, <1>6, <1>7, Zenon
<1> QED
  BY <1>1, <1>2, <1>8 DEF ChooseInv

\* A pass that takes the node.
LEMMA TakeInv ==
  ASSUME IInv, who \in Owner, ChooseInv, index \in Nat, NEW n \in Node, Take(n)
  PROVE  ChooseInv'
<1> DEFINE ready == ReadyNodes(work.status, work.attempt)
           running == RunningNodes(work.status)
           more == runnable \cup {n}
<1>1. /\ dag' = dag /\ impact' = impact /\ who' = who /\ index' = index + 1
      /\ Position[n] = index /\ work' = work /\ runnable' = more
      /\ usage' = CountNode(n)
      /\ n \in ready /\ usage.global < GlobalLimit /\ ~ KindOrRoleFull(n)
  BY DEF Take, vars, Candidate
<1>2. PreparedDocuments' = PreparedDocuments
  BY <1>1 DEF PreparedDocuments, DatabaseChangeRequired
<1>3. runnable = {m \in ready : /\ Position[m] < index
                                /\ PoolHasRoom(m, running \cup {k \in runnable : Before(k, m)})}
  BY DEF ChooseInv
<1>4. \A m \in Node : Position[m] \in Nat /\ (Position[m] = index => m = n)
  BY <1>1, ValidWorkflow DEF NodesAssumption
<1>5. ready \subseteq Node /\ running \subseteq Node /\ n \notin running
  BY <1>1 DEF ReadyNodes, RunningNodes
<1>6. /\ runnable \in SUBSET Node /\ \A m \in runnable : Position[m] < Position[n]
      /\ n \notin runnable
  BY <1>1, <1>3, <1>4, <1>5
<1>7. {k \in runnable : Before(k, n)} = runnable
  BY <1>6, WalkedBefore
<1>8. PoolHasRoom(n, running \cup {k \in runnable : Before(k, n)})
  BY <1>1, <1>5, <1>6, <1>7, CountersTellRoom DEF ChooseInv
<1>9. \A m \in Node : Position[m] < index + 1 => {k \in more : Before(k, m)} = {k \in runnable : Before(k, m)}
  BY <1>1, <1>4 DEF Before
<1>10. \A m \in Node : Position[m] < index + 1 <=> Position[m] < index \/ m = n
  BY <1>1, <1>4
<1>11. more = {m \in ready : /\ Position[m] < index + 1
                             /\ PoolHasRoom(m, running \cup {k \in more : Before(k, m)})}
  <2> DEFINE good(m) == PoolHasRoom(m, running \cup {k \in more : Before(k, m)})
             was(m) == PoolHasRoom(m, running \cup {k \in runnable : Before(k, m)})
  <2>1. \A m \in Node : Position[m] < index + 1 => (good(m) <=> was(m))
    BY <1>9
  <2>2. was(n) /\ runnable = {m \in ready : Position[m] < index /\ was(m)}
    BY <1>3, <1>8
  <2> HIDE DEF good, was, ready
  <2>3. more = {m \in ready : Position[m] < index + 1 /\ good(m)}
    BY <1>1, <1>5, <1>10, <2>1, <2>2
  <2> QED
    BY <2>3 DEF good, ready
<1>12. usage' = Count(running \cup more)
  <2>1. running \cup runnable \in SUBSET Node /\ n \in Node \ (running \cup runnable)
    BY <1>5, <1>6
  <2>2. usage = Count(running \cup runnable)
    BY DEF ChooseInv
  <2>3. usage' = Count((running \cup runnable) \cup {n})
    BY <1>1, <2>1, <2>2, CountNodeCounts
  <2>4. (running \cup runnable) \cup {n} = running \cup more
    OBVIOUS
  <2> HIDE DEF running, more
  <2> QED
    BY <2>3, <2>4
<1>13. RunningNodes(work'.status) = running
  BY <1>1
<1> HIDE DEF more
<1> QED
  BY <1>1, <1>2, <1>11, <1>12, <1>13 DEF ChooseInv

\* The documents of the first loop are documents.
LEMMA PreparedDocument ==
  ASSUME IInv, who \in Owner, NEW p \in PreparedDocuments
  PROVE  IsDocument(p)
<1>1. PICK B \in SUBSET PendingNodes(MarkConditionalNodes(dag, DatabaseChangeRequired).status) :
        p = Prepared(dag, who, DatabaseChangeRequired, B)
  BY DEF PreparedDocuments, BlockSets
<1>2. IsDocument(dag) /\ DatabaseChangeRequired \in BOOLEAN
  BY DEF IInv, DocumentInv, DatabaseChangeRequired
<1> QED
  BY <1>1, <1>2, PreparedFields

\* The walk over the nodes begins.
LEMMA SweepDoneInv ==
  ASSUME BlocksInv, index \in Nat, runnable = {}, SweepDone
  PROVE  ChooseInv'
<1>1. /\ dag' = dag /\ impact' = impact /\ who' = who /\ index' = 1 /\ work' = work
      /\ runnable' = {} /\ usage' = InitialUsage(work.status)
      /\ index > Cardinality(Node) /\ ~ changed
  BY DEF SweepDone, vars
<1>2. work \in PreparedDocuments
  BY <1>1, SweptIsPrepared
<1>3. PreparedDocuments' = PreparedDocuments
  BY <1>1 DEF PreparedDocuments, DatabaseChangeRequired
<1>4. usage' = Count(RunningNodes(work.status) \cup {})
  BY <1>1, InitialUsageCounts
<1>5. \A n \in ReadyNodes(work.status, work.attempt) : ~ (Position[n] < 1)
  BY ValidWorkflow DEF NodesAssumption, ReadyNodes
<1> QED
  BY <1>1, <1>2, <1>3, <1>4, <1>5 DEF ChooseInv

\* The nodes taken when the walk ends are the runnable set: the nodes it did
\* not come to have no room in a full pool.
LEMMA WalkIsComplete ==
  ASSUME ChooseInv, index \in Nat, ChooseDone
  PROVE  runnable \in RunnableSets(work.status, work.attempt)
<1> DEFINE ready == ReadyNodes(work.status, work.attempt)
           running == RunningNodes(work.status)
           room(n) == PoolHasRoom(n, running \cup {m \in runnable : Before(m, n)})
<1>1. runnable = {n \in ready : Position[n] < index /\ room(n)}
  BY DEF ChooseInv
<1>2. ready \subseteq Node /\ running \subseteq Node
  BY DEF ReadyNodes, RunningNodes
<1>3. ASSUME NEW n \in ready, ~ (Position[n] < index)
      PROVE  ~ room(n)
  <2>1. \A m \in Node : Position[m] \in 1..Cardinality(Node)
    BY ValidWorkflow DEF NodesAssumption
  <2>2. Cardinality(Node) \in Nat
    BY ValidWorkflow, FS_CardinalityType DEF NodesAssumption
  <2>3. usage.global >= GlobalLimit
    BY <1>2, <1>3, <2>1, <2>2 DEF ChooseDone
  <2>4. {m \in runnable : Before(m, n)} = runnable
    <3>1. runnable \in SUBSET Node /\ \A m \in runnable : Position[m] < index
      BY <1>1, <1>2
    <3>2. \A m \in runnable : Position[m] < Position[n]
      BY <1>2, <1>3, <2>1, <3>1
    <3> QED
      BY <1>2, <3>1, <3>2, WalkedBefore
  <2>5. running \cup runnable \in SUBSET Node /\ usage = Count(running \cup runnable)
    BY <1>1, <1>2 DEF ChooseInv
  <2>6. PoolHasRoom(n, running \cup runnable) => usage.global < GlobalLimit
    BY <1>2, <2>5, CountersTellRoom
  <2>7. usage.global \in Nat /\ GlobalLimit \in Nat
    <3>1. usage.global = Cardinality(running \cup runnable)
      BY <2>5 DEF Count
    <3>2. IsFiniteSet(running \cup runnable)
      BY <2>5, ValidWorkflow, FS_Subset DEF NodesAssumption
    <3> QED
      BY <3>1, <3>2, FS_CardinalityType, ValidWorkflow DEF PoolAssumption
  <2> QED
    BY <2>3, <2>4, <2>6, <2>7
<1>4. runnable = {n \in ready : room(n)}
  <2> HIDE DEF ready, room
  <2> QED
    BY <1>1, <1>3
<1> QED
  BY <1>1, <1>4 DEF RunnableSets, IsRunnableSet

\* The walk ends, and nobody was sent yet.
LEMMA ChooseDoneInv ==
  ASSUME IInv, who \in Owner, ChooseInv, index \in Nat, requests = {}, ChooseDone
  PROVE  SendInv'
<1>1. /\ dag' = dag /\ impact' = impact /\ who' = who /\ index' = 1 /\ work' = work
      /\ runnable' = runnable /\ requests' = {}
  BY DEF ChooseDone, vars
<1>2. work \in PreparedDocuments /\ runnable \in RunnableSets(work.status, work.attempt)
  BY WalkIsComplete DEF ChooseInv
<1>3. PreparedDocuments' = PreparedDocuments
  BY <1>1 DEF PreparedDocuments, DatabaseChangeRequired
<1>4. {m \in runnable : Position[m] < 1} = {}
  <2>1. \A m \in runnable : m \in Node
    BY <1>2 DEF RunnableSets, ReadyNodes
  <2> QED
    BY <2>1, ValidWorkflow DEF NodesAssumption
<1>5. Dispatch(AllocateWorktrees(work, {}), {}) = work
  BY <1>2, PreparedDocument, DispatchNobody
<1>6. Sent(work, {}, {})'
  <2>1. {n \in {} : ~ DuplicateRequest(work, n)} = {} /\ NewRequests(work, {}) = {}
    BY DEF NewRequests
  <2> QED
    BY <1>1, <1>5, <2>1 DEF Sent
<1>7. NoConflict(work, {})'
  BY DEF NoConflict
<1> QED
  BY <1>1, <1>2, <1>3, <1>4, <1>6, <1>7 DEF SendInv

\* The nodes walked before the next runnable one.
LEMMA NextRunnable ==
  ASSUME runnable \in SUBSET Node, index \in Nat, NEW n \in Node, IsNextRunnable(n)
  PROVE  LET T == {m \in runnable : Position[m] < index}
         IN  /\ T = {m \in runnable : Before(m, n)}
             /\ n \in runnable /\ n \notin T
             /\ {m \in runnable : Position[m] < Position[n] + 1} = T \cup {n}
             /\ Position[n] + 1 \in Nat
<1>1. \A m \in Node : Position[m] \in Nat /\ (Position[m] = Position[n] => m = n)
  BY ValidWorkflow DEF NodesAssumption
<1> QED
  BY <1>1 DEF IsNextRunnable, Before

\* The document a pass of the loop starts from.
LEMMA SendPass ==
  ASSUME IInv, who \in Owner, SendInv, index \in Nat, NEW n \in Node, IsNextRunnable(n)
  PROVE  LET T == {m \in runnable : Before(m, n)}
         IN  \E p \in PreparedDocuments :
               /\ IsDocument(p)
               /\ runnable \in RunnableSets(p.status, p.attempt)
               /\ NoConflict(p, T)
               /\ Sent(p, T, T)
               /\ WorktreeConflict(WithWorktree(n))
                    <=> WorktreeConflict(AllocateWorktrees(p, T \cup {n}))
               /\ DuplicateRequest(work, n) <=> DuplicateRequest(p, n)
               /\ \A E \in SUBSET {n} :
                    LET D == {m \in T : ~ DuplicateRequest(p, m)}
                    IN  /\ Dispatch(WithWorktree(n), E)
                              = Dispatch(AllocateWorktrees(p, T \cup {n}), D \cup E)
                        /\ NewRequests(work, E) = NewRequests(p, E)
<1> DEFINE T == {m \in runnable : Before(m, n)}
<1>1. PICK p \in PreparedDocuments :
        LET U == {m \in runnable : Position[m] < index}
        IN  /\ runnable \in RunnableSets(p.status, p.attempt)
            /\ NoConflict(p, U)
            /\ Sent(p, U, U)
  BY DEF SendInv
<1>2. IsDocument(p) /\ runnable \in SUBSET Node
  BY <1>1, PreparedDocument DEF RunnableSets, ReadyNodes
<1>3. T = {m \in runnable : Position[m] < index} /\ n \notin T /\ T \in SUBSET Node
  BY <1>2, NextRunnable
<1>4. NoConflict(p, T) /\ Sent(p, T, T)
  BY <1>1, <1>3
<1> DEFINE D == {m \in T : ~ DuplicateRequest(p, m)}
<1>5. work = Dispatch(AllocateWorktrees(p, T), D)
  BY <1>4 DEF Sent
<1>6. D \in SUBSET T /\ n \in Node \ T
  BY <1>3
<1> HIDE DEF T, D
<1>7. ASSUME NEW E \in SUBSET {n}
      PROVE  /\ Dispatch(AllocateWorktrees(work, {n}), E)
                  = Dispatch(AllocateWorktrees(p, T \cup {n}), D \cup E)
             /\ WorktreeConflict(AllocateWorktrees(work, {n}))
                  <=> WorktreeConflict(AllocateWorktrees(p, T \cup {n}))
             /\ NewRequests(work, E) = NewRequests(p, E)
             /\ DuplicateRequest(work, n) <=> DuplicateRequest(p, n)
  <2>1. IsDocument(p) /\ T \in SUBSET Node /\ D \in SUBSET T /\ n \in Node \ T
    BY <1>2, <1>3, <1>6
  <2>2. E \in SUBSET {n} /\ work = Dispatch(AllocateWorktrees(p, T), D)
    BY <1>5
  <2>3. Dispatch(AllocateWorktrees(work, {n}), E)
          = Dispatch(AllocateWorktrees(p, T \cup {n}), D \cup E)
    BY <2>1, <2>2, NextPass
  <2>4. /\ WorktreeConflict(AllocateWorktrees(work, {n}))
              <=> WorktreeConflict(AllocateWorktrees(p, T \cup {n}))
        /\ DuplicateRequest(work, n) <=> DuplicateRequest(p, n)
    BY <2>1, <2>2, NextPass
  <2>5. NewRequests(work, E) = NewRequests(p, E)
    BY <2>1, <2>2, DispatchFields DEF NewRequests, NextRequest
  <2> QED
    BY <2>3, <2>4, <2>5
<1>8. {} \in SUBSET {n}
  OBVIOUS
<1> QED
  BY <1>1, <1>2, <1>4, <1>7, <1>8 DEF T, D, WithWorktree

\* The requests of two sets of nodes together.
LEMMA RequestsTogether ==
  ASSUME NEW p, NEW D, NEW E
  PROVE  NewRequests(p, D) \cup NewRequests(p, E) = NewRequests(p, D \cup E)
BY DEF NewRequests

\* A request is sent, or left out as a duplicate.
LEMMA SendStep ==
  ASSUME IInv, who \in Owner, SendInv, index \in Nat, NEW n \in Node, Send(n)
  PROVE  SendInv'
<1> DEFINE T == {m \in runnable : Before(m, n)}
           U == T \cup {n}
<1>1. /\ dag' = dag /\ impact' = impact /\ who' = who /\ index' = Position[n] + 1
      /\ runnable' = runnable /\ IsNextRunnable(n) /\ ~ WorktreeConflict(WithWorktree(n))
  BY DEF Send, vars
<1> DEFINE E == {n} \ {m \in Node : DuplicateRequest(work, m)}
<1>2. /\ work' = Dispatch(WithWorktree(n), E)
      /\ requests' = requests \cup NewRequests(work, E)
  BY DEF Send
<1>3. PICK p \in PreparedDocuments :
        /\ runnable \in RunnableSets(p.status, p.attempt)
        /\ Sent(p, T, T)
        /\ ~ WorktreeConflict(AllocateWorktrees(p, U))
        /\ DuplicateRequest(work, n) <=> DuplicateRequest(p, n)
        /\ \A X \in SUBSET {n} :
             LET D == {m \in T : ~ DuplicateRequest(p, m)}
             IN  /\ Dispatch(WithWorktree(n), X) = Dispatch(AllocateWorktrees(p, U), D \cup X)
                 /\ NewRequests(work, X) = NewRequests(p, X)
  BY <1>1, SendPass
<1> DEFINE D == {m \in T : ~ DuplicateRequest(p, m)}
           F == {m \in U : ~ DuplicateRequest(p, m)}
<1>4. E \in SUBSET {n} /\ D \cup E = F
  BY <1>3
<1>5. work' = Dispatch(AllocateWorktrees(p, U), F)
  <2> HIDE DEF D, E, F, T, U
  <2> QED
    BY <1>2, <1>3, <1>4 DEF D
<1>6. requests' = NewRequests(p, F)
  <2>1. requests = NewRequests(p, D)
    BY <1>3 DEF Sent
  <2> HIDE DEF D, E, F, T, U
  <2>2. NewRequests(work, E) = NewRequests(p, E)
    BY <1>3, <1>4
  <2> QED
    BY <1>2, <1>4, <2>1, <2>2, RequestsTogether
<1>7. {m \in runnable : Position[m] < Position[n] + 1} = U
  <2>1. runnable \in SUBSET Node
    BY <1>3 DEF RunnableSets, ReadyNodes
  <2> QED
    BY <1>1, <2>1, NextRunnable
<1>8. PreparedDocuments' = PreparedDocuments
  BY <1>1 DEF PreparedDocuments, DatabaseChangeRequired
<1>9. {m \in runnable' : Position[m] < index'} = U
  BY <1>1, <1>7
<1>10. SUFFICES ASSUME NEW V, V = U
               PROVE  /\ NoConflict(p, V)
                      /\ work' = Dispatch(AllocateWorktrees(p, V), {m \in V : ~ DuplicateRequest(p, m)})
                      /\ requests' = NewRequests(p, {m \in V : ~ DuplicateRequest(p, m)})
  <2> HIDE DEF U, F
  <2> QED
    BY <1>1, <1>3, <1>8, <1>9 DEF SendInv, Sent, NoConflict
<1> QED
  BY <1>3, <1>5, <1>6, <1>10 DEF NoConflict

\* A worktree conflict ends the run.
LEMMA StopStep ==
  ASSUME IInv, who \in Owner, SendInv, index \in Nat, NEW n \in Node, StopAtConflict(n)
  PROVE  StoppedInv'
<1> DEFINE T == {m \in runnable : Before(m, n)}
           U == T \cup {n}
<1>1. /\ dag' = dag /\ impact' = impact /\ who' = who
      /\ runnable' = runnable /\ IsNextRunnable(n) /\ WorktreeConflict(WithWorktree(n))
      /\ work' = WithWorktree(n) /\ requests' = requests /\ n \in runnable
  BY DEF StopAtConflict, vars, IsNextRunnable
<1>2. PICK p \in PreparedDocuments :
        /\ runnable \in RunnableSets(p.status, p.attempt)
        /\ NoConflict(p, T)
        /\ Sent(p, T, T)
        /\ WorktreeConflict(AllocateWorktrees(p, U))
        /\ IsDocument(p)
        /\ \A X \in SUBSET {n} :
             LET D == {m \in T : ~ DuplicateRequest(p, m)}
             IN  Dispatch(WithWorktree(n), X) = Dispatch(AllocateWorktrees(p, U), D \cup X)
  BY <1>1, SendPass
<1> DEFINE D == {m \in T : ~ DuplicateRequest(p, m)}
<1>3. D \in SUBSET Node /\ T \in SUBSET Node
  BY <1>2 DEF RunnableSets, ReadyNodes
<1>4. work = Dispatch(AllocateWorktrees(p, T), D) /\ requests = NewRequests(p, D)
  BY <1>2 DEF Sent
<1> HIDE DEF D, T, U
<1>5. Dispatch(WithWorktree(n), {}) = WithWorktree(n)
  <2>1. IsDocument(work)
    BY <1>2, <1>3, <1>4, DispatchFields
  <2> QED
    BY <2>1, DispatchNobody DEF WithWorktree
<1>6. work' = Dispatch(AllocateWorktrees(p, U), D)
  <2>1. {} \in SUBSET {n} /\ D \cup {} = D
    OBVIOUS
  <2> QED
    BY <1>1, <1>2, <1>5, <2>1 DEF D
<1>7. requests' = NewRequests(p, D)
  BY <1>1, <1>4
<1>8. PreparedDocuments' = PreparedDocuments
  BY <1>1 DEF PreparedDocuments, DatabaseChangeRequired
<1> QED
  BY <1>1, <1>2, <1>6, <1>7, <1>8 DEF StoppedInv, Sent, D, T, U

\* A loop that comes to its end gives every runnable node a worktree.
LEMMA UnstoppedOutcome ==
  ASSUME NEW p, IsDocument(p), NEW S \in SUBSET Node, NoConflict(p, S), Sent(p, S, S)
  PROVE  /\ work = Outcome(p, S).document
         /\ requests = Outcome(p, S).requests
         /\ ~ Outcome(p, S).stopped
<1> DEFINE conflict(U) == WorktreeConflict(AllocateWorktrees(p, U))
           D == {n \in S : ~ DuplicateRequest(p, n)}
<1>1. ASSUME NEW U \in SUBSET S, U # {} PROVE ~ conflict(U)
  BY <1>1, ConflictStays DEF NoConflict
<1>2. ReachedNodes(p, S) = S
  <2>1. \A n \in S : {m \in S : Before(m, n)} = {} \/ ~ conflict({m \in S : Before(m, n)})
    <3> HIDE DEF conflict
    <3> QED
      BY <1>1
  <2> QED
    BY <2>1 DEF ReachedNodes
<1>3. DispatchedNodes(p, S) = D
  <2>1. ASSUME NEW n \in S PROVE ~ conflict(UpTo(S, n))
    <3>1. n \in UpTo(S, n) /\ UpTo(S, n) \in SUBSET S
      BY <2>1, ValidWorkflow DEF UpTo, NodesAssumption
    <3> HIDE DEF conflict
    <3> QED
      BY <1>1, <3>1
  <2> QED
    BY <2>1 DEF DispatchedNodes
<1>4. ~ (S # {} /\ conflict(S))
  BY DEF NoConflict
<1>5. work = Dispatch(AllocateWorktrees(p, S), D) /\ requests = NewRequests(p, D)
  BY DEF Sent
<1> HIDE DEF D
<1> QED
  BY <1>2, <1>3, <1>4, <1>5 DEF Outcome

\* A loop that a conflict at n ends gives worktrees up to n.
LEMMA StoppedOutcome ==
  ASSUME NEW p, IsDocument(p), NEW S \in SUBSET Node, NEW n \in S,
         NEW T, T = {m \in S : Before(m, n)}, NoConflict(p, T),
         WorktreeConflict(AllocateWorktrees(p, T \cup {n})), Sent(p, T \cup {n}, T)
  PROVE  /\ work = Outcome(p, S).document
         /\ requests = Outcome(p, S).requests
<1> DEFINE conflict(U) == WorktreeConflict(AllocateWorktrees(p, U))
           D == {m \in T : ~ DuplicateRequest(p, m)}
<1>1. ASSUME NEW U \in SUBSET T, U # {} PROVE ~ conflict(U)
  <2>1. T \in SUBSET Node
    OBVIOUS
  <2> QED
    BY <1>1, <2>1, ConflictStays DEF NoConflict
<1>2. ASSUME NEW U \in SUBSET S, T \cup {n} \subseteq U PROVE conflict(U)
  <2>1. U \in SUBSET Node /\ T \cup {n} \in SUBSET U
    BY <1>2
  <2> HIDE DEF conflict
  <2> QED
    BY <2>1, ConflictStays DEF conflict
<1>3. /\ \A m \in Node : Position[m] \in Nat
      /\ \A k, m \in Node : Position[k] = Position[m] => k = m
  BY ValidWorkflow DEF NodesAssumption
<1>4. \A m \in S : m \in T <=> Before(m, n)
  OBVIOUS
<1>5. ASSUME NEW m \in T
      PROVE  /\ {k \in S : Before(k, m)} \subseteq T
             /\ UpTo(S, m) \subseteq T /\ m \in UpTo(S, m)
  BY <1>3 DEF Before, UpTo
<1>6. ASSUME NEW m \in S \ T, m # n
      PROVE  T \cup {n} \subseteq {k \in S : Before(k, m)}
  BY <1>3, <1>6 DEF Before
<1>7. ASSUME NEW m \in S \ T PROVE T \cup {n} \subseteq UpTo(S, m)
  BY <1>3 DEF Before, UpTo
<1>8. ReachedNodes(p, S) = T \cup {n}
  <2>1. ASSUME NEW m \in T
        PROVE  {k \in S : Before(k, m)} = {} \/ ~ conflict({k \in S : Before(k, m)})
    <3> HIDE DEF conflict
    <3> QED
      BY <1>1, <1>5
  <2>2. {k \in S : Before(k, n)} = {} \/ ~ conflict({k \in S : Before(k, n)})
    <3> HIDE DEF conflict
    <3> QED
      BY <1>1
  <2>3. ASSUME NEW m \in S \ T, m # n
        PROVE  {k \in S : Before(k, m)} # {} /\ conflict({k \in S : Before(k, m)})
    <3>1. {k \in S : Before(k, m)} \in SUBSET S
      OBVIOUS
    <3>2. T \cup {n} \subseteq {k \in S : Before(k, m)}
      BY <1>6, <2>3
    <3> HIDE DEF conflict
    <3> QED
      BY <1>2, <3>1, <3>2
  <2>4. T \cup {n} \subseteq S
    OBVIOUS
  <2> QED
    BY <2>1, <2>2, <2>3, <2>4 DEF ReachedNodes
<1>9. DispatchedNodes(p, S) = D
  <2>1. ASSUME NEW m \in T PROVE ~ conflict(UpTo(S, m))
    <3> HIDE DEF conflict
    <3> QED
      BY <1>1, <1>5
  <2>2. ASSUME NEW m \in S \ T PROVE conflict(UpTo(S, m))
    <3>1. UpTo(S, m) \in SUBSET S
      BY DEF UpTo
    <3> HIDE DEF conflict
    <3> QED
      BY <1>2, <1>7, <3>1
  <2>3. T \subseteq S
    OBVIOUS
  <2> QED
    BY <2>1, <2>2, <2>3 DEF DispatchedNodes
<1>10. work = Dispatch(AllocateWorktrees(p, T \cup {n}), D) /\ requests = NewRequests(p, D)
  BY DEF Sent
<1> HIDE DEF D
<1> QED
  BY <1>8, <1>9, <1>10 DEF Outcome

\* What the run writes is an outcome of the scheduler for its owner.
LEMMA WriteStateRuns ==
  ASSUME IInv, RunInv, WriteState
  PROVE  RunScheduler(who)
<1>1. /\ who \in Owner /\ LockAvailable(dag, who)
      /\ dag' = work /\ impact' = impact /\ run' = run
      /\ issued' = issued \cup {<<q[1], q[2], run>> : q \in requests}
  BY DEF WriteState, RunInv
<1>2. SUFFICES ASSUME NEW p \in PreparedDocuments,
                      runnable \in RunnableSets(p.status, p.attempt),
                      work = Outcome(p, runnable).document,
                      requests = Outcome(p, runnable).requests,
                      ~ (Outcome(p, runnable).stopped /\ requests = {})
               PROVE  RunScheduler(who)
  <2>1. CASE phase = "dispatch" /\ \A n \in runnable : Position[n] < index
    <3>1. PICK p \in PreparedDocuments :
            LET T == {m \in runnable : Position[m] < index}
            IN  /\ runnable \in RunnableSets(p.status, p.attempt)
                /\ NoConflict(p, T)
                /\ Sent(p, T, T)
      BY <2>1 DEF RunInv, SendInv
    <3>2. {m \in runnable : Position[m] < index} = runnable
      BY <2>1
    <3>3. IsDocument(p) /\ runnable \in SUBSET Node
      BY <1>1, <3>1, PreparedDocument DEF RunnableSets, ReadyNodes
    <3>4. NoConflict(p, runnable) /\ Sent(p, runnable, runnable)
      BY <3>1, <3>2
    <3> QED
      BY <1>2, <3>1, <3>3, <3>4, UnstoppedOutcome
  <2>2. CASE phase = "stopped" /\ requests # {}
    <3>1. PICK p \in PreparedDocuments, n \in runnable :
            LET T == {m \in runnable : Before(m, n)}
            IN  /\ runnable \in RunnableSets(p.status, p.attempt)
                /\ NoConflict(p, T)
                /\ WorktreeConflict(AllocateWorktrees(p, T \cup {n}))
                /\ Sent(p, T \cup {n}, T)
      BY <2>2 DEF RunInv, StoppedInv
    <3>2. IsDocument(p) /\ runnable \in SUBSET Node
      BY <1>1, <3>1, PreparedDocument DEF RunnableSets, ReadyNodes
    <3>3. work = Outcome(p, runnable).document /\ requests = Outcome(p, runnable).requests
      BY <3>1, <3>2, StoppedOutcome
    <3> QED
      BY <1>2, <2>2, <3>1, <3>3
  <2> QED
    BY <2>1, <2>2 DEF WriteState
<1>3. Outcome(p, runnable) \in ScheduleRunnableNodes(dag, who, DatabaseChangeRequired)
  <2>1. PICK B \in BlockSets(MarkConditionalNodes(dag, DatabaseChangeRequired).status) :
          p = Prepared(dag, who, DatabaseChangeRequired, B)
    BY DEF PreparedDocuments
  <2> DEFINE o == Outcome(p, runnable)
             F(q) == {Outcome(q, S) : S \in RunnableSets(q.status, q.attempt)}
             sets == {F(Prepared(dag, who, DatabaseChangeRequired, C)) :
                        C \in BlockSets(MarkConditionalNodes(dag, DatabaseChangeRequired).status)}
  <2>2. o \in F(p)
    BY <1>2
  <2>3. F(p) \in sets
    <3> HIDE DEF F
    <3> QED
      BY <2>1
  <2>4. o \in UNION sets
    <3> HIDE DEF sets, o, F
    <3> QED
      BY <2>2, <2>3
  <2>5. ~ (o.stopped /\ o.requests = {})
    BY <1>2
  <2> HIDE DEF o
  <2>6. o \in ScheduleRunnableNodes(dag, who, DatabaseChangeRequired)
    BY <1>1, <2>4, <2>5 DEF ScheduleRunnableNodes
  <2> QED
    BY <2>6 DEF o
<1> QED
  BY <1>1, <1>2, <1>3 DEF RunScheduler

\* The next sweep.
LEMMA SweepAgainInv ==
  ASSUME BlocksInv, SweepAgain
  PROVE  BlocksInv'
<1>1. /\ dag' = dag /\ impact' = impact /\ who' = who /\ index' = 1 /\ work' = work
      /\ changed' = FALSE
  BY DEF SweepAgain, vars
<1>2. MarkConditionalNodes(dag, DatabaseChangeRequired)' = MarkConditionalNodes(dag, DatabaseChangeRequired)
      /\ DatabaseChangeRequired' = DatabaseChangeRequired
  BY <1>1 DEF DatabaseChangeRequired
<1>3. \A n \in Node : ~ (Position[n] < 1)
  BY ValidWorkflow DEF NodesAssumption
<1>4. \A status : PendingNodes(status) \subseteq Node
  BY DEF PendingNodes
<1> QED
  BY <1>1, <1>2, <1>3, <1>4 DEF BlocksInv

-----------------------------------------------------------------------------
(* The invariant of SchedulerLoops *)

LoopInv == IInv /\ SearchInv /\ RunInv

LEMMA InitLoopInv == LoopInit => LoopInv
<1> SUFFICES ASSUME LoopInit PROVE LoopInv
  OBVIOUS
<1>1. IInv
  BY InitIInv DEF LoopInit
<1>2. SearchInv
  BY TablesAssumption DEF LoopInit, SearchInit, SearchInv, VisitedInOrder, CycleSearchIsExact
<1>3. RunInv
  BY DEF LoopInit, RunInv, Phase
<1> QED
  BY <1>1, <1>2, <1>3 DEF LoopInv

\* A command that begins and one that ends leave nothing in memory.
LEMMA MemoryInv ==
  ASSUME NEW p \in {"idle", "validate"}, Memory(p)
  PROVE  RunInv'
BY DEF Memory, RunInv, Phase

\* What a step of a loop does to the invariants of the search and the run.
LEMMA LoopStepInv == LoopInv /\ LoopNext => SearchInv' /\ RunInv'
<1> SUFFICES ASSUME LoopInv, LoopNext PROVE SearchInv' /\ RunInv'
  OBVIOUS
<1>1. IInv /\ SearchInv /\ RunInv /\ index \in Nat /\ changed \in BOOLEAN
  BY DEF LoopInv, RunInv
<1>2. UNCHANGED searchVars => SearchInv'
  BY <1>1 DEF searchVars, SearchInv, VisitedInOrder, CycleSearchIsExact
<1>3. \A n \in Node : Position[n] \in Nat
  BY ValidWorkflow DEF NodesAssumption
<1>4. CASE BeginRun
  <2>1. SearchInv'
    BY <1>1, <1>4, FreshSearch DEF BeginRun, RestartSearch, SearchInv
  <2> QED
    BY <1>4, <2>1, MemoryInv DEF BeginRun
<1>5. CASE ValidateRun
  <2>1. SearchInv'
    BY <1>1, <1>5, SearchStepInv DEF ValidateRun
  <2>2. RunInv'
    BY <1>1, <1>5 DEF ValidateRun, runVars, RunInv
  <2> QED
    BY <2>1, <2>2
<1>6. CASE RefuseRun
  BY <1>2, <1>6, MemoryInv DEF RefuseRun
<1>7. ASSUME NEW owner \in Owner, LockTask(owner)
      PROVE  SearchInv' /\ RunInv'
  <2>1. BlocksInv'
    BY <1>1, <1>7, LockTaskInv DEF RunInv, LockTask
  <2>2. /\ UNCHANGED searchVars /\ phase' = "blocks" /\ who' = owner /\ dag' = dag
        /\ index' = index /\ changed' = changed /\ runnable' = {} /\ requests' = {}
        /\ LockAvailable(dag, owner)
    BY <1>1, <1>7 DEF LockTask, vars, RunInv
  <2> QED
    BY <1>1, <1>2, <1>7, <2>1, <2>2 DEF RunInv, Phase
<1>8. ASSUME NEW n \in Node, BlockOrPass(n)
      PROVE  SearchInv' /\ RunInv'
  <2>1. BlocksInv'
    BY <1>1, <1>8, BlockOrPassInv DEF RunInv, BlockOrPass
  <2>2. /\ UNCHANGED searchVars /\ phase' = "blocks" /\ who' = who /\ dag' = dag
        /\ index' = index + 1 /\ changed' \in BOOLEAN /\ runnable' = {} /\ requests' = {}
        /\ who \in Owner /\ LockAvailable(dag, who)
    BY <1>1, <1>8 DEF BlockOrPass, vars, RunInv, MustBlock
  <2> QED
    BY <1>1, <1>2, <2>1, <2>2 DEF RunInv, Phase
<1>9. CASE SweepAgain
  <2>1. BlocksInv'
    BY <1>1, <1>9, SweepAgainInv DEF RunInv, SweepAgain
  <2>2. /\ UNCHANGED searchVars /\ phase' = "blocks" /\ who' = who /\ dag' = dag
        /\ index' = 1 /\ changed' = FALSE /\ runnable' = {} /\ requests' = {}
        /\ who \in Owner /\ LockAvailable(dag, who)
    BY <1>1, <1>9 DEF SweepAgain, vars, RunInv
  <2> QED
    BY <1>1, <1>2, <2>1, <2>2 DEF RunInv, Phase
<1>10. CASE SweepDone
  <2>1. ChooseInv'
    BY <1>1, <1>10, SweepDoneInv DEF RunInv, SweepDone
  <2>2. /\ UNCHANGED searchVars /\ phase' = "choose" /\ who' = who /\ dag' = dag
        /\ index' = 1 /\ changed' = changed /\ requests' = {}
        /\ who \in Owner /\ LockAvailable(dag, who)
    BY <1>1, <1>10 DEF SweepDone, vars, RunInv
  <2> QED
    BY <1>1, <1>2, <2>1, <2>2 DEF RunInv, Phase
<1>11. ASSUME NEW n \in Node, PassOver(n) \/ Take(n)
       PROVE  SearchInv' /\ RunInv'
  <2>1. ChooseInv'
    <3>1. who \in Owner /\ ChooseInv
      BY <1>1, <1>11 DEF RunInv, PassOver, Take
    <3> QED
      BY <1>1, <1>11, <3>1, PassOverInv, TakeInv
  <2>2. /\ UNCHANGED searchVars /\ phase' = "choose" /\ who' = who /\ dag' = dag
        /\ index' = index + 1 /\ changed' = changed /\ requests' = {}
        /\ who \in Owner /\ LockAvailable(dag, who)
    BY <1>1, <1>11 DEF PassOver, Take, vars, RunInv
  <2> QED
    BY <1>1, <1>2, <2>1, <2>2 DEF RunInv, Phase
<1>12. CASE ChooseDone
  <2>1. SendInv'
    BY <1>1, <1>12, ChooseDoneInv DEF RunInv, ChooseDone
  <2>2. /\ UNCHANGED searchVars /\ phase' = "dispatch" /\ who' = who /\ dag' = dag
        /\ index' = 1 /\ changed' = changed /\ who \in Owner /\ LockAvailable(dag, who)
    BY <1>1, <1>12 DEF ChooseDone, vars, RunInv
  <2> QED
    BY <1>1, <1>2, <2>1, <2>2 DEF RunInv, Phase
<1>13. ASSUME NEW n \in Node, Send(n)
       PROVE  SearchInv' /\ RunInv'
  <2>1. SendInv'
    BY <1>1, <1>13, SendStep DEF RunInv, Send
  <2>2. /\ UNCHANGED searchVars /\ phase' = "dispatch" /\ who' = who /\ dag' = dag
        /\ index' = Position[n] + 1 /\ changed' = changed
        /\ who \in Owner /\ LockAvailable(dag, who)
    BY <1>1, <1>13 DEF Send, vars, RunInv
  <2> QED
    BY <1>1, <1>2, <1>3, <2>1, <2>2 DEF RunInv, Phase
<1>14. ASSUME NEW n \in Node, StopAtConflict(n)
       PROVE  SearchInv' /\ RunInv'
  <2>1. StoppedInv'
    BY <1>1, <1>14, StopStep DEF RunInv, StopAtConflict
  <2>2. /\ UNCHANGED searchVars /\ phase' = "stopped" /\ who' = who /\ dag' = dag
        /\ index' = Position[n] + 1 /\ changed' = changed
        /\ who \in Owner /\ LockAvailable(dag, who)
    BY <1>1, <1>14 DEF StopAtConflict, vars, RunInv
  <2> QED
    BY <1>1, <1>2, <1>3, <2>1, <2>2 DEF RunInv, Phase
<1>15. CASE WriteState \/ GiveUp
  BY <1>2, <1>15, MemoryInv DEF WriteState, GiveUp
<1>16. CASE OtherCommand
  BY <1>1, <1>2, <1>16 DEF OtherCommand, runVars, RunInv
<1> QED
  BY <1>4, <1>5, <1>6, <1>7, <1>8, <1>9, <1>10, <1>11, <1>12, <1>13, <1>14, <1>15, <1>16
  DEF LoopNext

\* Every step of the loops is a step of Scheduler, or changes nothing there.
LEMMA LoopStepRefines == LoopInv /\ LoopNext => [Next]_vars
<1> SUFFICES ASSUME LoopInv, LoopNext PROVE [Next]_vars
  OBVIOUS
<1>1. CASE WriteState
  <2>1. RunScheduler(who) /\ who \in Owner
    BY <1>1, WriteStateRuns DEF LoopInv, RunInv, WriteState
  <2> QED
    BY <2>1 DEF Next
<1>2. CASE OtherCommand
  BY <1>2 DEF OtherCommand, Next
<1>3. CASE ~ WriteState /\ ~ OtherCommand
  <2>1. UNCHANGED vars
    BY <1>3 DEF LoopNext, BeginRun, ValidateRun, RefuseRun, LockTask, BlockOrPass, PassOver,
                Take, StopAtConflict, Send, SweepAgain, SweepDone, ChooseDone, GiveUp
  <2> QED
    BY <2>1
<1> QED
  BY <1>1, <1>2, <1>3

LEMMA NextLoopInv == LoopInv /\ [LoopNext]_loopVars => LoopInv' /\ [Next]_vars
<1> SUFFICES ASSUME LoopInv, [LoopNext]_loopVars PROVE LoopInv' /\ [Next]_vars
  OBVIOUS
<1>1. CASE LoopNext
  <2>1. [Next]_vars /\ SearchInv' /\ RunInv'
    BY <1>1, LoopStepInv, LoopStepRefines
  <2>2. IInv'
    BY <2>1, NextIInv DEF LoopInv
  <2> QED
    BY <2>1, <2>2 DEF LoopInv
<1>2. CASE UNCHANGED loopVars
  <2>1. UNCHANGED vars /\ UNCHANGED searchVars /\ UNCHANGED runVars
    BY <1>2 DEF loopVars
  <2>2. IInv'
    BY <2>1, NextIInv DEF LoopInv
  <2>3. SearchInv'
    BY <2>1 DEF LoopInv, searchVars, SearchInv, VisitedInOrder, CycleSearchIsExact
  <2>4. RunInv'
    <3>1. /\ dag' = dag /\ impact' = impact /\ phase' = phase /\ who' = who /\ work' = work
          /\ index' = index /\ changed' = changed /\ usage' = usage /\ runnable' = runnable
          /\ requests' = requests
      BY <2>1 DEF vars, runVars
    <3>2. DatabaseChangeRequired' = DatabaseChangeRequired
      BY <3>1 DEF DatabaseChangeRequired
    <3>3. PreparedDocuments' = PreparedDocuments
      BY <3>1, <3>2 DEF PreparedDocuments
    <3>4. BlocksInv => BlocksInv'
      BY <3>1, <3>2 DEF BlocksInv
    <3>5. ChooseInv => ChooseInv'
      BY <3>1, <3>3 DEF ChooseInv
    <3>6. SendInv => SendInv'
      BY <3>1, <3>3 DEF SendInv, Sent
    <3>7. StoppedInv => StoppedInv'
      BY <3>1, <3>3 DEF StoppedInv, Sent
    <3> QED
      BY <3>1, <3>4, <3>5, <3>6, <3>7 DEF LoopInv, RunInv
  <2> QED
    BY <2>1, <2>2, <2>3, <2>4 DEF LoopInv
<1> QED
  BY <1>1, <1>2

LEMMA SpecLoopInv == LoopSpec => []LoopInv
<1>1. LoopInit => LoopInv
  BY InitLoopInv
<1>2. LoopInv /\ [LoopNext]_loopVars => LoopInv'
  BY NextLoopInv
<1> QED
  BY <1>1, <1>2, PTL DEF LoopSpec

(* The depth-first search of validateWorkflow refuses a dependency table   *)
(* exactly when it has a cycle, for every table over every set of nodes.   *)
THEOREM SearchIsExact == LoopSpec => []CycleSearchIsExact
<1>1. LoopInv => CycleSearchIsExact
  BY DEF LoopInv, SearchInv
<1> QED
  BY <1>1, SpecLoopInv, PTL

(* The loops of runScheduler - the sweeps of propagateDependencyBlocks,    *)
(* the walk of getRunnableNodes with its counters, the sending that stops  *)
(* at the first worktree conflict - write to dag.json only what            *)
(* ScheduleRunnableNodes defines: they implement Scheduler.                *)
THEOREM LoopsImplementScheduler == LoopSpec => RunHasTheDefinedOutcome
<1>1. LoopInit => Init
  BY DEF LoopInit
<1>2. LoopInv /\ [LoopNext]_loopVars => [Next]_vars
  BY NextLoopInv
<1> QED
  BY <1>1, <1>2, SpecLoopInv, PTL DEF LoopSpec, Spec, RunHasTheDefinedOutcome
=============================================================================
