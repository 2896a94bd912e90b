--------------------------- MODULE DagStateProofs ---------------------------
(***************************************************************************)
(* Proofs about the documents of DagState.                                 *)
(*                                                                         *)
(* Every command writes a document that one of four operations made out of *)
(* a document: parallel-init, a scheduler run, a stage result, a retry.    *)
(* The lemmas show that each operation turns a document that satisfies     *)
(* DocumentInv into one that satisfies it.  They do not mention the state  *)
(* of a specification, so that they serve every module that applies the    *)
(* operations.                                                             *)
(***************************************************************************)
EXTENDS DagState, FiniteSetTheorems, WellFoundedInduction, TLAPS

-----------------------------------------------------------------------------
(* parallel-init *)

\* The document of a fresh run satisfies every document invariant.
LEMMA InitialDocumentInv == DocumentInv(InitialDocument)
<1> DEFINE s == InitialDocument
<1>1. IsDocument(s)
  BY DEF IsDocument, InitialDocument, Status, RequestStatus
<1>2. DependencyOrder(s) /\ RetryBudget(s) /\ WorktreeIsolation(s)
  BY ValidWorkflow DEF DependencyOrder, RetryBudget, WorktreeIsolation, Engaged,
     InitialDocument, RetryAssumption, NodesAssumption
<1>3. RequestLedger(s)
  BY DEF RequestLedger, LastRequest, InitialDocument
<1>4. PoolRespected(s)
  <2>1. RunningNodes(s.status) = {}
    BY DEF RunningNodes, InitialDocument
  <2>2. Cardinality({}) = 0
    BY FS_EmptySet
  <2> QED
    BY <2>1, <2>2, ValidWorkflow DEF PoolRespected, PoolAssumption
<1> QED
  BY <1>1, <1>2, <1>3, <1>4 DEF DocumentInv

-----------------------------------------------------------------------------
(* Two facts about documents that the operations share. *)

\* Dependencies stay satisfied when no passed or skipped node changes.
LEMMA DependenciesStay ==
  ASSUME NEW n \in Node, NEW status, NEW status2,
         \A d \in Node : status[d] \in {"passed", "skipped"} => status2[d] = status[d],
         DependencySatisfied(n, status)
  PROVE  DependencySatisfied(n, status2)
BY ValidWorkflow DEF DependencySatisfied, NodesAssumption

\* The pool limits survive when agents stop working.
LEMMA PoolShrinks ==
  ASSUME NEW s, NEW t, PoolRespected(s),
         RunningNodes(t.status) \subseteq RunningNodes(s.status)
  PROVE  PoolRespected(t)
<1> DEFINE busy == RunningNodes(s.status)
           less == RunningNodes(t.status)
<1>1. IsFiniteSet(busy)
  BY FS_Subset, ValidWorkflow DEF NodesAssumption, RunningNodes
<1>2. ASSUME NEW T, NEW U, T \subseteq U, U \subseteq busy
      PROVE  /\ Cardinality(T) \in Nat /\ Cardinality(U) \in Nat
             /\ Cardinality(T) <= Cardinality(U)
  <2>1. IsFiniteSet(U)
    BY <1>1, <1>2, FS_Subset
  <2> QED
    BY <1>2, <2>1, FS_Subset, FS_CardinalityType
<1>3. /\ Cardinality(less) <= GlobalLimit
      /\ Cardinality(less \cap Mutable) <= MutableLimit
      /\ Cardinality(less \ Mutable) <= ReadOnlyLimit
  <2>1. /\ Cardinality(busy) <= GlobalLimit
        /\ Cardinality(busy \cap Mutable) <= MutableLimit
        /\ Cardinality(busy \ Mutable) <= ReadOnlyLimit
    BY DEF PoolRespected
  <2>2. /\ Cardinality(less) <= Cardinality(busy)
        /\ Cardinality(less) \in Nat /\ Cardinality(busy) \in Nat
    BY <1>2
  <2>3. /\ Cardinality(less \cap Mutable) <= Cardinality(busy \cap Mutable)
        /\ Cardinality(less \cap Mutable) \in Nat /\ Cardinality(busy \cap Mutable) \in Nat
    <3>1. less \cap Mutable \subseteq busy \cap Mutable /\ busy \cap Mutable \subseteq busy
      OBVIOUS
    <3> QED
      BY <1>2, <3>1
  <2>4. /\ Cardinality(less \ Mutable) <= Cardinality(busy \ Mutable)
        /\ Cardinality(less \ Mutable) \in Nat /\ Cardinality(busy \ Mutable) \in Nat
    <3>1. less \ Mutable \subseteq busy \ Mutable /\ busy \ Mutable \subseteq busy
      OBVIOUS
    <3> QED
      BY <1>2, <3>1
  <2> HIDE DEF busy, less
  <2> QED
    BY <2>1, <2>2, <2>3, <2>4, ValidWorkflow DEF PoolAssumption
<1>4. ASSUME NEW n \in Node
      PROVE  Cardinality({m \in less : Agent[m] = Agent[n]}) <= RoleLimit[Agent[n]]
  <2> DEFINE T == {m \in less : Agent[m] = Agent[n]}
             U == {m \in busy : Agent[m] = Agent[n]}
  <2>1. Cardinality(U) <= RoleLimit[Agent[n]]
    BY DEF PoolRespected
  <2>2. T \subseteq U /\ U \subseteq busy
    OBVIOUS
  <2>3. /\ Cardinality(T) \in Nat /\ Cardinality(U) \in Nat
        /\ Cardinality(T) <= Cardinality(U)
    BY <1>2, <2>2
  <2> HIDE DEF T, U
  <2>4. Cardinality(T) <= RoleLimit[Agent[n]]
    BY <2>1, <2>3, ValidWorkflow DEF PoolAssumption
  <2> QED
    BY <2>4 DEF T
<1> QED
  BY <1>3, <1>4 DEF PoolRespected

-----------------------------------------------------------------------------
(* parallel:retry *)

\* What a retry changes: the status, the count and the attempt of its node.
LEMMA RetryFields ==
  ASSUME NEW s, IsDocument(s), NEW n \in Node, NEW t, t = PrepareRetry(s, n)
  PROVE  /\ IsDocument(t)
         /\ t.status[n] = "pending" /\ t.retry[n] = s.retry[n] + 1 /\ t.attempt[n] = 0
         /\ \A m \in Node \ {n} : /\ t.status[m] = s.status[m] /\ t.retry[m] = s.retry[m]
                                  /\ t.attempt[m] = s.attempt[m]
         /\ t.evidence = s.evidence /\ t.worktree = s.worktree /\ t.requests = s.requests
<1>1. s \in [status : [Node -> Status], retry : [Node -> Nat], attempt : [Node -> Nat],
            evidence : [Node -> BOOLEAN], worktree : [Node -> Path \cup {None}],
            requests : {s.requests}, lock : Owner \cup {None}]
  BY DEF IsDocument
<1>2. /\ t.status = [s.status EXCEPT ![n] = "pending"]
      /\ t.retry = [s.retry EXCEPT ![n] = s.retry[n] + 1]
      /\ t.attempt = [s.attempt EXCEPT ![n] = 0]
      /\ t.evidence = s.evidence /\ t.worktree = s.worktree /\ t.requests = s.requests
      /\ t = [status |-> t.status, retry |-> t.retry, attempt |-> t.attempt,
              evidence |-> s.evidence, worktree |-> s.worktree,
              requests |-> s.requests, lock |-> s.lock]
  BY <1>1 DEF PrepareRetry
<1>3. /\ t.status \in [Node -> Status] /\ t.retry \in [Node -> Nat]
      /\ t.attempt \in [Node -> Nat]
  <2>1. "pending" \in Status /\ s.retry[n] + 1 \in Nat
    BY <1>1 DEF Status
  <2> QED
    BY <1>1, <1>2, <2>1
<1>4. t \in [status : [Node -> Status], retry : [Node -> Nat], attempt : [Node -> Nat],
            evidence : [Node -> BOOLEAN], worktree : [Node -> Path \cup {None}],
            requests : {t.requests}, lock : Owner \cup {None}]
  BY <1>1, <1>2, <1>3
<1>5. /\ t.status[n] = "pending" /\ t.retry[n] = s.retry[n] + 1 /\ t.attempt[n] = 0
      /\ \A m \in Node \ {n} : /\ t.status[m] = s.status[m] /\ t.retry[m] = s.retry[m]
                               /\ t.attempt[m] = s.attempt[m]
  BY <1>1, <1>2
<1> QED
  BY <1>2, <1>4, <1>5 DEF IsDocument

\* prepareRetry keeps the document invariants.
LEMMA PrepareRetryInv ==
  ASSUME NEW s, DocumentInv(s), NEW n \in Node, CanRetry(s, n)
  PROVE  DocumentInv(PrepareRetry(s, n))
<1> SUFFICES ASSUME NEW t, t = PrepareRetry(s, n) PROVE DocumentInv(t)
  OBVIOUS
<1> USE DEF DocumentInv
<1>1. /\ IsDocument(t)
      /\ t.status[n] = "pending" /\ t.retry[n] = s.retry[n] + 1 /\ t.attempt[n] = 0
      /\ \A m \in Node \ {n} : /\ t.status[m] = s.status[m] /\ t.retry[m] = s.retry[m]
                               /\ t.attempt[m] = s.attempt[m]
      /\ t.worktree = s.worktree /\ t.requests = s.requests
  BY RetryFields
<1>2. s.status[n] = "failed" /\ s.retry[n] \in Nat /\ s.attempt[n] = s.retry[n] + 1
  BY DEF IsDocument, CanRetry, RequestLedger
<1>3. \A m \in Node : Engaged(t, m) <=> Engaged(s, m)
  BY <1>1, <1>2 DEF Engaged, IsDocument
<1>4. DependencyOrder(t)
  <2>1. \A d \in Node : s.status[d] \in {"passed", "skipped"} => t.status[d] = s.status[d]
    BY <1>1, <1>2
  <2>2. ASSUME NEW m \in Node, Engaged(t, m) PROVE DependencySatisfied(m, t.status)
    BY <1>3, <2>1, <2>2, DependenciesStay DEF DependencyOrder
  <2>3. ASSUME NEW m \in Node, t.status[m] \in {"running", "passed", "failed"}
        PROVE  Engaged(t, m)
    BY <1>1, <1>3, <2>3 DEF DependencyOrder
  <2> QED
    BY <2>2, <2>3 DEF DependencyOrder
<1>5. PoolRespected(t)
  <2>1. RunningNodes(t.status) \subseteq RunningNodes(s.status)
    BY <1>1 DEF RunningNodes
  <2> QED
    BY <2>1, PoolShrinks
<1>6. RequestLedger(t)
  <2>1. \A m \in Node : LastRequest(t, m) = LastRequest(s, m)
    BY <1>1, <1>2 DEF LastRequest, IsDocument
  <2>2. DOMAIN t.requests = UNION {{m} \X (1..LastRequest(t, m)) : m \in Node}
    BY <1>1, <2>1 DEF RequestLedger
  <2>3. \A k \in 1..t.retry[n] : t.requests[<<n, k>>] = "failed"
    <3>1. \A k \in 1..s.retry[n] : s.requests[<<n, k>>] = "failed"
      BY DEF RequestLedger
    <3>2. s.requests[<<n, s.retry[n] + 1>>] = "failed"
      BY <1>2 DEF RequestLedger
    <3> QED
      BY <1>1, <1>2, <3>1, <3>2
  <2> QED
    BY <1>1, <2>2, <2>3 DEF RequestLedger
<1>7. RetryBudget(t)
  BY <1>1, <1>2, ValidWorkflow DEF RetryBudget, CanRetry, IsDocument, RetryAssumption
<1>8. WorktreeIsolation(t)
  BY <1>1, <1>3, ValidWorkflow DEF WorktreeIsolation, WorktreeOf, BranchOf, SameBranch, NodesAssumption
<1> QED
  BY <1>1, <1>4, <1>5, <1>6, <1>7, <1>8

-----------------------------------------------------------------------------
(* parallel:complete *)

\* What a result changes: the status and evidence of its node, and its request.
LEMMA ResultFields ==
  ASSUME NEW s, IsDocument(s), NEW r \in Result, NEW t, t = ApplyStageResult(s, r)
  PROVE  /\ IsDocument(t)
         /\ \A m \in Node :
              /\ t.status[m] = IF m = r.node THEN r.status ELSE s.status[m]
              /\ t.evidence[m] = IF m = r.node THEN r.sound ELSE s.evidence[m]
         /\ t.retry = s.retry /\ t.attempt = s.attempt /\ t.worktree = s.worktree
         /\ DOMAIN t.requests = DOMAIN s.requests
         /\ \A q \in DOMAIN s.requests :
              t.requests[q] = IF q = <<r.node, r.attempt>> THEN r.status ELSE s.requests[q]
<1> DEFINE n == r.node
<1>1. n \in Node /\ r.status \in ResultStatus /\ r.sound \in BOOLEAN
  BY DEF Result
<1>2. /\ \A m \in Node :
           /\ t.status[m] = IF m = n THEN r.status ELSE s.status[m]
           /\ t.evidence[m] = IF m = n THEN r.sound ELSE s.evidence[m]
      /\ t.retry = s.retry /\ t.attempt = s.attempt /\ t.worktree = s.worktree
      /\ DOMAIN t.requests = DOMAIN s.requests
      /\ \A q \in DOMAIN s.requests :
           t.requests[q] = IF q = <<n, r.attempt>> THEN r.status ELSE s.requests[q]
  BY DEF ApplyStageResult, IsDocument
<1>3. t \in [status : [Node -> Status], retry : [Node -> Nat], attempt : [Node -> Nat],
            evidence : [Node -> BOOLEAN], worktree : [Node -> Path \cup {None}],
            requests : {t.requests}, lock : Owner \cup {None}]
  BY <1>1 DEF ApplyStageResult, IsDocument, Status, ResultStatus
<1>4. t.requests \in [DOMAIN t.requests -> RequestStatus]
  BY <1>1 DEF ApplyStageResult, IsDocument, RequestStatus
<1> QED
  BY <1>2, <1>3, <1>4 DEF IsDocument

\* applyStageResult keeps the document invariants for a result that passes
\* validateStageResult.
LEMMA ApplyStageResultInv ==
  ASSUME NEW s, DocumentInv(s), NEW r \in Result, ValidateStageResult(s, r)
  PROVE  DocumentInv(ApplyStageResult(s, r))
<1> SUFFICES ASSUME NEW t, t = ApplyStageResult(s, r) PROVE DocumentInv(t)
  OBVIOUS
<1> USE DEF DocumentInv
<1> DEFINE n == r.node
<1>1. n \in Node /\ r.status \in ResultStatus /\ r.sound \in BOOLEAN
  BY DEF Result
<1>2. s.status[n] = "running" /\ s.attempt[n] = s.retry[n] + 1 /\ r.attempt = s.attempt[n]
      /\ s.retry[n] \in Nat
  BY <1>1 DEF ValidateStageResult, RequestLedger, IsDocument
<1>3. /\ \A m \in Node : t.status[m] = IF m = n THEN r.status ELSE s.status[m]
      /\ t.retry = s.retry /\ t.attempt = s.attempt /\ t.worktree = s.worktree
      /\ DOMAIN t.requests = DOMAIN s.requests
      /\ \A q \in DOMAIN s.requests :
           t.requests[q] = IF q = <<n, s.attempt[n]>> THEN r.status ELSE s.requests[q]
  BY <1>2, ResultFields
<1>4. IsDocument(t)
  BY ResultFields
<1>5. \A m \in Node : Engaged(t, m) <=> Engaged(s, m)
  BY <1>3 DEF Engaged
<1>6. DependencyOrder(t)
  <2>1. \A d \in Node : s.status[d] \in {"passed", "skipped"} => t.status[d] = s.status[d]
    BY <1>2, <1>3
  <2>2. ASSUME NEW m \in Node, Engaged(t, m) PROVE DependencySatisfied(m, t.status)
    BY <1>5, <2>1, <2>2, DependenciesStay DEF DependencyOrder
  <2>3. ASSUME NEW m \in Node, t.status[m] \in {"running", "passed", "failed"}
        PROVE  Engaged(t, m)
    BY <1>1, <1>2, <1>3, <1>5, <2>3 DEF DependencyOrder
  <2> QED
    BY <2>2, <2>3 DEF DependencyOrder
<1>7. PoolRespected(t)
  <2>1. RunningNodes(t.status) \subseteq RunningNodes(s.status)
    BY <1>1, <1>2, <1>3 DEF RunningNodes, ResultStatus
  <2> QED
    BY <2>1, PoolShrinks
<1>8. RequestLedger(t)
  <2>1. \A m \in Node : LastRequest(t, m) = LastRequest(s, m)
    BY <1>3 DEF LastRequest
  <2>2. DOMAIN t.requests = UNION {{m} \X (1..LastRequest(t, m)) : m \in Node}
    BY <1>3, <2>1 DEF RequestLedger
  <2>3. ASSUME NEW m \in Node
        PROVE  /\ t.attempt[m] \in {0, t.retry[m] + 1}
               /\ t.status[m] \in {"running", "passed", "failed"} => t.attempt[m] # 0
               /\ t.status[m] \in {"pending", "skipped"} => t.attempt[m] = 0
    BY <1>1, <1>2, <1>3 DEF RequestLedger, IsDocument, ResultStatus
  <2>4. ASSUME NEW m \in Node, NEW k \in 1..t.retry[m]
        PROVE  t.requests[<<m, k>>] = "failed"
    <3>1. k \in 1..s.retry[m] /\ s.requests[<<m, k>>] = "failed"
      BY <1>3 DEF RequestLedger
    <3>2. k \in 1..LastRequest(s, m)
      <4>1. s.retry[m] \in Nat /\ s.attempt[m] \in {0, s.retry[m] + 1}
        BY DEF RequestLedger, IsDocument
      <4> QED
        BY <3>1, <4>1 DEF LastRequest
    <3>3. <<m, k>> \in DOMAIN s.requests
      BY <3>2 DEF RequestLedger
    <3>4. <<m, k>> # <<n, s.attempt[n]>>
      BY <1>2, <3>1
    <3> QED
      BY <1>3, <3>1, <3>3, <3>4
  <2>5. ASSUME NEW m \in Node, t.attempt[m] # 0
        PROVE  t.requests[<<m, t.attempt[m]>>] =
                 IF t.status[m] = "running" THEN "queued" ELSE t.status[m]
    <3>1. <<m, s.attempt[m]>> \in DOMAIN s.requests
      BY <1>3, <2>5 DEF LastRequest, RequestLedger, IsDocument
    <3>2. CASE m = n
      BY <1>1, <1>2, <1>3, <3>1, <3>2 DEF IsDocument, ResultStatus
    <3>3. CASE m # n
      <4>1. t.status[m] = s.status[m] /\ t.attempt[m] = s.attempt[m]
        BY <1>3, <3>3 DEF IsDocument
      <4>2. t.requests[<<m, s.attempt[m]>>] = s.requests[<<m, s.attempt[m]>>]
        BY <1>3, <3>1, <3>3
      <4> QED
        BY <2>5, <4>1, <4>2 DEF RequestLedger
    <3> QED
      BY <3>2, <3>3
  <2> QED
    BY <2>2, <2>3, <2>4, <2>5 DEF RequestLedger
<1>9. RetryBudget(t)
  BY <1>3 DEF RetryBudget
<1>10. WorktreeIsolation(t)
  BY <1>3, <1>5, ValidWorkflow DEF WorktreeIsolation, WorktreeOf, BranchOf, SameBranch, NodesAssumption
<1> QED
  BY <1>4, <1>6, <1>7, <1>8, <1>9, <1>10

-----------------------------------------------------------------------------
(* parallel:run, first half: skipping and blocking pending nodes *)

\* Without the sets it quantifies over, a scheduler run makes an Outcome of a
\* prepared document.
LEMMA ScheduleIsOutcome ==
  ASSUME NEW s, NEW owner \in Owner, NEW change \in BOOLEAN,
         NEW o \in ScheduleRunnableNodes(s, owner, change)
  PROVE  \E B \in SUBSET PendingNodes(MarkConditionalNodes(s, change).status) :
         \E S \in SUBSET Node :
           LET p == Prepared(s, owner, change, B)
           IN  /\ IsBlockSet(B, MarkConditionalNodes(s, change).status)
               /\ S \subseteq ReadyNodes(p.status, p.attempt)
               /\ IsRunnableSet(S, p.status, p.attempt)
               /\ o = Outcome(p, S)
BY DEF ScheduleRunnableNodes, BlockSets, RunnableSets, ReadyNodes

\* What preparing a document changes: the status of pending nodes, and the lock.
LEMMA PreparedFields ==
  ASSUME NEW s, IsDocument(s), NEW owner \in Owner, NEW change \in BOOLEAN,
         NEW B \in SUBSET PendingNodes(MarkConditionalNodes(s, change).status)
  PROVE  LET p == Prepared(s, owner, change, B)
         IN  /\ IsDocument(p)
             /\ p.retry = s.retry /\ p.attempt = s.attempt /\ p.worktree = s.worktree
             /\ p.requests = s.requests /\ p.evidence = s.evidence
             /\ \A n \in Node :
                  p.status[n] = IF n \in B THEN "blocked"
                                ELSE MarkConditionalNodes(s, change).status[n]
             /\ \A n \in Node :
                  \/ p.status[n] = s.status[n]
                  \/ s.status[n] = "pending" /\ p.status[n] \in {"skipped", "blocked"}
<1> DEFINE marked == MarkConditionalNodes(s, change)
           p == Prepared(s, owner, change, B)
<1>1. s \in [status : [Node -> Status], retry : [Node -> Nat], attempt : [Node -> Nat],
             evidence : [Node -> BOOLEAN], worktree : [Node -> Path \cup {None}],
             requests : {s.requests}, lock : Owner \cup {None}]
  BY DEF IsDocument
<1>2. marked = [status |-> [n \in Node |->
                              IF n \in Conditional /\ s.status[n] = "pending" /\ ~ change
                                THEN "skipped" ELSE s.status[n]],
                retry |-> s.retry, attempt |-> s.attempt, evidence |-> s.evidence,
                worktree |-> s.worktree, requests |-> s.requests, lock |-> s.lock]
  BY <1>1 DEF MarkConditionalNodes
<1>3. p = [status |-> [n \in Node |-> IF n \in B THEN "blocked" ELSE marked.status[n]],
           retry |-> s.retry, attempt |-> s.attempt, evidence |-> s.evidence,
           worktree |-> s.worktree, requests |-> s.requests, lock |-> owner]
  <2>1. ASSUME NEW m, NEW f, NEW g, NEW r, NEW a, NEW e, NEW w, NEW q, NEW k,
               m = [status |-> f, retry |-> r, attempt |-> a, evidence |-> e,
                    worktree |-> w, requests |-> q, lock |-> k]
        PROVE  [m EXCEPT !.lock = owner, !.status = g] =
                 [status |-> g, retry |-> r, attempt |-> a, evidence |-> e,
                  worktree |-> w, requests |-> q, lock |-> owner]
    <3>1. [m EXCEPT !.lock = owner] =
            [status |-> f, retry |-> r, attempt |-> a, evidence |-> e,
             worktree |-> w, requests |-> q, lock |-> owner]
      BY <2>1
    <3>2. ASSUME NEW x,
                 x = [status |-> f, retry |-> r, attempt |-> a, evidence |-> e,
                      worktree |-> w, requests |-> q, lock |-> owner]
          PROVE  [x EXCEPT !.status = g] =
                   [status |-> g, retry |-> r, attempt |-> a, evidence |-> e,
                    worktree |-> w, requests |-> q, lock |-> owner]
      BY <3>2
    <3> QED
      BY <3>1, <3>2
  <2> DEFINE g == [n \in Node |-> IF n \in B THEN "blocked" ELSE marked.status[n]]
  <2>2. p = [marked EXCEPT !.lock = owner, !.status = g]
    BY DEF Prepared, BlockNodes
  <2> HIDE DEF marked, g, p
  <2>3. p = [status |-> g, retry |-> s.retry, attempt |-> s.attempt,
             evidence |-> s.evidence, worktree |-> s.worktree,
             requests |-> s.requests, lock |-> owner]
    BY <1>2, <2>1, <2>2
  <2> QED
    BY <2>3 DEF g
<1>4. \A n \in Node : marked.status[n] = IF n \in Conditional /\ s.status[n] = "pending" /\ ~ change
                                          THEN "skipped" ELSE s.status[n]
  BY <1>2
<1>5. \A n \in Node : p.status[n] = IF n \in B THEN "blocked" ELSE marked.status[n]
  BY <1>3
<1>6. \A n \in B : n \in Node /\ s.status[n] = "pending"
  BY <1>4 DEF PendingNodes
<1>7. p.status \in [Node -> Status]
  <2>1. p.status = [n \in Node |-> IF n \in B THEN "blocked" ELSE marked.status[n]]
    BY <1>3
  <2>2. \A n \in Node : p.status[n] \in Status
    BY <1>1, <1>4, <1>5 DEF Status
  <2> HIDE DEF p, marked
  <2> QED
    BY <2>1, <2>2
<1>8. /\ p.retry = s.retry /\ p.attempt = s.attempt /\ p.worktree = s.worktree
      /\ p.requests = s.requests /\ p.evidence = s.evidence /\ p.lock = owner
  BY <1>3
<1>9. IsDocument(p)
  <2>1. p \in [status : [Node -> Status], retry : [Node -> Nat], attempt : [Node -> Nat],
               evidence : [Node -> BOOLEAN], worktree : [Node -> Path \cup {None}],
               requests : {p.requests}, lock : Owner \cup {None}]
    <3>1. p = [status |-> p.status, retry |-> s.retry, attempt |-> s.attempt,
               evidence |-> s.evidence, worktree |-> s.worktree,
               requests |-> p.requests, lock |-> owner]
      BY <1>3
    <3> HIDE DEF p, marked
    <3> QED
      BY <1>1, <1>7, <3>1
  <2> QED
    BY <1>8, <2>1 DEF IsDocument
<1>10. ASSUME NEW n \in Node
       PROVE  \/ p.status[n] = s.status[n]
              \/ s.status[n] = "pending" /\ p.status[n] \in {"skipped", "blocked"}
  BY <1>4, <1>5, <1>6
<1> QED
  BY <1>5, <1>8, <1>9, <1>10

\* The lock of a prepared document is its owner's.
LEMMA PreparedLock ==
  ASSUME NEW s, IsDocument(s), NEW owner, NEW change, NEW B
  PROVE  Prepared(s, owner, change, B).lock = owner
<1> DEFINE marked == MarkConditionalNodes(s, change)
           st == BlockNodes(B, marked.status)
           m == [marked EXCEPT !.lock = owner]
<1>1. s \in [status : [Node -> Status], retry : [Node -> Nat], attempt : [Node -> Nat],
             evidence : [Node -> BOOLEAN], worktree : [Node -> Path \cup {None}],
             requests : {s.requests}, lock : Owner \cup {None}]
  BY DEF IsDocument
<1>2. DOMAIN marked = DOMAIN s /\ "lock" \in DOMAIN s
  BY <1>1 DEF MarkConditionalNodes
<1>3. m.lock = owner
  <2> HIDE DEF marked
  <2> QED
    BY <1>2
<1>4. Prepared(s, owner, change, B) = [m EXCEPT !.status = st]
  BY DEF Prepared
<1>5. [m EXCEPT !.status = st].lock = m.lock
  <2> HIDE DEF m, st
  <2> QED
    OBVIOUS
<1> QED
  BY <1>3, <1>4, <1>5

\* Preparing a document for dispatch keeps the document invariants.
LEMMA PreparedInv ==
  ASSUME NEW s, DocumentInv(s), NEW owner \in Owner, NEW change \in BOOLEAN,
         NEW B \in SUBSET PendingNodes(MarkConditionalNodes(s, change).status)
  PROVE  DocumentInv(Prepared(s, owner, change, B))
<1> SUFFICES ASSUME NEW t, t = Prepared(s, owner, change, B) PROVE DocumentInv(t)
  OBVIOUS
<1> USE DEF DocumentInv
<1>1. /\ IsDocument(t)
      /\ t.retry = s.retry /\ t.attempt = s.attempt /\ t.worktree = s.worktree
      /\ t.requests = s.requests
      /\ \A n \in Node :
           \/ t.status[n] = s.status[n]
           \/ s.status[n] = "pending" /\ t.status[n] \in {"skipped", "blocked"}
  BY PreparedFields
<1>2. \A m \in Node : Engaged(t, m) <=> Engaged(s, m)
  BY <1>1 DEF Engaged
<1>3. DependencyOrder(t)
  BY <1>1, <1>2, DependenciesStay DEF DependencyOrder
<1>4. PoolRespected(t)
  BY <1>1, PoolShrinks DEF RunningNodes
<1>5. RequestLedger(t)
  <2>1. \A m \in Node : LastRequest(t, m) = LastRequest(s, m)
    BY <1>1 DEF LastRequest
  <2>2. DOMAIN t.requests = UNION {{m} \X (1..LastRequest(t, m)) : m \in Node}
    BY <1>1, <2>1 DEF RequestLedger
  <2>3. ASSUME NEW m \in Node
        PROVE  /\ t.attempt[m] \in {0, t.retry[m] + 1}
               /\ t.status[m] \in {"running", "passed", "failed"} => t.attempt[m] # 0
               /\ t.status[m] \in {"pending", "skipped"} => t.attempt[m] = 0
               /\ \A k \in 1..t.retry[m] : t.requests[<<m, k>>] = "failed"
               /\ t.attempt[m] # 0 =>
                    t.requests[<<m, t.attempt[m]>>] =
                      IF t.status[m] = "running" THEN "queued" ELSE t.status[m]
    BY <1>1 DEF RequestLedger
  <2> QED
    BY <2>2, <2>3 DEF RequestLedger
<1>6. RetryBudget(t)
  BY <1>1 DEF RetryBudget
<1>7. WorktreeIsolation(t)
  BY <1>1, <1>2, ValidWorkflow DEF WorktreeIsolation, WorktreeOf, BranchOf, SameBranch, NodesAssumption
<1> QED
  BY <1>1, <1>3, <1>4, <1>5, <1>6, <1>7

-----------------------------------------------------------------------------
(* parallel:run, second half: choosing nodes the pool has room for *)

\* A nonempty set of nodes has a last one in workflow order.
LEMMA LastNode ==
  ASSUME NEW S \in SUBSET Node, S # {}
  PROVE  \E n \in S : \A m \in S : m = n \/ Before(m, n)
<1> DEFINE rank(n) == Cardinality(Node) - Position[n]
           ranks == {rank(n) : n \in S}
<1>1. Cardinality(Node) \in Nat
  BY ValidWorkflow, FS_CardinalityType DEF NodesAssumption
<1>2. \A n \in Node : rank(n) \in Nat /\ Position[n] \in Nat
  BY <1>1, ValidWorkflow DEF NodesAssumption
<1>3. ranks \subseteq Nat /\ ranks # {}
  BY <1>2
<1>4. \E x \in ranks : \A y \in ranks : ~ (<<y, x>> \in OpToRel(<, Nat))
  <2> HIDE DEF ranks
  <2> QED
    BY <1>3, NatLessThanWellFounded, WFMin
<1>5. PICK n \in S : \A m \in S : ~ (<<rank(m), rank(n)>> \in OpToRel(<, Nat))
  BY <1>4
<1>6. \A m \in S : ~ (rank(m) < rank(n))
  BY <1>2, <1>5 DEF OpToRel
<1>7. \A m \in S : Position[m] <= Position[n]
  BY <1>1, <1>2, <1>6
<1> QED
  BY <1>2, <1>7, ValidWorkflow DEF Before, NodesAssumption

\* One limit of the pool, for the nodes of kind T: if each chosen node fits
\* beside the busy nodes and those chosen before it, all of them fit.
LEMMA LimitHolds ==
  ASSUME NEW R \in SUBSET Node, NEW S \in SUBSET Node, NEW T, NEW L \in Nat,
         Cardinality(R \cap T) <= L,
         \A n \in S \cap T :
           Cardinality((R \cup {m \in S : Before(m, n)}) \cap T) < L
  PROVE  Cardinality((R \cup S) \cap T) <= L
<1>1. CASE S \cap T = {}
  <2>1. (R \cup S) \cap T = R \cap T
    BY <1>1
  <2> QED
    BY <2>1
<1>2. CASE S \cap T # {}
  <2>1. PICK n \in S \cap T : \A m \in S \cap T : m = n \/ Before(m, n)
    <3>1. S \cap T \in SUBSET Node
      OBVIOUS
    <3> QED
      BY <1>2, <3>1, LastNode
  <2> DEFINE U == (R \cup {m \in S : Before(m, n)}) \cap T
  <2>2. IsFiniteSet(U)
    BY ValidWorkflow, FS_Subset DEF NodesAssumption
  <2>3. (R \cup S) \cap T \subseteq U \cup {n}
    BY <2>1
  <2>4. Cardinality(U) < L
    OBVIOUS
  <2>5. Cardinality(U) \in Nat
    BY <2>2, FS_CardinalityType
  <2> HIDE DEF U
  <2>6. IsFiniteSet(U \cup {n}) /\ Cardinality(U \cup {n}) <= Cardinality(U) + 1
    BY <2>2, <2>5, FS_AddElement
  <2>7. /\ Cardinality((R \cup S) \cap T) <= Cardinality(U \cup {n})
        /\ Cardinality((R \cup S) \cap T) \in Nat
        /\ Cardinality(U \cup {n}) \in Nat
    BY <2>3, <2>6, FS_Subset, FS_CardinalityType
  <2> QED
    BY <2>4, <2>5, <2>6, <2>7
<1> QED
  BY <1>1, <1>2

\* All limits together: starting the runnable nodes respects the pool.
LEMMA RunnableSetFits ==
  ASSUME NEW s, PoolRespected(s), NEW S \in SUBSET Node,
         IsRunnableSet(S, s.status, s.attempt),
         NEW t, RunningNodes(t.status) \subseteq RunningNodes(s.status) \cup S
  PROVE  PoolRespected(t)
<1> DEFINE R == RunningNodes(s.status)
           Q == RunningNodes(t.status)
<1>1. R \in SUBSET Node /\ Q \subseteq R \cup S
  BY DEF RunningNodes
<1>2. \A n \in S : PoolHasRoom(n, R \cup {m \in S : Before(m, n)})
  BY DEF IsRunnableSet
<1>3. /\ GlobalLimit \in Nat /\ MutableLimit \in Nat /\ ReadOnlyLimit \in Nat
      /\ \A n \in Node : RoleLimit[Agent[n]] \in Nat
  BY ValidWorkflow DEF PoolAssumption
<1>4. ASSUME NEW T, NEW L \in Nat, Cardinality((R \cup S) \cap T) <= L
      PROVE  Cardinality(Q \cap T) <= L
  <2>1. IsFiniteSet((R \cup S) \cap T) /\ Q \cap T \subseteq (R \cup S) \cap T
    BY <1>1, ValidWorkflow, FS_Subset DEF NodesAssumption
  <2>2. /\ Cardinality(Q \cap T) <= Cardinality((R \cup S) \cap T)
        /\ Cardinality(Q \cap T) \in Nat
        /\ Cardinality((R \cup S) \cap T) \in Nat
    <3> HIDE DEF Q, R
    <3> QED
      BY <2>1, FS_Subset, FS_CardinalityType
  <2> QED
    BY <1>4, <2>2
<1>5. Cardinality(Q) <= GlobalLimit
  <2>1. /\ R \cap Node = R /\ (R \cup S) \cap Node = R \cup S /\ Q \cap Node = Q
        /\ \A n \in S : (R \cup {m \in S : Before(m, n)}) \cap Node
                          = R \cup {m \in S : Before(m, n)}
    BY <1>1
  <2>2. Cardinality(R) <= GlobalLimit
    BY DEF PoolRespected
  <2>3. \A n \in S : Cardinality(R \cup {m \in S : Before(m, n)}) < GlobalLimit
    BY <1>2 DEF PoolHasRoom
  <2> HIDE DEF Q, R
  <2>4. Cardinality((R \cup S) \cap Node) <= GlobalLimit
    BY <1>1, <1>3, <2>1, <2>2, <2>3, LimitHolds
  <2>5. Cardinality(Q \cap Node) <= GlobalLimit
    BY <1>3, <1>4, <2>4
  <2> QED
    BY <2>1, <2>5
<1>6. Cardinality(Q \cap Mutable) <= MutableLimit
  <2>1. Cardinality(R \cap Mutable) <= MutableLimit
    BY DEF PoolRespected
  <2>2. \A n \in S \cap Mutable :
          Cardinality((R \cup {m \in S : Before(m, n)}) \cap Mutable) < MutableLimit
    BY <1>2 DEF PoolHasRoom
  <2> HIDE DEF Q, R
  <2>3. Cardinality((R \cup S) \cap Mutable) <= MutableLimit
    BY <1>1, <1>3, <2>1, <2>2, LimitHolds
  <2> QED
    BY <1>3, <1>4, <2>3
<1>7. Cardinality(Q \ Mutable) <= ReadOnlyLimit
  <2> DEFINE T == Node \ Mutable
  <2>1. R \ Mutable = R \cap T /\ Q \ Mutable = Q \cap T
    BY <1>1
  <2>2. \A n \in S : (R \cup {m \in S : Before(m, n)}) \ Mutable
                       = (R \cup {m \in S : Before(m, n)}) \cap T
    BY <1>1
  <2>3. Cardinality(R \ Mutable) <= ReadOnlyLimit
    BY DEF PoolRespected
  <2>4. \A n \in S \cap T :
          Cardinality((R \cup {m \in S : Before(m, n)}) \ Mutable) < ReadOnlyLimit
    BY <1>2 DEF PoolHasRoom
  <2> HIDE DEF Q, R, T
  <2>5. Cardinality((R \cup S) \cap T) <= ReadOnlyLimit
    BY <1>1, <1>3, <2>1, <2>2, <2>3, <2>4, LimitHolds
  <2>6. Cardinality(Q \cap T) <= ReadOnlyLimit
    BY <1>3, <1>4, <2>5
  <2> QED
    BY <2>1, <2>6
<1>8. ASSUME NEW n \in Node
      PROVE  Cardinality({m \in Q : Agent[m] = Agent[n]}) <= RoleLimit[Agent[n]]
  <2> DEFINE T == {m \in Node : Agent[m] = Agent[n]}
             L == RoleLimit[Agent[n]]
  <2>1. {m \in Q : Agent[m] = Agent[n]} = Q \cap T
        /\ {m \in R : Agent[m] = Agent[n]} = R \cap T
    BY <1>1
  <2>2. \A k \in S \cap T :
          {m \in R \cup {j \in S : Before(j, k)} : Agent[m] = Agent[k]}
            = (R \cup {j \in S : Before(j, k)}) \cap T
    BY <1>1
  <2>3. Cardinality(R \cap T) <= L
    BY <2>1 DEF PoolRespected
  <2>4. \A k \in S \cap T : Cardinality((R \cup {j \in S : Before(j, k)}) \cap T) < L
    BY <1>2, <2>2 DEF PoolHasRoom
  <2>5. L \in Nat
    BY <1>3
  <2> HIDE DEF Q, R, T, L
  <2>6. Cardinality((R \cup S) \cap T) <= L
    BY <1>1, <2>3, <2>4, <2>5, LimitHolds
  <2>7. Cardinality(Q \cap T) <= L
    BY <1>4, <2>5, <2>6
  <2> QED
    BY <2>1, <2>7 DEF L
<1> QED
  BY <1>5, <1>6, <1>7, <1>8 DEF PoolRespected

-----------------------------------------------------------------------------
(* parallel:run, second half: worktrees, duplicates, dispatch *)

\* What allocating worktrees for the nodes of S does to a mutable node.
LEMMA WorktreeAfterAllocation ==
  ASSUME NEW s, IsDocument(s), NEW S \in SUBSET Node, NEW n \in Mutable
  PROVE  WorktreeOf(AllocateWorktrees(s, S), n) =
           IF WorktreeOf(s, n) # None THEN WorktreeOf(s, n)
           ELSE IF n \in S THEN OwnPath[n] ELSE None
<1>1. n \in Node /\ OwnPath[n] # None
  BY ValidWorkflow, PathAssumption DEF NodesAssumption
<1>2. AllocateWorktrees(s, S).worktree[n] =
        IF n \in S \cap Mutable /\ WorktreeOf(s, n) = None
          THEN OwnPath[n] ELSE s.worktree[n]
  BY <1>1 DEF AllocateWorktrees, IsDocument
<1> QED
  BY <1>1, <1>2 DEF WorktreeOf

\* And to its branch.
LEMMA BranchAfterAllocation ==
  ASSUME NEW s, IsDocument(s), NEW S \in SUBSET Node, NEW n \in Mutable
  PROVE  /\ WorktreeOf(s, n) # None => BranchOf(AllocateWorktrees(s, S), n) = BranchOf(s, n)
         /\ WorktreeOf(s, n) = None /\ n \in S =>
              BranchOf(AllocateWorktrees(s, S), n) = OwnBranch[n]
<1>1. n \in Node /\ OwnPath[n] # None
  BY ValidWorkflow, PathAssumption DEF NodesAssumption
<1>2. AllocateWorktrees(s, S).worktree[n] =
        IF n \in S \cap Mutable /\ WorktreeOf(s, n) = None
          THEN OwnPath[n] ELSE s.worktree[n]
  BY <1>1 DEF AllocateWorktrees, IsDocument
<1> QED
  BY <1>1, <1>2 DEF BranchOf

\* A conflict does not go away when more worktrees are allocated.
LEMMA ConflictStays ==
  ASSUME NEW s, IsDocument(s), NEW S \in SUBSET Node, NEW T \in SUBSET S,
         WorktreeConflict(AllocateWorktrees(s, T))
  PROVE  WorktreeConflict(AllocateWorktrees(s, S))
<1> DEFINE given == AllocateWorktrees(s, T)
           more == AllocateWorktrees(s, S)
<1>1. PICK m, n \in {k \in Mutable : WorktreeOf(given, k) # None} :
        m # n /\ (WorktreeOf(given, m) = WorktreeOf(given, n) \/ SameBranch(given, m, n))
  BY DEF WorktreeConflict
<1>2. ASSUME NEW k \in Mutable, WorktreeOf(given, k) # None
      PROVE  WorktreeOf(more, k) = WorktreeOf(given, k) /\ BranchOf(more, k) = BranchOf(given, k)
  <2>1. S \in SUBSET Node /\ T \in SUBSET Node
    OBVIOUS
  <2>2. \/ WorktreeOf(s, k) # None
        \/ k \in T /\ k \in S /\ WorktreeOf(s, k) = None
    <3>1. WorktreeOf(given, k) = IF WorktreeOf(s, k) # None THEN WorktreeOf(s, k)
                                 ELSE IF k \in T THEN OwnPath[k] ELSE None
      BY <2>1, WorktreeAfterAllocation
    <3> HIDE DEF given
    <3> QED
      BY <1>2, <3>1
  <2>3. WorktreeOf(more, k) = WorktreeOf(given, k)
    BY <2>1, <2>2, WorktreeAfterAllocation
  <2>4. BranchOf(more, k) = BranchOf(given, k)
    BY <2>1, <2>2, BranchAfterAllocation
  <2> QED
    BY <2>3, <2>4
<1> HIDE DEF given, more
<1>3. WorktreeConflict(more)
  BY <1>1, <1>2 DEF WorktreeConflict, SameBranch
<1> QED
  BY <1>3 DEF more

\* The document in which worktrees were given to T and requests sent for D.
LEMMA DispatchFields ==
  ASSUME NEW p, IsDocument(p), NEW T \in SUBSET Node, NEW D \in SUBSET Node,
         NEW t, t = Dispatch(AllocateWorktrees(p, T), D)
  PROVE  /\ IsDocument(t)
         /\ t.retry = p.retry /\ t.evidence = p.evidence /\ t.lock = p.lock
         /\ \A n \in Node :
              /\ t.status[n] = IF n \in D THEN "running" ELSE p.status[n]
              /\ t.attempt[n] = IF n \in D THEN p.retry[n] + 1 ELSE p.attempt[n]
              /\ t.worktree[n] = IF n \in T \cap Mutable /\ WorktreeOf(p, n) = None
                                   THEN OwnPath[n] ELSE p.worktree[n]
         /\ t.worktree = AllocateWorktrees(p, T).worktree
         /\ DOMAIN t.requests = DOMAIN p.requests \cup NewRequests(p, D)
         /\ \A q \in DOMAIN t.requests :
              t.requests[q] = IF q \in NewRequests(p, D) THEN "queued"
                              ELSE p.requests[q]
<1> DEFINE a == AllocateWorktrees(p, T)
           st == [n \in Node |-> IF n \in D THEN "running" ELSE p.status[n]]
           at == [n \in Node |-> IF n \in D THEN p.retry[n] + 1 ELSE p.attempt[n]]
           wt == [n \in Node |-> IF n \in T \cap Mutable /\ WorktreeOf(p, n) = None
                                   THEN OwnPath[n] ELSE p.worktree[n]]
           rq == [q \in DOMAIN p.requests \cup NewRequests(p, D) |->
                    IF q \in NewRequests(p, D) THEN "queued" ELSE p.requests[q]]
<1>1. p \in [status : [Node -> Status], retry : [Node -> Nat], attempt : [Node -> Nat],
             evidence : [Node -> BOOLEAN], worktree : [Node -> Path \cup {None}],
             requests : {p.requests}, lock : Owner \cup {None}]
  BY DEF IsDocument
<1>2. a = [status |-> p.status, retry |-> p.retry, attempt |-> p.attempt,
           evidence |-> p.evidence, worktree |-> wt, requests |-> p.requests,
           lock |-> p.lock]
  BY <1>1 DEF AllocateWorktrees
<1>3. /\ a.status = p.status /\ a.retry = p.retry /\ a.attempt = p.attempt
      /\ a.requests = p.requests /\ a.worktree = wt
  BY <1>2
<1>4. NewRequests(a, D) = NewRequests(p, D)
  BY <1>3 DEF NewRequests, NextRequest
<1>5. t = [a EXCEPT !.status = st, !.attempt = at, !.requests = rq]
  <2>1. t = Dispatch(a, D)
    OBVIOUS
  <2> HIDE DEF a
  <2> QED
    BY <1>3, <1>4, <2>1 DEF Dispatch
<1>6. t = [status |-> st, retry |-> p.retry, attempt |-> at, evidence |-> p.evidence,
           worktree |-> wt, requests |-> rq, lock |-> p.lock]
  <2> HIDE DEF a, st, at, wt, rq
  <2>1. [a EXCEPT !.status = st] =
          [status |-> st, retry |-> p.retry, attempt |-> p.attempt,
           evidence |-> p.evidence, worktree |-> wt, requests |-> p.requests,
           lock |-> p.lock]
    BY <1>2
  <2>2. ASSUME NEW x,
               x = [status |-> st, retry |-> p.retry, attempt |-> p.attempt,
                    evidence |-> p.evidence, worktree |-> wt,
                    requests |-> p.requests, lock |-> p.lock]
        PROVE  [x EXCEPT !.attempt = at] =
                 [status |-> st, retry |-> p.retry, attempt |-> at,
                  evidence |-> p.evidence, worktree |-> wt,
                  requests |-> p.requests, lock |-> p.lock]
    BY <2>2
  <2>3. ASSUME NEW x,
               x = [status |-> st, retry |-> p.retry, attempt |-> at,
                    evidence |-> p.evidence, worktree |-> wt,
                    requests |-> p.requests, lock |-> p.lock]
        PROVE  [x EXCEPT !.requests = rq] =
                 [status |-> st, retry |-> p.retry, attempt |-> at,
                  evidence |-> p.evidence, worktree |-> wt, requests |-> rq,
                  lock |-> p.lock]
    BY <2>3
  <2> QED
    BY <1>5, <2>1, <2>2, <2>3
<1>7. /\ t.status = st /\ t.retry = p.retry /\ t.attempt = at /\ t.worktree = wt
      /\ t.evidence = p.evidence /\ t.requests = rq /\ t.lock = p.lock
  BY <1>6
<1>8. /\ st \in [Node -> Status] /\ at \in [Node -> Nat]
      /\ wt \in [Node -> Path \cup {None}]
  BY <1>1, PathAssumption DEF Status
<1>9. DOMAIN rq \subseteq Node \X Nat /\ rq \in [DOMAIN rq -> RequestStatus]
  <2>1. NewRequests(p, D) \subseteq Node \X Nat
    BY <1>1 DEF NewRequests, NextRequest
  <2>2. DOMAIN p.requests \subseteq Node \X Nat /\ p.requests \in [DOMAIN p.requests -> RequestStatus]
    BY DEF IsDocument
  <2> QED
    BY <2>1, <2>2 DEF RequestStatus
<1>10. IsDocument(t)
  <2> HIDE DEF a, st, at, wt, rq
  <2>1. t \in [status : [Node -> Status], retry : [Node -> Nat], attempt : [Node -> Nat],
               evidence : [Node -> BOOLEAN], worktree : [Node -> Path \cup {None}],
               requests : {t.requests}, lock : Owner \cup {None}]
    BY <1>1, <1>6, <1>7, <1>8
  <2> QED
    BY <1>7, <1>9, <2>1 DEF IsDocument
<1> QED
  BY <1>3, <1>7, <1>10

\* The fields of the document a run writes.
LEMMA OutcomeFields ==
  ASSUME NEW p, IsDocument(p), NEW S \in SUBSET Node
  PROVE  LET D == DispatchedNodes(p, S)
             t == Outcome(p, S).document
         IN  /\ IsDocument(t)
             /\ t.retry = p.retry /\ t.evidence = p.evidence
             /\ t.worktree = AllocateWorktrees(p, ReachedNodes(p, S)).worktree
             /\ \A n \in Node :
                  /\ t.status[n] = IF n \in D THEN "running" ELSE p.status[n]
                  /\ t.attempt[n] = IF n \in D THEN p.retry[n] + 1 ELSE p.attempt[n]
             /\ DOMAIN t.requests = DOMAIN p.requests \cup NewRequests(p, D)
             /\ \A q \in DOMAIN t.requests :
                  t.requests[q] = IF q \in NewRequests(p, D) THEN "queued"
                                  ELSE p.requests[q]
<1> DEFINE D == DispatchedNodes(p, S)
           R == ReachedNodes(p, S)
           t == Outcome(p, S).document
<1>1. D \in SUBSET Node /\ R \in SUBSET Node
  BY DEF DispatchedNodes, ReachedNodes
<1>2. t = Dispatch(AllocateWorktrees(p, R), D)
  BY DEF Outcome
<1> HIDE DEF t, R, D
<1>3. /\ IsDocument(t)
      /\ t.retry = p.retry /\ t.evidence = p.evidence
      /\ t.worktree = AllocateWorktrees(p, R).worktree
      /\ \A n \in Node :
           /\ t.status[n] = IF n \in D THEN "running" ELSE p.status[n]
           /\ t.attempt[n] = IF n \in D THEN p.retry[n] + 1 ELSE p.attempt[n]
      /\ DOMAIN t.requests = DOMAIN p.requests \cup NewRequests(p, D)
      /\ \A q \in DOMAIN t.requests :
           t.requests[q] = IF q \in NewRequests(p, D) THEN "queued" ELSE p.requests[q]
  BY <1>1, <1>2, DispatchFields
<1> QED
  BY <1>3 DEF t, R, D

\* The loop reaches every node it dispatches, with all the nodes before it.
LEMMA DispatchedAreReached ==
  ASSUME NEW p, IsDocument(p), NEW S \in SUBSET Node, NEW n \in DispatchedNodes(p, S)
  PROVE  n \in UpTo(S, n) /\ UpTo(S, n) \subseteq ReachedNodes(p, S)
<1>1. \A k \in Node : Position[k] \in Nat
  BY ValidWorkflow DEF NodesAssumption
<1>2. n \in S /\ ~ WorktreeConflict(AllocateWorktrees(p, UpTo(S, n)))
  BY DEF DispatchedNodes
<1>3. ASSUME NEW m \in UpTo(S, n)
      PROVE  m \in ReachedNodes(p, S)
  <2>1. /\ {k \in S : Before(k, m)} \subseteq UpTo(S, n)
        /\ UpTo(S, n) \in SUBSET Node
    BY <1>1, <1>2 DEF UpTo, Before
  <2>2. ~ WorktreeConflict(AllocateWorktrees(p, {k \in S : Before(k, m)}))
    BY <1>2, <2>1, ConflictStays
  <2> QED
    BY <2>2 DEF ReachedNodes, UpTo
<1> QED
  BY <1>1, <1>2, <1>3 DEF UpTo

\* Dispatching never puts two started nodes into one worktree: the node that
\* comes later in the loop was compared with the earlier one.
LEMMA DispatchKeepsIsolation ==
  ASSUME NEW p, IsDocument(p), WorktreeIsolation(p),
         NEW S \in SUBSET Node, NEW t, t = Outcome(p, S).document
  PROVE  WorktreeIsolation(t)
<1> DEFINE D == DispatchedNodes(p, S)
           R == ReachedNodes(p, S)
           W(m) == WorktreeOf(AllocateWorktrees(p, R), m)
           B(m) == BranchOf(AllocateWorktrees(p, R), m)
           Apart(x, y) == W(x) # W(y) /\ ~ (B(x) # None /\ B(x) = B(y))
<1>1. /\ D \subseteq S /\ R \subseteq S /\ Mutable \subseteq Node
      /\ \A k \in Node : Position[k] \in Nat
  BY ValidWorkflow DEF DispatchedNodes, ReachedNodes, NodesAssumption
<1>2. ASSUME NEW m \in Mutable
      PROVE  /\ WorktreeOf(t, m) = W(m) /\ BranchOf(t, m) = B(m)
             /\ Engaged(t, m) => Engaged(p, m) \/ m \in D
             /\ Engaged(p, m) => WorktreeOf(p, m) # None
             /\ WorktreeOf(p, m) # None =>
                  W(m) = WorktreeOf(p, m) /\ B(m) = BranchOf(p, m)
  <2>1. /\ t.worktree = AllocateWorktrees(p, R).worktree
        /\ t.retry = p.retry
        /\ t.attempt[m] = IF m \in D THEN p.retry[m] + 1 ELSE p.attempt[m]
    BY <1>1, OutcomeFields
  <2>2. WorktreeOf(p, m) # None => W(m) = WorktreeOf(p, m) /\ B(m) = BranchOf(p, m)
    BY <1>1, WorktreeAfterAllocation, BranchAfterAllocation
  <2>3. Engaged(p, m) => WorktreeOf(p, m) # None
    BY DEF WorktreeIsolation
  <2>4. Engaged(t, m) => Engaged(p, m) \/ m \in D
    <3> HIDE DEF D
    <3> QED
      BY <2>1 DEF Engaged
  <2> QED
    BY <2>1, <2>2, <2>3, <2>4 DEF WorktreeOf, BranchOf
\* A dispatched node conflicts with no node that has a worktree by then.
<1>3. ASSUME NEW x \in D \cap Mutable, NEW y \in Mutable, y # x,
             WorktreeOf(p, y) # None \/ y \in UpTo(S, x)
      PROVE  Apart(x, y) /\ Apart(y, x)
  <2> DEFINE V(m) == WorktreeOf(AllocateWorktrees(p, UpTo(S, x)), m)
             C(m) == BranchOf(AllocateWorktrees(p, UpTo(S, x)), m)
  <2>1. ~ WorktreeConflict(AllocateWorktrees(p, UpTo(S, x)))
    BY DEF DispatchedNodes
  <2>2. x \in UpTo(S, x) /\ UpTo(S, x) \subseteq R /\ UpTo(S, x) \in SUBSET Node
    BY DispatchedAreReached DEF UpTo
  <2>3. /\ V(x) = W(x) /\ V(y) = W(y) /\ V(x) # None /\ V(y) # None
    BY <1>1, <1>3, <2>2, WorktreeAfterAllocation, PathAssumption
  <2>4. C(x) = B(x) /\ C(y) = B(y)
    <3>1. \/ WorktreeOf(p, y) # None
          \/ WorktreeOf(p, y) = None /\ y \in UpTo(S, x) /\ y \in R
      BY <1>3, <2>2
    <3> QED
      BY <1>1, <1>3, <2>2, <3>1, BranchAfterAllocation
  <2>5. V(x) # V(y) /\ ~ (C(x) # None /\ C(x) = C(y))
    BY <1>3, <2>1, <2>3 DEF WorktreeConflict, SameBranch
  <2> HIDE DEF V, C, W, B
  <2> QED
    BY <2>3, <2>4, <2>5
<1>4. ASSUME NEW m \in Mutable, Engaged(t, m)
      PROVE  W(m) # None
  <2>1. CASE Engaged(p, m)
    BY <1>2, <2>1
  <2>2. CASE m \in D
    <3>1. m \in UpTo(S, m) /\ UpTo(S, m) \subseteq R /\ R \in SUBSET Node
      BY <1>1, <2>2, DispatchedAreReached
    <3> QED
      BY <1>1, <3>1, WorktreeAfterAllocation, PathAssumption
  <2> QED
    BY <1>2, <1>4, <2>1, <2>2
<1>5. ASSUME NEW m \in Mutable, NEW n \in Mutable \ {m}, Engaged(t, m), Engaged(t, n)
      PROVE  Apart(m, n)
  <2>1. CASE Engaged(p, m) /\ Engaged(p, n)
    <3>1. WorktreeOf(p, m) # WorktreeOf(p, n) /\ ~ SameBranch(p, m, n)
      BY <2>1 DEF WorktreeIsolation
    <3>2. /\ W(m) = WorktreeOf(p, m) /\ B(m) = BranchOf(p, m)
          /\ W(n) = WorktreeOf(p, n) /\ B(n) = BranchOf(p, n)
      BY <1>2, <2>1
    <3> QED
      BY <3>1, <3>2 DEF SameBranch
  <2>2. CASE m \in D /\ Engaged(p, n)
    BY <1>2, <1>3, <2>2
  <2>3. CASE n \in D /\ Engaged(p, m)
    BY <1>2, <1>3, <2>3
  <2>4. CASE m \in D /\ n \in D
    <3>1. m \in UpTo(S, n) \/ n \in UpTo(S, m)
      BY <1>1, <2>4 DEF UpTo
    <3> HIDE DEF D, Apart
    <3> QED
      BY <1>3, <2>4, <3>1
  <2> QED
    BY <1>2, <1>5, <2>1, <2>2, <2>3, <2>4
<1> HIDE DEF W, B
<1> QED
  BY <1>2, <1>4, <1>5 DEF WorktreeIsolation, SameBranch

\* Dispatching runnable nodes keeps the document invariants.
LEMMA DispatchInv ==
  ASSUME NEW p, DocumentInv(p), NEW S \in SUBSET Node,
         S \subseteq ReadyNodes(p.status, p.attempt),
         IsRunnableSet(S, p.status, p.attempt)
  PROVE  DocumentInv(Outcome(p, S).document)
<1> SUFFICES ASSUME NEW t, t = Outcome(p, S).document PROVE DocumentInv(t)
  OBVIOUS
<1> USE DEF DocumentInv
<1> DEFINE D == DispatchedNodes(p, S)
<1>1. /\ IsDocument(t)
      /\ t.retry = p.retry
      /\ \A n \in Node :
           /\ t.status[n] = IF n \in D THEN "running" ELSE p.status[n]
           /\ t.attempt[n] = IF n \in D THEN p.retry[n] + 1 ELSE p.attempt[n]
      /\ DOMAIN t.requests = DOMAIN p.requests \cup NewRequests(p, D)
      /\ \A q \in DOMAIN t.requests :
           t.requests[q] = IF q \in NewRequests(p, D) THEN "queued" ELSE p.requests[q]
  BY OutcomeFields
<1>2. /\ D \subseteq S
      /\ \A n \in D : /\ n \in Node /\ p.status[n] = "pending" /\ p.attempt[n] = 0
                      /\ DependencySatisfied(n, p.status)
  BY DEF DispatchedNodes, ReadyNodes
<1>3. \A n \in Node : p.retry[n] \in Nat /\ p.attempt[n] \in Nat
  BY DEF IsDocument
<1> HIDE DEF D
<1>4. DependencyOrder(t)
  <2>1. \A n \in Node : Engaged(t, n) => Engaged(p, n) \/ n \in D
    BY <1>1 DEF Engaged
  <2>2. ASSUME NEW n \in Node, Engaged(t, n)
        PROVE  DependencySatisfied(n, t.status)
    <3>1. DependencySatisfied(n, p.status)
      BY <1>2, <2>1, <2>2 DEF DependencyOrder
    <3>2. \A d \in Node : p.status[d] \in {"passed", "skipped"} => t.status[d] = p.status[d]
      BY <1>1, <1>2
    <3> QED
      BY <3>1, <3>2, DependenciesStay
  <2>3. ASSUME NEW n \in Node, t.status[n] \in {"running", "passed", "failed"}
        PROVE  Engaged(t, n)
    BY <1>1, <1>3, <2>3 DEF DependencyOrder, Engaged
  <2> QED
    BY <2>2, <2>3 DEF DependencyOrder
<1>5. PoolRespected(t)
  <2>1. RunningNodes(t.status) \subseteq RunningNodes(p.status) \cup S
    BY <1>1, <1>2 DEF RunningNodes
  <2> QED
    BY <2>1, RunnableSetFits
<1>6. RequestLedger(t)
  <2>1. \A n \in Node : LastRequest(t, n) = IF n \in D THEN p.retry[n] + 1
                                            ELSE LastRequest(p, n)
    BY <1>1, <1>3 DEF LastRequest
  <2>2. \A n \in D : LastRequest(p, n) = p.retry[n]
    BY <1>2 DEF LastRequest
  <2>3. NewRequests(p, D) = {<<n, p.retry[n] + 1>> : n \in D}
    BY DEF NewRequests, NextRequest
  <2>4. DOMAIN t.requests = UNION {{n} \X (1..LastRequest(t, n)) : n \in Node}
    <3>1. DOMAIN p.requests = UNION {{n} \X (1..LastRequest(p, n)) : n \in Node}
      BY DEF RequestLedger
    <3>2. \A n \in D : {n} \X (1..LastRequest(t, n)) =
                         {n} \X (1..LastRequest(p, n)) \cup {<<n, p.retry[n] + 1>>}
      <4>1. \A k \in Nat : 1..(k + 1) = (1..k) \cup {k + 1}
        OBVIOUS
      <4> QED
        BY <1>2, <1>3, <2>1, <2>2, <4>1
    <3>3. \A n \in Node \ D : {n} \X (1..LastRequest(t, n)) = {n} \X (1..LastRequest(p, n))
      BY <2>1
    <3>4. DOMAIN t.requests \subseteq UNION {{n} \X (1..LastRequest(t, n)) : n \in Node}
      BY <1>1, <1>2, <2>3, <3>1, <3>2, <3>3
    <3>5. UNION {{n} \X (1..LastRequest(t, n)) : n \in Node} \subseteq DOMAIN t.requests
      BY <1>1, <1>2, <2>3, <3>1, <3>2, <3>3
    <3> QED
      BY <3>4, <3>5
  <2>5. ASSUME NEW n \in Node
        PROVE  /\ t.attempt[n] \in {0, t.retry[n] + 1}
               /\ t.status[n] \in {"running", "passed", "failed"} => t.attempt[n] # 0
               /\ t.status[n] \in {"pending", "skipped"} => t.attempt[n] = 0
    <3>1. CASE n \in D
      BY <1>1, <1>3, <3>1
    <3>2. CASE n \notin D
      BY <1>1, <3>2 DEF RequestLedger
    <3> QED
      BY <3>1, <3>2
  <2>6. ASSUME NEW n \in Node, NEW k \in 1..LastRequest(p, n), k <= p.retry[n] \/ n \notin D
        PROVE  t.requests[<<n, k>>] = p.requests[<<n, k>>]
    <3>1. <<n, k>> \in DOMAIN t.requests
      BY <1>1 DEF RequestLedger
    <3>2. <<n, k>> \notin NewRequests(p, D)
      BY <1>3, <2>3, <2>6
    <3> QED
      BY <1>1, <3>1, <3>2
  <2>7. ASSUME NEW n \in Node, NEW k \in 1..t.retry[n]
        PROVE  t.requests[<<n, k>>] = "failed"
    <3>1. k \in 1..p.retry[n] /\ p.requests[<<n, k>>] = "failed"
      BY <1>1 DEF RequestLedger
    <3>2. k \in 1..LastRequest(p, n)
      <4>1. p.attempt[n] \in {0, p.retry[n] + 1}
        BY DEF RequestLedger
      <4> QED
        BY <1>3, <3>1, <4>1 DEF LastRequest
    <3>3. k <= p.retry[n]
      BY <3>1
    <3> QED
      BY <2>6, <3>1, <3>2, <3>3
  <2>8. ASSUME NEW n \in Node, t.attempt[n] # 0
        PROVE  t.requests[<<n, t.attempt[n]>>] =
                 IF t.status[n] = "running" THEN "queued" ELSE t.status[n]
    <3>1. CASE n \in D
      <4>1. <<n, p.retry[n] + 1>> \in NewRequests(p, D)
        BY <2>3, <3>1
      <4> QED
        BY <1>1, <3>1, <4>1
    <3>2. CASE n \notin D
      <4>1. t.attempt[n] = p.attempt[n] /\ t.status[n] = p.status[n]
        BY <1>1, <3>2
      <4>2. p.attempt[n] \in 1..LastRequest(p, n)
        BY <1>3, <2>8, <4>1 DEF LastRequest
      <4>3. t.requests[<<n, p.attempt[n]>>] = p.requests[<<n, p.attempt[n]>>]
        BY <2>6, <3>2, <4>2
      <4> QED
        BY <2>8, <4>1, <4>3 DEF RequestLedger
    <3> QED
      BY <3>1, <3>2
  <2> QED
    BY <2>4, <2>5, <2>7, <2>8 DEF RequestLedger
<1>7. RetryBudget(t)
  BY <1>1 DEF RetryBudget
<1>8. WorktreeIsolation(t)
  BY DispatchKeepsIsolation
<1> QED
  BY <1>1, <1>4, <1>5, <1>6, <1>7, <1>8

\* A whole scheduler run keeps the document invariants.
LEMMA ScheduleInv ==
  ASSUME NEW s, DocumentInv(s), NEW owner \in Owner, NEW change \in BOOLEAN,
         NEW o \in ScheduleRunnableNodes(s, owner, change)
  PROVE  DocumentInv(o.document)
<1>1. PICK B \in SUBSET PendingNodes(MarkConditionalNodes(s, change).status),
           S \in SUBSET Node :
        LET p == Prepared(s, owner, change, B)
        IN  /\ S \subseteq ReadyNodes(p.status, p.attempt)
            /\ IsRunnableSet(S, p.status, p.attempt)
            /\ o = Outcome(p, S)
  BY ScheduleIsOutcome
<1>2. DocumentInv(Prepared(s, owner, change, B))
  BY PreparedInv
<1> QED
  BY <1>1, <1>2, DispatchInv

-----------------------------------------------------------------------------
(* What a scheduler run leaves behind *)

\* A node is ready in the document a run writes only if it was ready before
\* the dispatch and was not dispatched.
LEMMA ReadyAfterDispatch ==
  ASSUME NEW p, IsDocument(p), NEW S \in SUBSET Node,
         S \subseteq ReadyNodes(p.status, p.attempt),
         NEW t, t = Outcome(p, S).document
  PROVE  ReadyNodes(t.status, t.attempt) \subseteq
           ReadyNodes(p.status, p.attempt) \ DispatchedNodes(p, S)
<1> DEFINE D == DispatchedNodes(p, S)
<1>1. \A n \in Node :
        /\ t.status[n] = IF n \in D THEN "running" ELSE p.status[n]
        /\ t.attempt[n] = IF n \in D THEN p.retry[n] + 1 ELSE p.attempt[n]
  BY OutcomeFields
<1>2. \A n \in D : n \in Node /\ p.status[n] = "pending"
  BY DEF DispatchedNodes, ReadyNodes
<1> HIDE DEF D
<1> SUFFICES ASSUME NEW n \in ReadyNodes(t.status, t.attempt)
             PROVE  n \in ReadyNodes(p.status, p.attempt) /\ n \notin D
  BY DEF D
<1>3. /\ n \in Node /\ t.status[n] = "pending" /\ t.attempt[n] = 0
      /\ DependencySatisfied(n, t.status)
  BY DEF ReadyNodes
<1>4. n \notin D /\ p.status[n] = "pending" /\ p.attempt[n] = 0
  BY <1>1, <1>3
<1>5. \A d \in Node : t.status[d] \in {"passed", "skipped"} => p.status[d] = t.status[d]
  BY <1>1
<1>6. DependencySatisfied(n, p.status)
  BY <1>3, <1>5, DependenciesStay
<1>7. ~ HasFailedDependency(n, p.status)
  BY <1>3, <1>6 DEF DependencySatisfied, HasFailedDependency, FailedNodes
<1> QED
  BY <1>3, <1>4, <1>6, <1>7 DEF ReadyNodes

\* A node that does not fit beside some agents does not fit beside more.
LEMMA RoomShrinks ==
  ASSUME NEW n \in Node, NEW V \in SUBSET Node, NEW U \in SUBSET V, PoolHasRoom(n, V)
  PROVE  PoolHasRoom(n, U)
<1>1. ASSUME NEW Y \in SUBSET Node, NEW X \in SUBSET Y, NEW L \in Nat, Cardinality(Y) < L
      PROVE  Cardinality(X) < L
  <2>1. IsFiniteSet(Y) /\ IsFiniteSet(X)
    BY ValidWorkflow, FS_Subset DEF NodesAssumption
  <2>2. /\ Cardinality(X) <= Cardinality(Y)
        /\ Cardinality(X) \in Nat /\ Cardinality(Y) \in Nat
    BY <2>1, FS_Subset, FS_CardinalityType
  <2> QED
    BY <1>1, <2>2
<1>2. /\ GlobalLimit \in Nat /\ MutableLimit \in Nat /\ ReadOnlyLimit \in Nat
      /\ RoleLimit[Agent[n]] \in Nat
  BY ValidWorkflow DEF PoolAssumption
<1>3. /\ U \cap Mutable \in SUBSET (V \cap Mutable) /\ U \ Mutable \in SUBSET (V \ Mutable)
      /\ V \cap Mutable \in SUBSET Node /\ V \ Mutable \in SUBSET Node
      /\ {m \in U : Agent[m] = Agent[n]} \in SUBSET {m \in V : Agent[m] = Agent[n]}
      /\ {m \in V : Agent[m] = Agent[n]} \in SUBSET Node
  OBVIOUS
<1>4. Cardinality(U) < GlobalLimit
  BY <1>1, <1>2 DEF PoolHasRoom
<1>5. n \in Mutable => Cardinality(U \cap Mutable) < MutableLimit
  BY <1>1, <1>2, <1>3 DEF PoolHasRoom
<1>6. n \notin Mutable => Cardinality(U \ Mutable) < ReadOnlyLimit
  BY <1>1, <1>2, <1>3 DEF PoolHasRoom
<1>7. Cardinality({m \in U : Agent[m] = Agent[n]}) < RoleLimit[Agent[n]]
  BY <1>1, <1>2, <1>3 DEF PoolHasRoom
<1> QED
  BY <1>4, <1>5, <1>6, <1>7 DEF PoolHasRoom

-----------------------------------------------------------------------------
(* What a scheduler run does, beyond keeping the document invariants. *)

\* A scheduler run touches no settled or running node, and adds exactly the
\* requests it returns: next requests, not on record before, of the nodes that
\* it starts.
LEMMA ScheduleFields ==
  ASSUME NEW s, IsDocument(s), NEW owner \in Owner, NEW change \in BOOLEAN,
         NEW o \in ScheduleRunnableNodes(s, owner, change)
  PROVE  /\ IsDocument(o.document)
         /\ o.document.evidence = s.evidence /\ o.document.retry = s.retry
         /\ \A n \in Node :
              s.status[n] # "pending" => o.document.status[n] = s.status[n]
         /\ \A n \in Node :
              s.status[n] = "pending" =>
                o.document.status[n] \in {"pending", "skipped", "blocked", "running"}
         /\ \A n \in Node :
              IF s.status[n] = "pending" /\ o.document.status[n] = "running"
                THEN /\ o.document.attempt[n] = s.retry[n] + 1
                     /\ <<n, s.retry[n] + 1>> \in o.requests
                ELSE o.document.attempt[n] = s.attempt[n]
         /\ DOMAIN o.document.requests = DOMAIN s.requests \cup o.requests
         /\ \A q \in o.requests :
              /\ q[1] \in Node /\ q = <<q[1], s.retry[q[1]] + 1>>
              /\ q \notin DOMAIN s.requests /\ o.document.requests[q] = "queued"
         /\ \A q \in DOMAIN s.requests : o.document.requests[q] = s.requests[q]
<1>1. PICK B \in SUBSET PendingNodes(MarkConditionalNodes(s, change).status),
           S \in SUBSET Node :
        LET p == Prepared(s, owner, change, B)
        IN  /\ S \subseteq ReadyNodes(p.status, p.attempt)
            /\ o = Outcome(p, S)
  BY ScheduleIsOutcome
<1> DEFINE p == Prepared(s, owner, change, B)
           D == DispatchedNodes(p, S)
           t == Outcome(p, S).document
<1>2. /\ IsDocument(p) /\ p.attempt = s.attempt
      /\ p.retry = s.retry /\ p.requests = s.requests /\ p.evidence = s.evidence
      /\ \A n \in Node :
           \/ p.status[n] = s.status[n]
           \/ s.status[n] = "pending" /\ p.status[n] \in {"skipped", "blocked"}
  BY PreparedFields
<1>3. S \subseteq ReadyNodes(p.status, p.attempt) /\ o = Outcome(p, S)
  BY <1>1
<1> HIDE DEF p
<1>4. /\ IsDocument(t) /\ t.evidence = p.evidence /\ t.retry = p.retry
      /\ \A n \in Node :
           /\ t.status[n] = IF n \in D THEN "running" ELSE p.status[n]
           /\ t.attempt[n] = IF n \in D THEN p.retry[n] + 1 ELSE p.attempt[n]
      /\ DOMAIN t.requests = DOMAIN p.requests \cup NewRequests(p, D)
      /\ \A q \in DOMAIN t.requests :
           t.requests[q] = IF q \in NewRequests(p, D) THEN "queued" ELSE p.requests[q]
  BY <1>2, OutcomeFields
<1>5. o.document = t /\ o.requests = NewRequests(p, D)
  BY <1>3 DEF Outcome
<1>6. \A n \in D : /\ n \in Node /\ p.status[n] = "pending"
                  /\ <<n, p.retry[n] + 1>> \notin DOMAIN p.requests
  BY <1>3 DEF DispatchedNodes, ReadyNodes, DuplicateRequest, NextRequest
<1>7. NewRequests(p, D) = {<<n, p.retry[n] + 1>> : n \in D}
  BY DEF NewRequests, NextRequest
<1> HIDE DEF D, t
<1>8. \A q \in NewRequests(p, D) : /\ q[1] \in Node /\ q = <<q[1], p.retry[q[1]] + 1>>
                                  /\ q \notin DOMAIN p.requests
  BY <1>6, <1>7
<1>9. \A n \in Node :
        IF s.status[n] = "pending" /\ t.status[n] = "running"
          THEN t.attempt[n] = s.retry[n] + 1 /\ <<n, s.retry[n] + 1>> \in NewRequests(p, D)
          ELSE t.attempt[n] = s.attempt[n]
  <2> TAKE n \in Node
  <2>1. CASE n \in D
    <3>1. s.status[n] = "pending" /\ t.status[n] = "running"
      BY <1>2, <1>4, <1>6, <2>1
    <3>2. t.attempt[n] = s.retry[n] + 1
      BY <1>2, <1>4, <2>1
    <3>3. <<n, p.retry[n] + 1>> \in NewRequests(p, D)
      BY <1>7, <2>1
    <3>4. <<n, s.retry[n] + 1>> \in NewRequests(p, D)
      BY <1>2, <3>3
    <3> QED
      BY <3>1, <3>2, <3>4
  <2>2. CASE n \notin D
    BY <1>2, <1>4, <2>2
  <2> QED
    BY <2>1, <2>2
<1>10. \A n \in Node : s.status[n] = "pending" =>
         t.status[n] \in {"pending", "skipped", "blocked", "running"}
  BY <1>2, <1>4
<1>11. \A n \in Node : s.status[n] # "pending" => t.status[n] = s.status[n]
  BY <1>2, <1>4, <1>6
<1>12. \A q \in DOMAIN s.requests : t.requests[q] = s.requests[q]
  BY <1>2, <1>4, <1>8
<1>13. \A q \in NewRequests(p, D) : t.requests[q] = "queued"
  BY <1>4
<1> QED
  BY <1>2, <1>4, <1>5, <1>8, <1>9, <1>10, <1>11, <1>12, <1>13

\* As a log of requests, it keeps every entry and adds waiting ones.
LEMMA ScheduleExtends ==
  ASSUME NEW s, IsDocument(s), NEW owner \in Owner, NEW change \in BOOLEAN,
         NEW o \in ScheduleRunnableNodes(s, owner, change)
  PROVE  LET new == o.document.requests
         IN  /\ DOMAIN s.requests \subseteq DOMAIN new
             /\ new = [q \in DOMAIN new |-> IF q \in DOMAIN s.requests THEN s.requests[q]
                                            ELSE "queued"]
<1> DEFINE new == o.document.requests
<1>1. /\ DOMAIN new = DOMAIN s.requests \cup o.requests
      /\ \A q \in o.requests : new[q] = "queued"
      /\ \A q \in DOMAIN s.requests : new[q] = s.requests[q]
      /\ new \in [DOMAIN new -> RequestStatus]
  BY ScheduleFields DEF IsDocument
<1> HIDE DEF new
<1> QED
  BY <1>1 DEF new

\* In a legal document an accepted result answers a request that waits.
LEMMA RunningIsQueued ==
  ASSUME NEW s, DocumentInv(s), NEW r \in Result, ValidateStageResult(s, r)
  PROVE  /\ <<r.node, r.attempt>> \in DOMAIN s.requests
         /\ s.requests[<<r.node, r.attempt>>] = "queued"
         /\ r.attempt = s.attempt[r.node]
<1> DEFINE n == r.node
<1>1. n \in Node /\ s.status[n] = "running"
  BY DEF Result, ValidateStageResult
<1>2. s.attempt[n] # 0 /\ s.attempt[n] = s.retry[n] + 1 /\ s.retry[n] \in Nat
  BY <1>1 DEF DocumentInv, RequestLedger, IsDocument
<1>3. r.attempt = s.attempt[n]
  BY <1>2 DEF ValidateStageResult
<1>4. s.attempt[n] \in 1..LastRequest(s, n)
  BY <1>2 DEF LastRequest
<1> HIDE DEF n
<1>5. <<n, s.attempt[n]>> \in DOMAIN s.requests
  BY <1>1, <1>4 DEF DocumentInv, RequestLedger
<1>6. s.requests[<<n, s.attempt[n]>>] = "queued"
  BY <1>1, <1>2 DEF DocumentInv, RequestLedger
<1> QED
  BY <1>3, <1>5, <1>6 DEF n

\* A result settles its entry of the log and no other.
LEMMA ResultSettles ==
  ASSUME NEW s, IsDocument(s), NEW r \in Result, <<r.node, r.attempt>> \in DOMAIN s.requests
  PROVE  ApplyStageResult(s, r).requests =
           [s.requests EXCEPT ![<<r.node, r.attempt>>] = r.status]
<1> DEFINE new == ApplyStageResult(s, r).requests
           k == <<r.node, r.attempt>>
<1>1. /\ DOMAIN new = DOMAIN s.requests /\ new \in [DOMAIN new -> RequestStatus]
      /\ \A q \in DOMAIN s.requests : new[q] = IF q = k THEN r.status ELSE s.requests[q]
  BY ResultFields DEF IsDocument
<1>2. s.requests \in [DOMAIN s.requests -> RequestStatus]
  BY DEF IsDocument
<1> HIDE DEF new, k
<1>3. new = [s.requests EXCEPT ![k] = r.status]
  BY <1>1, <1>2
<1> QED
  BY <1>3 DEF new, k

-----------------------------------------------------------------------------
(* parallel:run, second half: one runnable node after the other *)

\* A document is its fields.
LEMMA SameDocument ==
  ASSUME NEW s, NEW t, IsDocument(s), IsDocument(t),
         \A n \in Node : /\ s.status[n] = t.status[n] /\ s.attempt[n] = t.attempt[n]
                         /\ s.worktree[n] = t.worktree[n],
         s.retry = t.retry, s.evidence = t.evidence, s.requests = t.requests,
         s.lock = t.lock
  PROVE  s = t
<1>1. ASSUME NEW x, IsDocument(x)
      PROVE  /\ x.status \in [Node -> Status] /\ x.attempt \in [Node -> Nat]
             /\ x.worktree \in [Node -> Path \cup {None}]
             /\ x = [status |-> x.status, retry |-> x.retry, attempt |-> x.attempt,
                     evidence |-> x.evidence, worktree |-> x.worktree,
                     requests |-> x.requests, lock |-> x.lock]
  BY <1>1 DEF IsDocument
<1>2. s.status = t.status
  BY <1>1
<1>3. s.attempt = t.attempt
  BY <1>1
<1>4. s.worktree = t.worktree
  BY <1>1
<1>5. /\ s = [status |-> s.status, retry |-> s.retry, attempt |-> s.attempt,
              evidence |-> s.evidence, worktree |-> s.worktree,
              requests |-> s.requests, lock |-> s.lock]
      /\ t = [status |-> t.status, retry |-> t.retry, attempt |-> t.attempt,
              evidence |-> t.evidence, worktree |-> t.worktree,
              requests |-> t.requests, lock |-> t.lock]
  BY <1>1
<1> QED
  BY <1>2, <1>3, <1>4, <1>5

\* Giving worktrees changes no other field.
LEMMA AllocateFields ==
  ASSUME NEW p, IsDocument(p), NEW T \in SUBSET Node,
         NEW a, a = AllocateWorktrees(p, T)
  PROVE  /\ IsDocument(a)
         /\ a.status = p.status /\ a.retry = p.retry /\ a.attempt = p.attempt
         /\ a.evidence = p.evidence /\ a.requests = p.requests /\ a.lock = p.lock
         /\ \A n \in Node :
              a.worktree[n] = IF n \in T \cap Mutable /\ WorktreeOf(p, n) = None
                                THEN OwnPath[n] ELSE p.worktree[n]
<1> DEFINE wt == [n \in Node |-> IF n \in T \cap Mutable /\ WorktreeOf(p, n) = None
                                   THEN OwnPath[n] ELSE p.worktree[n]]
<1>1. p \in [status : [Node -> Status], retry : [Node -> Nat], attempt : [Node -> Nat],
             evidence : [Node -> BOOLEAN], worktree : [Node -> Path \cup {None}],
             requests : {p.requests}, lock : Owner \cup {None}]
  BY DEF IsDocument
<1>2. a = [status |-> p.status, retry |-> p.retry, attempt |-> p.attempt,
           evidence |-> p.evidence, worktree |-> wt, requests |-> p.requests,
           lock |-> p.lock]
  BY <1>1 DEF AllocateWorktrees
<1>3. wt \in [Node -> Path \cup {None}]
  BY <1>1, PathAssumption
<1>4. /\ a.status = p.status /\ a.retry = p.retry /\ a.attempt = p.attempt
      /\ a.evidence = p.evidence /\ a.requests = p.requests /\ a.lock = p.lock
      /\ a.worktree = wt
  BY <1>2
<1>5. a \in [status : [Node -> Status], retry : [Node -> Nat], attempt : [Node -> Nat],
             evidence : [Node -> BOOLEAN], worktree : [Node -> Path \cup {None}],
             requests : {a.requests}, lock : Owner \cup {None}]
  <2> HIDE DEF wt
  <2> QED
    BY <1>1, <1>2, <1>3, <1>4
<1> QED
  BY <1>4, <1>5 DEF IsDocument

\* Sending to nobody changes nothing, nor does giving nobody a worktree.
LEMMA DispatchNobody ==
  ASSUME NEW p, IsDocument(p), NEW T \in SUBSET Node
  PROVE  /\ Dispatch(AllocateWorktrees(p, T), {}) = AllocateWorktrees(p, T)
         /\ AllocateWorktrees(p, {}) = p
<1>1. SUFFICES ASSUME NEW a, a = AllocateWorktrees(p, T),
                      NEW t, t = Dispatch(AllocateWorktrees(p, T), {}),
                      NEW z, z = AllocateWorktrees(p, {})
               PROVE  t = a /\ z = p
  OBVIOUS
<1>2. /\ IsDocument(a)
      /\ a.status = p.status /\ a.retry = p.retry /\ a.attempt = p.attempt
      /\ a.evidence = p.evidence /\ a.requests = p.requests /\ a.lock = p.lock
  BY <1>1, AllocateFields
<1>3. /\ IsDocument(t)
      /\ t.retry = p.retry /\ t.evidence = p.evidence /\ t.lock = p.lock
      /\ t.worktree = a.worktree
      /\ \A n \in Node : t.status[n] = p.status[n] /\ t.attempt[n] = p.attempt[n]
      /\ DOMAIN t.requests = DOMAIN p.requests
      /\ \A q \in DOMAIN t.requests : t.requests[q] = p.requests[q]
  <2>1. {} \in SUBSET Node /\ NewRequests(p, {}) = {}
    BY DEF NewRequests
  <2>2. /\ IsDocument(t)
        /\ t.retry = p.retry /\ t.evidence = p.evidence /\ t.lock = p.lock
        /\ \A n \in Node :
             /\ t.status[n] = IF n \in {} THEN "running" ELSE p.status[n]
             /\ t.attempt[n] = IF n \in {} THEN p.retry[n] + 1 ELSE p.attempt[n]
        /\ t.worktree = AllocateWorktrees(p, T).worktree
        /\ DOMAIN t.requests = DOMAIN p.requests \cup NewRequests(p, {})
        /\ \A q \in DOMAIN t.requests :
             t.requests[q] = IF q \in NewRequests(p, {}) THEN "queued" ELSE p.requests[q]
    BY <1>1, <2>1, DispatchFields
  <2> QED
    BY <1>1, <2>1, <2>2
<1>4. t.requests = a.requests
  <2>1. t.requests \in [DOMAIN t.requests -> RequestStatus]
        /\ p.requests \in [DOMAIN p.requests -> RequestStatus]
    BY <1>3 DEF IsDocument
  <2> QED
    BY <1>2, <1>3, <2>1
<1>5. t = a
  BY <1>2, <1>3, <1>4, SameDocument
<1>6. z = p
  <2>1. {} \in SUBSET Node
    OBVIOUS
  <2>2. /\ IsDocument(z)
        /\ z.status = p.status /\ z.retry = p.retry /\ z.attempt = p.attempt
        /\ z.evidence = p.evidence /\ z.requests = p.requests /\ z.lock = p.lock
        /\ \A n \in Node :
             z.worktree[n] = IF n \in {} \cap Mutable /\ WorktreeOf(p, n) = None
                               THEN OwnPath[n] ELSE p.worktree[n]
    BY <1>1, <2>1, AllocateFields
  <2>3. \A n \in Node : z.worktree[n] = p.worktree[n]
    BY <2>2
  <2> QED
    BY <2>2, <2>3, SameDocument
<1> QED
  BY <1>5, <1>6

\* Who conflicts is a matter of the worktrees alone.
LEMMA ConflictFromWorktrees ==
  ASSUME NEW s, NEW t, \A n \in Node : s.worktree[n] = t.worktree[n]
  PROVE  WorktreeConflict(s) <=> WorktreeConflict(t)
BY ValidWorkflow DEF WorktreeConflict, WorktreeOf, BranchOf, SameBranch, NodesAssumption

\* The next pass of the loop, on the document the passes before it made of p:
\* the outcome is the one of giving worktrees and sending in one go.
LEMMA NextPass ==
  ASSUME NEW p, IsDocument(p), NEW T \in SUBSET Node, NEW D \in SUBSET T,
         NEW n \in Node \ T, NEW E \in SUBSET {n},
         NEW w, w = Dispatch(AllocateWorktrees(p, T), D)
  PROVE  /\ Dispatch(AllocateWorktrees(w, {n}), E)
              = Dispatch(AllocateWorktrees(p, T \cup {n}), D \cup E)
         /\ WorktreeConflict(AllocateWorktrees(w, {n}))
              <=> WorktreeConflict(AllocateWorktrees(p, T \cup {n}))
         /\ NewRequests(w, E) = NewRequests(p, E)
         /\ DuplicateRequest(w, n) <=> DuplicateRequest(p, n)
<1> DEFINE u == Dispatch(AllocateWorktrees(w, {n}), E)
           v == Dispatch(AllocateWorktrees(p, T \cup {n}), D \cup E)
<1>1. /\ IsDocument(w)
      /\ w.retry = p.retry /\ w.evidence = p.evidence /\ w.lock = p.lock
      /\ \A m \in Node :
           /\ w.status[m] = IF m \in D THEN "running" ELSE p.status[m]
           /\ w.attempt[m] = IF m \in D THEN p.retry[m] + 1 ELSE p.attempt[m]
           /\ w.worktree[m] = IF m \in T \cap Mutable /\ WorktreeOf(p, m) = None
                                THEN OwnPath[m] ELSE p.worktree[m]
      /\ DOMAIN w.requests = DOMAIN p.requests \cup NewRequests(p, D)
      /\ \A q \in DOMAIN w.requests :
           w.requests[q] = IF q \in NewRequests(p, D) THEN "queued" ELSE p.requests[q]
  <2>1. D \in SUBSET Node
    OBVIOUS
  <2> QED
    BY <2>1, DispatchFields
<1>2. /\ IsDocument(u)
      /\ u.retry = w.retry /\ u.evidence = w.evidence /\ u.lock = w.lock
      /\ \A m \in Node :
           /\ u.status[m] = IF m \in E THEN "running" ELSE w.status[m]
           /\ u.attempt[m] = IF m \in E THEN w.retry[m] + 1 ELSE w.attempt[m]
           /\ u.worktree[m] = IF m \in {n} \cap Mutable /\ WorktreeOf(w, m) = None
                                THEN OwnPath[m] ELSE w.worktree[m]
      /\ DOMAIN u.requests = DOMAIN w.requests \cup NewRequests(w, E)
      /\ \A q \in DOMAIN u.requests :
           u.requests[q] = IF q \in NewRequests(w, E) THEN "queued" ELSE w.requests[q]
  <2> HIDE DEF u
  <2>1. u = Dispatch(AllocateWorktrees(w, {n}), E)
    BY DEF u
  <2>2. E \in SUBSET Node /\ {n} \in SUBSET Node
    OBVIOUS
  <2> QED
    BY <1>1, <2>1, <2>2, DispatchFields
<1>3. /\ IsDocument(v)
      /\ v.retry = p.retry /\ v.evidence = p.evidence /\ v.lock = p.lock
      /\ \A m \in Node :
           /\ v.status[m] = IF m \in D \cup E THEN "running" ELSE p.status[m]
           /\ v.attempt[m] = IF m \in D \cup E THEN p.retry[m] + 1 ELSE p.attempt[m]
           /\ v.worktree[m] = IF m \in (T \cup {n}) \cap Mutable /\ WorktreeOf(p, m) = None
                                THEN OwnPath[m] ELSE p.worktree[m]
      /\ DOMAIN v.requests = DOMAIN p.requests \cup NewRequests(p, D \cup E)
      /\ \A q \in DOMAIN v.requests :
           v.requests[q] = IF q \in NewRequests(p, D \cup E) THEN "queued" ELSE p.requests[q]
  <2> HIDE DEF v
  <2>1. v = Dispatch(AllocateWorktrees(p, T \cup {n}), D \cup E)
    BY DEF v
  <2>2. D \cup E \in SUBSET Node /\ T \cup {n} \in SUBSET Node
    OBVIOUS
  <2> QED
    BY <2>1, <2>2, DispatchFields
<1> HIDE DEF u, v
<1>4. ASSUME NEW m \in Mutable
      PROVE  WorktreeOf(w, m) = IF m \in T /\ WorktreeOf(p, m) = None
                                  THEN OwnPath[m] ELSE WorktreeOf(p, m)
  <2>1. m \in Node /\ OwnPath[m] # None
    BY ValidWorkflow, PathAssumption DEF NodesAssumption
  <2>2. w.worktree[m] = IF m \in T /\ WorktreeOf(p, m) = None
                          THEN OwnPath[m] ELSE p.worktree[m]
    BY <1>1, <2>1
  <2> QED
    BY <2>1, <2>2 DEF WorktreeOf
<1>5. ASSUME NEW m \in Node PROVE u.worktree[m] = v.worktree[m]
  <2>1. u.worktree[m] = IF m = n /\ m \in Mutable /\ WorktreeOf(w, m) = None
                          THEN OwnPath[m] ELSE w.worktree[m]
    BY <1>2
  <2>2. v.worktree[m] = IF (m \in T \/ m = n) /\ m \in Mutable /\ WorktreeOf(p, m) = None
                          THEN OwnPath[m] ELSE p.worktree[m]
    BY <1>3
  <2>3. w.worktree[m] = IF m \in T /\ m \in Mutable /\ WorktreeOf(p, m) = None
                          THEN OwnPath[m] ELSE p.worktree[m]
    BY <1>1
  <2>4. m = n /\ m \in Mutable => WorktreeOf(w, m) = WorktreeOf(p, m)
    BY <1>4
  <2> QED
    BY <2>1, <2>2, <2>3, <2>4
<1>6. NewRequests(w, E) = NewRequests(p, E)
      /\ NewRequests(p, D \cup E) = NewRequests(p, D) \cup NewRequests(p, E)
  BY <1>1 DEF NewRequests, NextRequest
<1>7. u.requests = v.requests
  <2>1. DOMAIN u.requests = DOMAIN v.requests
    BY <1>1, <1>2, <1>3, <1>6
  <2>2. \A q \in DOMAIN u.requests : u.requests[q] = v.requests[q]
    BY <1>1, <1>2, <1>3, <1>6
  <2>3. u.requests \in [DOMAIN u.requests -> RequestStatus]
        /\ v.requests \in [DOMAIN v.requests -> RequestStatus]
    BY <1>2, <1>3 DEF IsDocument
  <2> QED
    BY <2>1, <2>2, <2>3
<1>8. u = v
  <2>1. \A m \in Node : u.status[m] = v.status[m] /\ u.attempt[m] = v.attempt[m]
    BY <1>1, <1>2, <1>3
  <2> QED
    BY <1>1, <1>2, <1>3, <1>5, <1>7, <2>1, SameDocument
<1>9. WorktreeConflict(AllocateWorktrees(w, {n}))
        <=> WorktreeConflict(AllocateWorktrees(p, T \cup {n}))
  <2> DEFINE a == AllocateWorktrees(w, {n})
             b == AllocateWorktrees(p, T \cup {n})
  <2>1. /\ \A m \in Node : a.worktree[m] = IF m \in {n} \cap Mutable /\ WorktreeOf(w, m) = None
                                             THEN OwnPath[m] ELSE w.worktree[m]
        /\ \A m \in Node : b.worktree[m] = IF m \in (T \cup {n}) \cap Mutable /\ WorktreeOf(p, m) = None
                                             THEN OwnPath[m] ELSE p.worktree[m]
    BY <1>1, AllocateFields
  <2> HIDE DEF a, b
  <2>2. \A m \in Node : a.worktree[m] = b.worktree[m]
    BY <1>1, <1>4, <2>1
  <2>3. WorktreeConflict(a) <=> WorktreeConflict(b)
    BY <2>2, ConflictFromWorktrees
  <2> QED
    BY <2>3 DEF a, b
<1>10. DuplicateRequest(w, n) <=> DuplicateRequest(p, n)
  <2>1. <<n, p.retry[n] + 1>> \notin NewRequests(p, D)
    BY DEF NewRequests, NextRequest
  <2> QED
    BY <1>1, <2>1 DEF DuplicateRequest, NextRequest
<1> QED
  BY <1>6, <1>8, <1>9, <1>10 DEF u, v

-----------------------------------------------------------------------------
(* The sets a scheduler run is defined by exist and are unique *)

\* A nonempty set of natural numbers has a least element.
LEMMA LeastNumber ==
  ASSUME NEW K \in SUBSET Nat, K # {}
  PROVE  \E k \in K : \A j \in K : k <= j
<1>1. \E k \in K : \A j \in K : ~ (<<j, k>> \in OpToRel(<, Nat))
  BY NatLessThanWellFounded, WFMin
<1>2. PICK k \in K : \A j \in K : ~ (<<j, k>> \in OpToRel(<, Nat))
  BY <1>1
<1>3. \A j \in K : ~ (j < k)
  BY <1>2 DEF OpToRel
<1> QED
  BY <1>3

\* Of a nonempty set of nodes, one has no other before it.
LEMMA FirstNode ==
  ASSUME NEW S \in SUBSET Node, S # {}
  PROVE  \E n \in S : \A m \in S : ~ Before(m, n)
<1> DEFINE K == {Position[n] : n \in S}
<1>1. \A n \in Node : Position[n] \in Nat
  BY ValidWorkflow DEF NodesAssumption
<1>2. K \in SUBSET Nat /\ K # {}
  BY <1>1
<1>3. \E k \in K : \A j \in K : k <= j
  <2> HIDE DEF K
  <2> QED
    BY <1>2, LeastNumber
<1>4. PICK n \in S : \A m \in S : Position[n] <= Position[m]
  BY <1>3
<1> QED
  BY <1>1, <1>4 DEF Before

\* propagateDependencyBlocks: there is exactly one block set, because the workflow
\* has no cycle.
THEOREM OneBlockSet ==
  ASSUME NEW status
  PROVE  /\ \E B : IsBlockSet(B, status)
         /\ \A B, C : IsBlockSet(B, status) /\ IsBlockSet(C, status) => B = C
<1> DEFINE P == PendingNodes(status)
           F == FailedNodes(status)
           Step(B) == {n \in P : DependsOn[n] \cap (F \cup B) # {}}
           Least == {n \in P : \A C \in SUBSET P : Step(C) \subseteq C => n \in C}
<1>0. P \subseteq Node
  BY DEF PendingNodes
<1> HIDE DEF P, F
<1>1. \A B, C : B \subseteq C => Step(B) \subseteq Step(C)
  OBVIOUS
<1>2. Step(Least) \subseteq Least
  <2>1. ASSUME NEW n \in Step(Least), NEW C \in SUBSET P, Step(C) \subseteq C
        PROVE  n \in C
    <3>1. Least \subseteq C
      BY <2>1
    <3>2. n \in Step(C)
      BY <1>1, <3>1
    <3> QED
      BY <2>1, <3>2
  <2>2. Step(Least) \subseteq P
    OBVIOUS
  <2> HIDE DEF Step
  <2> QED
    BY <2>1, <2>2
<1>3. Least \subseteq Step(Least)
  <2> DEFINE T == Step(Least)
  <2>1. T \in SUBSET P /\ Step(T) \subseteq T
    BY <1>1, <1>2
  <2> HIDE DEF T
  <2>2. Least \subseteq T
    BY <2>1
  <2> QED
    BY <2>2 DEF T
<1>4. \E B : B = Step(B)
  <2> HIDE DEF Step, Least
  <2> QED
    BY <1>2, <1>3
<1>5. ASSUME NEW B, NEW C, B = Step(B), C = Step(C)
      PROVE  B = C
  <2> DEFINE X == (B \ C) \cup (C \ B)
  <2>1. B \subseteq P /\ C \subseteq P
    BY <1>5
  <2>2. ASSUME X # {} PROVE FALSE
    <3>1. PICK n \in X : DependsOn[n] \cap X = {}
      <4>1. X \in SUBSET Node
        BY <1>0, <2>1
      <4> HIDE DEF X
      <4> QED
        BY <2>2, <4>1, ValidWorkflow DEF IsAcyclic
    <3>2. DependsOn[n] \cap (F \cup B) = DependsOn[n] \cap (F \cup C)
      BY <3>1
    <3>3. n \in P /\ (n \in Step(B) <=> n \in Step(C))
      BY <2>1, <3>2
    <3> HIDE DEF Step
    <3> QED
      BY <1>5, <3>3
  <2> QED
    BY <2>2
<1>6. ASSUME NEW B PROVE IsBlockSet(B, status) <=> B = Step(B)
  BY DEF IsBlockSet, P, F
<1> HIDE DEF Step
<1> QED
  BY <1>4, <1>5, <1>6

\* getRunnableNodes: there is exactly one set of runnable nodes, because a node is
\* only compared with the nodes before it.
THEOREM OneRunnableSet ==
  ASSUME NEW status, NEW attempt
  PROVE  /\ \E S : IsRunnableSet(S, status, attempt)
         /\ \A S, T : IsRunnableSet(S, status, attempt) /\ IsRunnableSet(T, status, attempt)
                        => S = T
<1> DEFINE Ready == ReadyNodes(status, attempt)
           R == RunningNodes(status)
           Fits(n, S) == PoolHasRoom(n, R \cup {m \in S : Before(m, n)})
<1>1. Ready \subseteq Node /\ \A n \in Node : Position[n] \in Nat /\ Position[n] # 0
  BY ValidWorkflow DEF ReadyNodes, NodesAssumption
<1>2. Cardinality(Node) \in Nat /\ \A n \in Node : Position[n] <= Cardinality(Node)
  BY ValidWorkflow, FS_CardinalityType DEF NodesAssumption
<1>3. ASSUME NEW n, NEW S, NEW T, {m \in S : Before(m, n)} = {m \in T : Before(m, n)}
      PROVE  Fits(n, S) <=> Fits(n, T)
  BY <1>3
<1> HIDE DEF Ready, R, Fits
<1>4. ASSUME NEW S, NEW T,
             S = {n \in Ready : Fits(n, S)}, T = {n \in Ready : Fits(n, T)}
      PROVE  S = T
  <2> DEFINE X == (S \ T) \cup (T \ S)
  <2>1. S \subseteq Ready /\ T \subseteq Ready
    BY <1>4
  <2>2. ASSUME X # {} PROVE FALSE
    <3>1. PICK n \in X : \A m \in X : ~ Before(m, n)
      <4>1. X \in SUBSET Node
        BY <1>1, <2>1
      <4> HIDE DEF X
      <4> QED
        BY <2>2, <4>1, FirstNode
    <3>2. {m \in S : Before(m, n)} = {m \in T : Before(m, n)}
      BY <3>1
    <3>3. Fits(n, S) <=> Fits(n, T)
      BY <1>3, <3>2
    <3> QED
      BY <1>4, <2>1, <3>3
  <2> QED
    BY <2>2
\* Existence: node by node, in workflow order.
<1> DEFINE UpToPlace(k, S) == S = {n \in Ready : Position[n] <= k /\ Fits(n, S)}
<1>5. \A k \in Nat : \E S : UpToPlace(k, S)
  <2> DEFINE K == {k \in Nat : ~ \E S : UpToPlace(k, S)}
  <2>1. ASSUME K # {} PROVE FALSE
    <3>1. PICK k \in K : \A j \in K : k <= j
      <4>1. K \in SUBSET Nat
        OBVIOUS
      <4> HIDE DEF K
      <4> QED
        BY <2>1, <4>1, LeastNumber
    <3>2. k # 0
      <4>1. {n \in Ready : Position[n] <= 0 /\ Fits(n, {})} = {}
        BY <1>1
      <4> QED
        BY <3>1, <4>1
    <3>3. k \in Nat /\ k - 1 \in Nat /\ k - 1 \notin K
      BY <3>1, <3>2
    <3>4. PICK S : UpToPlace(k - 1, S)
      BY <3>3
    <3> DEFINE T == S \cup {n \in Ready : Position[n] = k /\ Fits(n, S)}
    <3>5. S \subseteq Ready /\ \A n \in S : Position[n] <= k - 1
      BY <3>4
    <3>6. ASSUME NEW n \in Ready, Position[n] <= k
          PROVE  Fits(n, T) <=> Fits(n, S)
      <4>1. {m \in T : Before(m, n)} = {m \in S : Before(m, n)}
        BY <1>1, <3>3, <3>6 DEF Before
      <4> QED
        BY <1>3, <4>1
    <3>7. \A n \in Ready : n \in T <=> Position[n] <= k /\ Fits(n, T)
      <4> TAKE n \in Ready
      <4>1. Position[n] \in Nat
        BY <1>1
      <4>2. n \in S <=> Position[n] <= k - 1 /\ Fits(n, S)
        BY <3>4
      <4>3. n \in T <=> n \in S \/ (Position[n] = k /\ Fits(n, S))
        OBVIOUS
      <4> HIDE DEF T
      <4> QED
        BY <3>3, <3>6, <4>1, <4>2, <4>3
    <3>8. T \subseteq Ready
      BY <3>5
    <3> HIDE DEF T
    <3>9. UpToPlace(k, T)
      BY <3>7, <3>8
    <3> QED
      BY <3>1, <3>9
  <2> QED
    BY <2>1
<1>6. \E S : S = {n \in Ready : Fits(n, S)}
  <2>1. PICK S : UpToPlace(Cardinality(Node), S)
    BY <1>2, <1>5
  <2>2. S = {n \in Ready : Fits(n, S)}
    BY <1>1, <1>2, <2>1
  <2> QED
    BY <2>2
<1> QED
  BY <1>4, <1>6 DEF IsRunnableSet, Ready, R, Fits

\* scheduleRunnableNodes: the workflow, the pool, the document, the owner and
\* impact.json determine what a run writes.
THEOREM SchedulerIsDeterministic ==
  ASSUME NEW s, NEW owner, NEW change,
         NEW a \in ScheduleRunnableNodes(s, owner, change),
         NEW b \in ScheduleRunnableNodes(s, owner, change)
  PROVE  a = b
<1> DEFINE marked == MarkConditionalNodes(s, change).status
           P(B) == Prepared(s, owner, change, B)
<1>1. ASSUME NEW o \in ScheduleRunnableNodes(s, owner, change)
      PROVE  \E B, S : /\ IsBlockSet(B, marked)
                       /\ IsRunnableSet(S, P(B).status, P(B).attempt)
                       /\ o = Outcome(P(B), S)
  BY DEF ScheduleRunnableNodes, BlockSets, RunnableSets
<1> HIDE DEF marked, P
<1>2. PICK B, S : /\ IsBlockSet(B, marked)
                  /\ IsRunnableSet(S, P(B).status, P(B).attempt)
                  /\ a = Outcome(P(B), S)
  BY <1>1
<1>3. PICK C, T : /\ IsBlockSet(C, marked)
                  /\ IsRunnableSet(T, P(C).status, P(C).attempt)
                  /\ b = Outcome(P(C), T)
  BY <1>1
<1>4. B = C
  BY <1>2, <1>3, OneBlockSet
<1>5. S = T
  BY <1>2, <1>3, <1>4, OneRunnableSet
<1> QED
  BY <1>2, <1>3, <1>4, <1>5

\* A run that gets the lock always has an outcome: it writes nothing only when a
\* worktree conflict stopped it before the first request.
THEOREM SchedulerHasOutcome ==
  ASSUME NEW s, NEW owner, NEW change, LockAvailable(s, owner)
  PROVE  \E B, S :
           LET p == Prepared(s, owner, change, B)
               o == Outcome(p, S)
           IN  /\ IsBlockSet(B, MarkConditionalNodes(s, change).status)
               /\ IsRunnableSet(S, p.status, p.attempt)
               /\ ~ (o.stopped /\ o.requests = {}) =>
                    o \in ScheduleRunnableNodes(s, owner, change)
<1> DEFINE marked == MarkConditionalNodes(s, change).status
<1>1. PICK B : IsBlockSet(B, marked)
  BY OneBlockSet
<1> DEFINE p == Prepared(s, owner, change, B)
<1>2. PICK S : IsRunnableSet(S, p.status, p.attempt)
  BY OneRunnableSet
<1> DEFINE o == Outcome(p, S)
<1>3. B \in BlockSets(marked) /\ S \in RunnableSets(p.status, p.attempt)
  BY <1>1, <1>2 DEF BlockSets, RunnableSets, IsBlockSet, IsRunnableSet
<1>4. ASSUME ~ (o.stopped /\ o.requests = {})
      PROVE  o \in ScheduleRunnableNodes(s, owner, change)
  BY <1>3, <1>4 DEF ScheduleRunnableNodes
<1> HIDE DEF marked, p, o
<1> QED
  BY <1>1, <1>2, <1>4 DEF marked, p, o
=============================================================================
