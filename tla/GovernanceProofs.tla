-------------------------- MODULE GovernanceProofs --------------------------
(***************************************************************************)
(* Proofs about Governance, for any number of processes, any policy.json   *)
(* and any impacts the agents may write, and about the compiler of         *)
(* DynamicDag, for any catalog and any dag-policy.json; what a theorem     *)
(* needs of the policy is a hypothesis of it.                              *)
(***************************************************************************)
EXTENDS Governance, DynamicDag, FiniteSetTheorems, WellFoundedInduction, TLAPS

-----------------------------------------------------------------------------
(* What the files and the processes hold.  As long as impact.json has not  *)
(* been rewritten everything derived from it has its scope.                *)

IsDecision(d) == d = PolicyDecision(d.basis)

IsRequest(a) == a.decision = "approved" => Decided(a, "pending") \in granted

Fresh(scope) == writes = 0 => scope = impact.signals \cap approvalRequiredFor
FreshSignals(r) == writes = 0 => r.signals = impact.signals

FilesInv ==
  /\ writes \in Nat
  /\ risk # None => FreshSignals(risk)
  /\ policy # None => IsDecision(policy) /\ Fresh(policy.scope)
  /\ approval # None => IsRequest(approval) /\ Fresh(approval.scope)

ProcInv ==
  /\ proc = [p \in Proc |-> proc[p]]
  /\ \A p \in Proc :
       /\ proc[p].pc \in {"risk", "policy"} => FreshSignals(Input(p))
       /\ proc[p].pc \in {"request", "gate"} => IsDecision(Input(p)) /\ Fresh(Input(p).scope)
       /\ proc[p].pc = "decide" => IsRequest(Input(p)) /\ Fresh(Input(p).scope)

PassInv ==
  \A q \in passes :
    /\ IsDecision(q.policy)
    /\ q.policy.decision \notin Automatic =>
         /\ IsRequest(q.approval) /\ q.approval.decision = "approved"
         /\ writes = 0 => q.approval.scope = q.policy.scope

IInv == FilesInv /\ ProcInv /\ PassInv

\* A decision is made of a decision's parts.
LEMMA DecisionParts ==
  ASSUME NEW r
  PROVE  /\ IsDecision(PolicyDecision(r))
         /\ PolicyDecision(r).scope = r.signals \cap approvalRequiredFor
         /\ PolicyDecision(r).decision = Decision(r)
  BY DEF IsDecision, PolicyDecision, ApprovalReasons

\* A request just made has not been decided.
LEMMA NewRequest ==
  ASSUME NEW d, NEW now
  PROVE  IsRequest(ApprovalRequest(d, now)) /\ ApprovalRequest(d, now).scope = d.scope
  BY DEF IsRequest, ApprovalRequest

\* A process that reads its input and changes nothing else.
LEMMA ReadKeeps ==
  ASSUME IInv, NEW p \in Proc, NEW pc, NEW input, Read(p, pc, input), granted \subseteq granted',
         pc \in {"risk", "policy"} => FreshSignals(input),
         pc \in {"request", "gate"} => IsDecision(input) /\ Fresh(input.scope),
         pc = "decide" => /\ Fresh(input.scope)
                          /\ input.decision = "approved" => Decided(input, "pending") \in granted'
  PROVE  IInv'
<1>1. /\ UNCHANGED <<impact, writes, risk, policy, approval, passes>>
      /\ proc' = [proc EXCEPT ![p] = [pc |-> pc, input |-> input, now |-> commands']]
  BY DEF Read, Inputs
<1>2. \A a : IsRequest(a) => IsRequest(a)'
  BY DEF IsRequest
<1>3. FilesInv' /\ PassInv'
  BY <1>1, <1>2 DEF IInv, FilesInv, PassInv, IsDecision, Fresh, FreshSignals
<1>4. /\ \A q \in Proc \ {p} : proc'[q] = proc[q]
      /\ proc'[p].pc = pc /\ proc'[p].input = input
      /\ proc' = [q \in Proc |-> proc'[q]]
  BY <1>1 DEF IInv, ProcInv
<1>5. ProcInv'
  BY <1>1, <1>2, <1>4 DEF IInv, ProcInv, IsDecision, IsRequest, Fresh, FreshSignals, Input
<1>6. QED
  BY <1>3, <1>5 DEF IInv

\* A process that ends, whatever it has written.
LEMMA EndKeeps ==
  ASSUME IInv, NEW p \in Proc, proc' = [proc EXCEPT ![p] = Idle],
         UNCHANGED <<impact, writes, granted>>, FilesInv', PassInv'
  PROVE  IInv'
<1>1. /\ \A q \in Proc \ {p} : proc'[q] = proc[q]
      /\ proc'[p].pc = "idle"
      /\ proc' = [q \in Proc |-> proc'[q]]
  BY DEF IInv, ProcInv, Idle
<1>2. ProcInv'
  BY <1>1 DEF IInv, ProcInv, IsRequest, IsDecision, Fresh, FreshSignals, Input
<1>3. QED
  BY <1>2 DEF IInv

LEMMA InvInit == Init => IInv
<1>1. ASSUME Init
      PROVE  IInv
  BY <1>1 DEF Init, IInv, FilesInv, ProcInv, PassInv, Idle
<1>2. QED
  BY <1>1

LEMMA InvNext == IInv /\ [Next]_vars => IInv'
<1> SUFFICES ASSUME IInv, [Next]_vars
             PROVE  IInv'
  OBVIOUS
<1>1. CASE WriteImpact
  <2>1. writes' # 0 /\ writes' \in Nat
    BY <1>1 DEF WriteImpact, IInv, FilesInv
  <2>2. QED
    BY <1>1, <2>1 DEF WriteImpact, IInv, FilesInv, ProcInv, PassInv, IsRequest, IsDecision,
       Fresh, FreshSignals, Input
<1>2. CASE PathCheck \/ UNCHANGED vars
  BY <1>2 DEF PathCheck, vars, IInv, FilesInv, ProcInv, PassInv, IsRequest, IsDecision,
     Fresh, FreshSignals, Input
<1>3. ASSUME NEW p \in Proc, StartDagInput(p)
      PROVE  IInv'
  BY <1>3, ReadKeeps DEF StartDagInput
<1>4. ASSUME NEW p \in Proc, StartRisk(p)
      PROVE  IInv'
  <2>1. FreshSignals(RiskEvaluation(impact, dagRisk))
    BY DEF FreshSignals, RiskEvaluation
  <2>2. QED
    BY <1>4, <2>1, ReadKeeps DEF StartRisk
<1>5. ASSUME NEW p \in Proc, StartPolicy(p)
      PROVE  IInv'
  <2>1. FreshSignals(risk)
    BY <1>5 DEF StartPolicy, Read, IInv, FilesInv
  <2>2. QED
    BY <1>5, <2>1, ReadKeeps DEF StartPolicy
<1>6. ASSUME NEW p \in Proc, StartRequest(p)
      PROVE  IInv'
  <2>1. IsDecision(policy) /\ Fresh(policy.scope)
    BY <1>6 DEF StartRequest, Read, IInv, FilesInv
  <2>2. QED
    BY <1>6, <2>1, ReadKeeps DEF StartRequest
<1>7. ASSUME NEW p \in Proc, StartDecide(p)
      PROVE  IInv'
  <2>1. PICK decision \in {"approved", "rejected"} :
          /\ approval # None
          /\ Read(p, "decide", Decided(approval, decision))
          /\ granted' = IF decision = "approved"
                          THEN granted \cup {Decided(approval, "pending")}
                          ELSE granted
    BY <1>7 DEF StartDecide
  <2> DEFINE a == Decided(approval, decision)
  <2>2. /\ Decided(a, "pending") = Decided(approval, "pending")
        /\ a.decision = decision /\ a.scope = approval.scope
    BY DEF Decided
  <2>3. Fresh(a.scope)
    BY <2>1, <2>2 DEF IInv, FilesInv
  <2>4. decision = "approved" => Decided(a, "pending") \in granted'
    BY <2>1, <2>2
  <2>5. granted \subseteq granted'
    BY <2>1
  <2> HIDE DEF a
  <2>6. Read(p, "decide", a)
    BY <2>1 DEF a
  <2>7. QED
    BY <2>2, <2>3, <2>4, <2>5, <2>6, ReadKeeps
<1>8. ASSUME NEW p \in Proc, StartGate(p)
      PROVE  IInv'
  <2>1. IsDecision(policy) /\ Fresh(policy.scope)
    BY <1>8 DEF StartGate, Read, IInv, FilesInv
  <2>2. QED
    BY <1>8, <2>1, ReadKeeps DEF StartGate
<1>9. ASSUME NEW p \in Proc, WriteDagInput(p)
      PROVE  IInv'
  <2>1. FilesInv' /\ PassInv'
    BY <1>9 DEF WriteDagInput, Inputs, IInv, FilesInv, PassInv, IsRequest, IsDecision,
       Fresh, FreshSignals
  <2>2. QED
    BY <1>9, <2>1, EndKeeps DEF WriteDagInput, At, Inputs
<1>10. ASSUME NEW p \in Proc, WriteRisk(p)
      PROVE  IInv'
  <2>1. FreshSignals(Input(p))
    BY <1>10 DEF WriteRisk, At, IInv, ProcInv
  <2>2. FilesInv' /\ PassInv'
    BY <1>10, <2>1 DEF WriteRisk, Inputs, IInv, FilesInv, PassInv, IsRequest, IsDecision,
       Fresh, FreshSignals
  <2>3. QED
    BY <1>10, <2>2, EndKeeps DEF WriteRisk, At, Inputs
<1>11. ASSUME NEW p \in Proc, WritePolicy(p)
      PROVE  IInv'
  <2>1. FreshSignals(Input(p))
    BY <1>11 DEF WritePolicy, At, IInv, ProcInv
  <2>2. IsDecision(PolicyDecision(Input(p))) /\ Fresh(PolicyDecision(Input(p)).scope)
    BY <2>1, DecisionParts DEF Fresh, FreshSignals
  <2>3. FilesInv' /\ PassInv'
    BY <1>11, <2>2 DEF WritePolicy, Inputs, IInv, FilesInv, PassInv, IsRequest, IsDecision,
       Fresh, FreshSignals
  <2>4. QED
    BY <1>11, <2>3, EndKeeps DEF WritePolicy, At, Inputs
<1>12. ASSUME NEW p \in Proc, WriteRequest(p)
      PROVE  IInv'
  <2> DEFINE a == ApprovalRequest(Input(p), proc[p].now)
  <2>1. Fresh(Input(p).scope)
    BY <1>12 DEF WriteRequest, At, IInv, ProcInv
  <2>2. IsRequest(a) /\ Fresh(a.scope)
    BY <2>1, NewRequest DEF Fresh
  <2>3. approval' = a
    BY <1>12 DEF WriteRequest
  <2> HIDE DEF a
  <2>4. FilesInv' /\ PassInv'
    BY <1>12, <2>2, <2>3 DEF WriteRequest, Inputs, IInv, FilesInv, PassInv, IsRequest,
       IsDecision, Fresh, FreshSignals
  <2>5. QED
    BY <1>12, <2>4, EndKeeps DEF WriteRequest, At, Inputs
<1>13. ASSUME NEW p \in Proc, WriteDecision(p)
      PROVE  IInv'
  <2>1. IsRequest(Input(p)) /\ Fresh(Input(p).scope)
    BY <1>13 DEF WriteDecision, At, IInv, ProcInv
  <2>2. FilesInv' /\ PassInv'
    BY <1>13, <2>1 DEF WriteDecision, Inputs, IInv, FilesInv, PassInv, IsRequest, IsDecision,
       Fresh, FreshSignals
  <2>3. QED
    BY <1>13, <2>2, EndKeeps DEF WriteDecision, At, Inputs
<1>14. ASSUME NEW p \in Proc, Gate(p)
      PROVE  IInv'
  <2>1. IsDecision(Input(p)) /\ Fresh(Input(p).scope)
    BY <1>14 DEF Gate, At, IInv, ProcInv
  <2>2. approval # None => IsRequest(approval) /\ Fresh(approval.scope)
    BY DEF IInv, FilesInv
  <2>3. UNCHANGED <<impact, writes, risk, policy, approval, granted>>
    BY <1>14 DEF Gate, Inputs
  <2>4. ASSUME NEW q \in passes', q \notin passes
        PROVE  /\ IsDecision(q.policy)
               /\ q.policy.decision \notin Automatic =>
                    /\ IsRequest(q.approval) /\ q.approval.decision = "approved"
                    /\ writes = 0 => q.approval.scope = q.policy.scope
    <3>1. /\ q.policy = Input(p)
          /\ q.policy.decision \notin Automatic =>
               approval # None /\ approval.decision = "approved" /\ q.approval = approval
      <4>1. CASE Input(p).decision \in Automatic
        <5>1. passes' = passes \cup {[policy |-> Input(p), approval |-> None]}
          BY <1>14, <4>1 DEF Gate
        <5>2. QED
          BY <2>4, <4>1, <5>1
      <4>2. CASE Input(p).decision \notin Automatic
        <5>1. /\ approval # None /\ approval.decision = "approved"
              /\ passes' = passes \cup {[policy |-> Input(p), approval |-> approval]}
          BY <1>14, <2>4, <4>2 DEF Gate
        <5>2. QED
          BY <2>4, <5>1
      <4>3. QED
        BY <4>1, <4>2
    <3>2. QED
      BY <2>1, <2>2, <3>1 DEF Fresh
  <2>5. PassInv'
    BY <2>3, <2>4 DEF IInv, PassInv, IsRequest, IsDecision
  <2>6. FilesInv'
    BY <2>3 DEF IInv, FilesInv, IsRequest, IsDecision, Fresh, FreshSignals
  <2>7. QED
    BY <1>14, <2>3, <2>5, <2>6, EndKeeps DEF Gate, At
<1>15. ASSUME NEW p \in Proc, Kill(p)
      PROVE  IInv'
  <2>1. FilesInv' /\ PassInv'
    BY <1>15 DEF Kill, Inputs, IInv, FilesInv, PassInv, IsRequest, IsDecision,
       Fresh, FreshSignals
  <2>2. QED
    BY <1>15, <2>1, EndKeeps DEF Kill, Inputs
<1>16. QED
  BY <1>1, <1>2, <1>3, <1>4, <1>5, <1>6, <1>7, <1>8, <1>9,
     <1>10, <1>11, <1>12, <1>13, <1>14, <1>15 DEF Next

LEMMA InvAlways == Spec => []IInv
  BY InvInit, InvNext, PTL DEF Spec

-----------------------------------------------------------------------------
\* What passes the gate without a person is automated by policy.json, by its
\* signals and by its level (risk-evaluate, policy-evaluate, approval-gate).
THEOREM AutoIsHarmless == Spec => []AutoMeansHarmless
<1>1. ASSUME IInv, NEW q \in passes, q.policy.decision \in Automatic
      PROVE  /\ q.policy.basis.signals \cap approvalRequiredFor = {}
             /\ Mode(q.policy.basis.level) \in Automatic
  <2> DEFINE r == q.policy.basis
  <2>1. q.policy = PolicyDecision(r)
    BY <1>1 DEF IInv, PassInv, IsDecision
  <2>2. Decision(r) \in Automatic
    BY <1>1, <2>1, DecisionParts
  <2>3. ApprovalReasons(r) = {}
    <3>1. ASSUME ApprovalReasons(r) # {}
          PROVE  Decision(r) \in {"manual-only", "approval-required"}
      BY <3>1 DEF Decision
    <3>2. QED
      BY <2>2, <3>1 DEF Automatic
  <2>4. QED
    BY <2>2, <2>3 DEF Decision, ApprovalReasons
<1>2. IInv => AutoMeansHarmless
  BY <1>1 DEF AutoMeansHarmless
<1>3. QED
  BY <1>2, InvAlways, PTL

\* Everything else passes on a request a person has approved, with the scope
\* of the decision unless the inputs were rewritten (approval-gate.mjs).
THEOREM PassWasApproved == Spec => []PassIsApproved
<1>1. IInv => PassIsApproved
  BY DEF IInv, PassInv, PassIsApproved, IsRequest
<1>2. QED
  BY <1>1, InvAlways, PTL

-----------------------------------------------------------------------------
(* compileDag and validateWorkflow                                         *)

\* What is chosen of the candidates was selected, and was a candidate.
LEMMA FirstSelectedBounds ==
  ASSUME NEW candidates, NEW selected
  PROVE  /\ FirstSelected(candidates, selected) \subseteq selected
         /\ FirstSelected(candidates, selected)
              \subseteq UNION {candidates[i] : i \in DOMAIN candidates}
  BY DEF FirstSelected

\* The edges the compiler draws: each group of nodes waits for earlier groups only.
LEMMA SelectedDependenciesBounds ==
  ASSUME NEW id, NEW selected
  PROVE  LET D == SelectedDependencies(id, selected)
         IN  /\ D \subseteq selected \cup {"planner"}
             /\ id = "impact" => D \subseteq {"planner"}
             /\ id \in CodeBranches \cup {"docs"} => D \subseteq {"impact", "planner"}
             /\ id = "integration" => D \subseteq CodeBranches
             /\ id \in Verification => D \subseteq CodeBranches \cup {"integration"}
             /\ id = "review" => D \subseteq Verification \cup CodeBranches
                                           \cup {"integration", "docs", "impact", "planner"}
             /\ id = "pr" => D \subseteq {"review"}
             /\ id \notin {"impact", "docs", "integration", "review", "pr"}
                          \cup CodeBranches \cup Verification => D = {}
<1> DEFINE D == SelectedDependencies(id, selected)
<1>1. CASE id = "impact"
  BY <1>1 DEF SelectedDependencies, CodeBranches, Branches, Verification
<1>2. CASE id \in CodeBranches \cup {"docs"}
  <2>1. D = FirstSelected(<<{"impact"}, {"planner"}>>, selected \cup {"planner"})
    BY <1>2 DEF SelectedDependencies, CodeBranches, Branches
  <2>2. D \subseteq selected \cup {"planner"} /\ D \subseteq {"impact", "planner"}
    BY <2>1, FirstSelectedBounds
  <2> QED
    BY <1>2, <2>2 DEF CodeBranches, Branches, Verification
<1>3. CASE id = "integration"
  BY <1>3 DEF SelectedDependencies, CodeBranches, Branches, Verification
<1>4. CASE id \in {"test", "security-review"}
  <2>1. D = FirstSelected(<<{"integration"}, CodeBranches>>, selected)
    BY <1>4 DEF SelectedDependencies, CodeBranches, Branches
  <2>2. D \subseteq selected /\ D \subseteq CodeBranches \cup {"integration"}
    BY <2>1, FirstSelectedBounds
  <2> QED
    BY <1>4, <2>2 DEF CodeBranches, Branches, Verification
<1>5. CASE id = "playwright"
  <2>1. D = FirstSelected(<<{"integration"}, {"frontend"}>>, selected)
    BY <1>5 DEF SelectedDependencies, CodeBranches, Branches
  <2>2. D \subseteq selected /\ D \subseteq {"frontend", "integration"}
    BY <2>1, FirstSelectedBounds
  <2> QED
    BY <1>5, <2>2 DEF CodeBranches, Branches, Verification
<1>6. CASE id = "review"
  <2>1. D = FirstSelected(<<Verification, {"integration"}, CodeBranches \cup {"docs"},
                            {"impact"}, {"planner"}>>, selected \cup {"planner"})
    BY <1>6 DEF SelectedDependencies, CodeBranches, Branches
  <2>2. /\ D \subseteq selected \cup {"planner"}
        /\ D \subseteq Verification \cup CodeBranches
                        \cup {"integration", "docs", "impact", "planner"}
    BY <2>1, FirstSelectedBounds
  <2> QED
    BY <1>6, <2>2 DEF CodeBranches, Branches, Verification
<1>7. CASE id = "pr"
  BY <1>7 DEF SelectedDependencies, CodeBranches, Branches, Verification
<1>8. CASE id \notin {"impact", "docs", "integration", "review", "pr"}
                     \cup CodeBranches \cup Verification
  BY <1>8 DEF SelectedDependencies, CodeBranches, Branches, Verification
<1> QED
  BY <1>1, <1>2, <1>3, <1>4, <1>5, <1>6, <1>7, <1>8 DEF Verification

\* No set of nodes can be closed under "waits for a member of the set": group
\* by group, none of its members can be in it.
LEMMA CompileDagHasNoCycle ==
  ASSUME NEW sig
  PROVE  HasNoCycle(CompileDag(sig))
<1> DEFINE wf == CompileDag(sig)
<1>1. SUFFICES ASSUME NEW S \in SUBSET DOMAIN wf, \A n \in S : wf[n] \cap S # {}
               PROVE  S = {}
  BY DEF HasNoCycle
<1>2. \A n \in S : wf[n] = SelectedDependencies(n, Selected(sig))
  BY DEF CompileDag
<1>3. \A n \in S : n \in {"impact", "docs", "integration", "review", "pr"}
                        \cup CodeBranches \cup Verification
  BY <1>1, <1>2, SelectedDependenciesBounds
<1>4. "planner" \notin S
  BY <1>3 DEF CodeBranches, Branches, Verification
<1>5. "impact" \notin S
  BY <1>1, <1>2, <1>4, SelectedDependenciesBounds
<1>6. S \cap (CodeBranches \cup {"docs"}) = {}
  BY <1>1, <1>2, <1>4, <1>5, SelectedDependenciesBounds
<1>7. "integration" \notin S
  BY <1>1, <1>2, <1>6, SelectedDependenciesBounds
<1>8. S \cap Verification = {}
  BY <1>1, <1>2, <1>6, <1>7, SelectedDependenciesBounds
<1>9. "review" \notin S
  BY <1>1, <1>2, <1>4, <1>5, <1>6, <1>7, <1>8, SelectedDependenciesBounds
<1>10. "pr" \notin S
  BY <1>1, <1>2, <1>9, SelectedDependenciesBounds
<1> QED
  BY <1>3, <1>5, <1>6, <1>7, <1>8, <1>9, <1>10

\* The ids a compilation has at the least, and those it has at the most.
LEMMA SelectedBounds ==
  ASSUME NEW sig \in Signals
  PROVE  LET given == Always \cup RiskNodes[sig.risk]
         IN  /\ ~ sig.docsOnly => given \subseteq Selected(sig)
             /\ Selected(sig) \subseteq given \cup CompilerNodes
             /\ ~ sig.docsOnly /\ sig.adds = {} =>
                  Selected(sig) \subseteq given \cup {"test", "integration"}
             /\ sig.docsOnly => {"planner", "review", "pr"} \subseteq Selected(sig)
  BY DEF Signals, Selected, CompilerNodes, Changes

LEMMA CompilationIsAccepted ==
  ASSUME PolicyIsComplete, NEW wf \in Compilations
  PROVE  wf \in Accepted
<1>1. PICK sig \in Signals : wf = CompileDag(sig)
  BY DEF Compilations
<1>2. DOMAIN wf = Selected(sig)
  BY <1>1 DEF CompileDag
<1>3. sig.risk \in Risk
  BY DEF Signals
<1>4. DOMAIN wf \subseteq Catalog
  BY <1>2, <1>3, SelectedBounds, CatalogAssumption DEF PolicyIsComplete
<1>5. {"planner", "review", "pr"} \subseteq DOMAIN wf
  BY <1>2, <1>3, SelectedBounds DEF PolicyIsComplete
<1>6. \A n \in DOMAIN wf : wf[n] \subseteq DOMAIN wf
  BY <1>1, <1>2, <1>5, SelectedDependenciesBounds DEF CompileDag
<1>7. HasNoCycle(wf)
  BY <1>1, CompileDagHasNoCycle
<1> QED
  BY <1>4, <1>5, <1>6, <1>7 DEF Accepted, ValidateWorkflow

(* What a dag-policy.json must have for dag:compile to accept whatever the  *)
(* evidence says, and that nothing less will do: the lifecycle nodes in     *)
(* `always` or in the rule of each risk level, and all it names in the      *)
(* catalog (workflow.mjs 64-110, 155-166; dag-compile.mjs).                 *)
THEOREM PolicyDecidesAcceptance == Compilations \subseteq Accepted <=> PolicyIsComplete
<1>1. ASSUME Compilations \subseteq Accepted, NEW r \in Risk
      PROVE  /\ Always \cup RiskNodes[r] \subseteq Catalog
             /\ {"planner", "review", "pr"} \subseteq Always \cup RiskNodes[r]
  <2> DEFINE sig == [docsOnly |-> FALSE, adds |-> {}, risk |-> r]
  <2>1. sig \in Signals /\ ~ sig.docsOnly /\ sig.adds = {} /\ sig.risk = r
    BY DEF Signals
  <2> HIDE DEF sig
  <2>2. CompileDag(sig) \in Accepted
    BY <1>1, <2>1 DEF Compilations
  <2>3. /\ Selected(sig) \subseteq Catalog
        /\ {"planner", "review", "pr"} \subseteq Selected(sig)
    BY <2>2 DEF Accepted, ValidateWorkflow, CompileDag
  <2>4. /\ Always \cup RiskNodes[r] \subseteq Selected(sig)
        /\ Selected(sig) \subseteq Always \cup RiskNodes[r] \cup {"test", "integration"}
    BY <2>1, SelectedBounds
  <2> QED
    BY <2>3, <2>4
<1> QED
  BY <1>1, CompilationIsAccepted DEF PolicyIsComplete

(* Whatever the evidence says, dag:compile finds a workflow validateWorkflow *)
(* accepts, under any complete policy: for every combination of signals an  *)
(* edge leads to a selected node and no edges close a cycle.                *)
THEOREM CompilerAccepts == ASSUME PolicyIsComplete PROVE DagSpec => []CompileIsAccepted
<1>1. DagInit => CompileIsAccepted
  BY DEF DagInit, CompileIsAccepted
<1>2. CompileIsAccepted /\ [DagNext]_dagVars => CompileIsAccepted'
  BY CompilationIsAccepted
     DEF CompileIsAccepted, DagNext, dagVars, Compile, Record, ClassifyEvents, ApplyFeedback
<1> QED
  BY <1>1, <1>2, PTL DEF DagSpec

-----------------------------------------------------------------------------
(* dag:feedback.  What the rules add does not depend on their order: the   *)
(* nodes of the feedback catalog they name, each with the dependencies it  *)
(* has in the workflow as it was.                                          *)

WithNodes(wf, added) ==
  [n \in DOMAIN wf \cup added |-> IF n \in DOMAIN wf THEN wf[n] ELSE NewDependencies(n, wf)]

\* What the first k ids of a rule add, and what the first k rules add.
RuleNodes(ids, k) == {id \in FixCatalog : \E i \in 1..k : ids[i] = id}

RulesNodes(classes, k) ==
  {id \in FixCatalog : \E i \in 1..k : id \in RuleNodes(AddNodes[classes[i]], Len(AddNodes[classes[i]]))}

LEMMA LeastNumber ==
  ASSUME NEW K \in SUBSET Nat, K # {}
  PROVE  \E k \in K : \A j \in K : k <= j
<1>1. PICK k \in K : \A j \in K : ~ (<<j, k>> \in OpToRel(<, Nat))
  BY NatLessThanWellFounded, WFMin
<1>2. \A j \in K : ~ (j < k)
  BY <1>1 DEF OpToRel
<1> QED
  BY <1>2

\* Counting up to n: a set with 0, and with k + 1 when k is in it, has them all.
LEMMA CountingUp ==
  ASSUME NEW n \in Nat, NEW K \in SUBSET Nat, 0 \in K,
         \A k \in K : k + 1 <= n => k + 1 \in K
  PROVE  0..n \subseteq K
<1> DEFINE M == {k \in 0..n : k \notin K}
<1>1. SUFFICES ASSUME M # {} PROVE FALSE
  OBVIOUS
<1>2. M \subseteq Nat
  OBVIOUS
<1>3. PICK k \in M : \A j \in M : k <= j
  BY <1>1, <1>2, LeastNumber
<1>4. k \in Nat /\ k # 0 /\ k <= n
  OBVIOUS
<1>5. k - 1 \in K
  BY <1>3, <1>4
<1> QED
  BY <1>4, <1>5

\* The nodes of the feedback catalog are not among those a fix can wait for.
LEMMA NewDependenciesStable ==
  ASSUME NEW wf, NEW added \in SUBSET FixCatalog, NEW id
  PROVE  NewDependencies(id, WithNodes(wf, added)) = NewDependencies(id, wf)
<1>1. DOMAIN WithNodes(wf, added) = DOMAIN wf \cup added
  BY DEF WithNodes
<1>2. /\ added \cap Verification = {} /\ added \cap Branches = {}
      /\ added \cap {"review", "integration", "impact"} = {}
  BY CatalogAssumption DEF CompilerNodes, Changes, Verification, Branches
<1>3. \A C \in SUBSET (Verification \cup Branches \cup {"review", "integration", "impact"}) :
        C \cap (DOMAIN wf \cup added) = C \cap DOMAIN wf
  BY <1>2
<1> DEFINE candidates == <<Verification \cup {"review"}, Branches \cup {"integration"}>>
<1>4. \A i \in DOMAIN candidates :
        candidates[i] \cap (DOMAIN wf \cup added) = candidates[i] \cap DOMAIN wf
  BY <1>3
<1>5. FirstSelected(candidates, DOMAIN wf \cup added) = FirstSelected(candidates, DOMAIN wf)
  <2>1. \A k \in DOMAIN candidates : \A j \in 1..k - 1 : j \in DOMAIN candidates
    OBVIOUS
  <2> HIDE DEF candidates
  <2> QED
    BY <1>4, <2>1 DEF FirstSelected
<1>6. {"impact"} \cap (DOMAIN wf \cup added) = {"impact"} \cap DOMAIN wf
  BY <1>3
<1> QED
  BY <1>1, <1>5, <1>6 DEF NewDependencies

LEMMA WithNodesAgain ==
  ASSUME NEW wf, NEW A \in SUBSET FixCatalog, NEW B \in SUBSET FixCatalog
  PROVE  WithNodes(WithNodes(wf, A), B) = WithNodes(wf, A \cup B)
<1>1. DOMAIN WithNodes(wf, A) = DOMAIN wf \cup A
  BY DEF WithNodes
<1>2. \A n \in DOMAIN wf \cup A \cup B :
        WithNodes(WithNodes(wf, A), B)[n] = WithNodes(wf, A \cup B)[n]
  BY <1>1, NewDependenciesStable DEF WithNodes
<1> QED
  BY <1>1, <1>2 DEF WithNodes

LEMMA AddNodeResult ==
  ASSUME NEW wf, wf = [n \in DOMAIN wf |-> wf[n]], NEW A \in SUBSET FixCatalog, NEW id
  PROVE  AddNode(WithNodes(wf, A), id) = WithNodes(wf, A \cup ({id} \cap FixCatalog))
<1> DEFINE W == WithNodes(wf, A)
<1>1. DOMAIN W = DOMAIN wf \cup A /\ W = [n \in DOMAIN W |-> W[n]]
  BY DEF WithNodes
<1>2. CASE id \notin FixCatalog
  <2>1. A \cup ({id} \cap FixCatalog) = A
    BY <1>2
  <2> QED
    BY <1>2, <2>1 DEF AddNode
<1>3. CASE id \in FixCatalog /\ id \in DOMAIN W
  <2>1. DOMAIN wf \cup (A \cup ({id} \cap FixCatalog)) = DOMAIN wf \cup A
    BY <1>1, <1>3
  <2>2. AddNode(W, id) = W
    BY <1>3 DEF AddNode
  <2> QED
    BY <2>1, <2>2 DEF WithNodes
<1>4. CASE id \in FixCatalog /\ id \notin DOMAIN W
  <2>1. AddNode(W, id) =
          [n \in DOMAIN W \cup {id} |-> IF n = id THEN NewDependencies(id, W) ELSE W[n]]
    BY <1>4 DEF AddNode
  <2>2. NewDependencies(id, W) = NewDependencies(id, wf)
    BY NewDependenciesStable
  <2>3. A \cup ({id} \cap FixCatalog) = A \cup {id}
    BY <1>4
  <2>4. \A n \in DOMAIN W \cup {id} :
          (IF n = id THEN NewDependencies(id, W) ELSE W[n])
            = IF n \in DOMAIN wf THEN wf[n] ELSE NewDependencies(n, wf)
    BY <1>1, <1>4, <2>2 DEF WithNodes
  <2> QED
    BY <1>1, <2>1, <2>3, <2>4 DEF WithNodes
<1> QED
  BY <1>2, <1>3, <1>4

\* One rule: the recursion of AddRule is solved by the nodes of the ids so far.
LEMMA AddRuleResult ==
  ASSUME NEW wf, wf = [n \in DOMAIN wf |-> wf[n]], NEW A \in SUBSET FixCatalog,
         NEW ids, Len(ids) \in Nat
  PROVE  AddRule(WithNodes(wf, A), ids) = WithNodes(wf, A \cup RuleNodes(ids, Len(ids)))
<1> DEFINE last == Len(ids)
           W == WithNodes(wf, A)
           R(k) == WithNodes(wf, A \cup RuleNodes(ids, k))
           Solves(f) == f = [k \in 0..last |-> IF k = 0 THEN W ELSE AddNode(f[k - 1], ids[k])]
           added == CHOOSE f : Solves(f)
<1>1. R(0) = W
  <2>1. A \cup RuleNodes(ids, 0) = A
    BY DEF RuleNodes
  <2> QED
    BY <2>1
<1>2. \A k \in 1..last : R(k) = AddNode(R(k - 1), ids[k])
  <2>1. TAKE k \in 1..last
  <2>2. RuleNodes(ids, k) = RuleNodes(ids, k - 1) \cup ({ids[k]} \cap FixCatalog)
    BY DEF RuleNodes
  <2>3. A \cup RuleNodes(ids, k - 1) \in SUBSET FixCatalog
    BY DEF RuleNodes
  <2>4. AddNode(R(k - 1), ids[k])
          = WithNodes(wf, (A \cup RuleNodes(ids, k - 1)) \cup ({ids[k]} \cap FixCatalog))
    BY <2>3, AddNodeResult
  <2> QED
    BY <2>2, <2>4
<1> HIDE DEF R, W
<1>3. Solves([k \in 0..last |-> R(k)])
  <2>1. \A k \in 0..last : k # 0 => k \in 1..last /\ k - 1 \in 0..last
    OBVIOUS
  <2> QED
    BY <1>1, <1>2, <2>1
<1>4. Solves(added)
  <2> HIDE DEF Solves
  <2> QED
    BY <1>3
<1>5. \A k \in 0..last : added[k] = IF k = 0 THEN W ELSE AddNode(added[k - 1], ids[k])
  <2> HIDE DEF added
  <2> QED
    BY <1>4
<1>6. AddRule(W, ids) = added[last]
  BY DEF AddRule
<1> HIDE DEF added, Solves
<1>7. last \in 0..last /\ 0..last \subseteq {k \in 0..last : added[k] = R(k)}
  <2> DEFINE K == {k \in 0..last : added[k] = R(k)}
  <2>1. K \in SUBSET Nat /\ 0 \in K
    BY <1>1, <1>5
  <2>2. \A k \in K : k + 1 <= last => k + 1 \in K
    <3>1. SUFFICES ASSUME NEW k \in K, k + 1 <= last PROVE added[k + 1] = R(k + 1)
      OBVIOUS
    <3>2. k + 1 \in 1..last /\ k + 1 \in 0..last /\ (k + 1) - 1 = k /\ k + 1 # 0
      BY <3>1
    <3>3. added[k + 1] = AddNode(added[k], ids[k + 1])
      BY <1>5, <3>2
    <3>4. R(k + 1) = AddNode(R(k), ids[k + 1])
      BY <1>2, <3>2
    <3> QED
      BY <3>3, <3>4
  <2>3. last \in 0..last
    OBVIOUS
  <2> HIDE DEF K
  <2>4. 0..last \subseteq K
    BY <2>1, <2>2, CountingUp
  <2> QED
    BY <2>3, <2>4 DEF K
<1>8. added[last] = R(last)
  BY <1>7
<1> QED
  BY <1>6, <1>8 DEF R, W

\* All the rules: the same, one rule at a time.
LEMMA AddRulesResult ==
  ASSUME NEW wf, wf = [n \in DOMAIN wf |-> wf[n]], NEW classes \in Seq(Classification)
  PROVE  AddRules(wf, classes) = WithNodes(wf, RulesNodes(classes, Len(classes)))
<1> DEFINE last == Len(classes)
           R(k) == WithNodes(wf, RulesNodes(classes, k))
           Solves(f) ==
             f = [k \in 0..last |->
                    IF k = 0 THEN wf ELSE AddRule(f[k - 1], AddNodes[classes[k]])]
           added == CHOOSE f : Solves(f)
<1>1. R(0) = wf
  <2>1. RulesNodes(classes, 0) = {}
    BY DEF RulesNodes
  <2> QED
    BY <2>1 DEF WithNodes
<1>2. last \in Nat /\ \A k \in 1..last : Len(AddNodes[classes[k]]) \in Nat
  BY PolicyAssumption
<1>3. \A k \in 1..last : R(k) = AddRule(R(k - 1), AddNodes[classes[k]])
  <2>1. TAKE k \in 1..last
  <2> DEFINE ids == AddNodes[classes[k]]
  <2>2. RulesNodes(classes, k) = RulesNodes(classes, k - 1) \cup RuleNodes(ids, Len(ids))
    BY DEF RulesNodes, RuleNodes
  <2>3. RulesNodes(classes, k - 1) \in SUBSET FixCatalog
    BY DEF RulesNodes
  <2> QED
    BY <1>2, <2>2, <2>3, AddRuleResult
<1> HIDE DEF R, last
<1>4. Solves([k \in 0..last |-> R(k)])
  <2>1. \A k \in 0..last : k # 0 => k \in 1..last /\ k - 1 \in 0..last
    BY <1>2
  <2> QED
    BY <1>1, <1>3, <2>1
<1>5. Solves(added)
  <2> HIDE DEF Solves
  <2> QED
    BY <1>4
<1>6. \A k \in 0..last : added[k] = IF k = 0 THEN wf ELSE AddRule(added[k - 1], AddNodes[classes[k]])
  <2> HIDE DEF added
  <2> QED
    BY <1>5
<1>7. AddRules(wf, classes) = added[last]
  BY DEF AddRules, last
<1> HIDE DEF added, Solves
<1>8. added[last] = R(last)
  <2> DEFINE K == {k \in 0..last : added[k] = R(k)}
  <2>1. K \in SUBSET Nat /\ 0 \in K
    BY <1>1, <1>2, <1>6
  <2>2. \A k \in K : k + 1 <= last => k + 1 \in K
    <3>1. SUFFICES ASSUME NEW k \in K, k + 1 <= last PROVE added[k + 1] = R(k + 1)
      BY <1>2
    <3>2. k + 1 \in 1..last /\ k + 1 \in 0..last /\ (k + 1) - 1 = k /\ k + 1 # 0
      BY <1>2, <3>1
    <3>3. added[k + 1] = AddRule(added[k], AddNodes[classes[k + 1]])
      BY <1>6, <3>2
    <3>4. R(k + 1) = AddRule(R(k), AddNodes[classes[k + 1]])
      BY <1>3, <3>2
    <3> QED
      BY <3>3, <3>4
  <2>3. last \in 0..last
    BY <1>2
  <2> HIDE DEF K
  <2>4. 0..last \subseteq K
    BY <1>2, <2>1, <2>2, CountingUp
  <2> QED
    BY <2>3, <2>4 DEF K
<1> QED
  BY <1>7, <1>8 DEF R, last

\* What the rules of a set of classifications name, and what dag:feedback makes of it.
NamedBy(classes) ==
  {id \in FixCatalog : \E c \in classes : id \in RuleNodes(AddNodes[c], Len(AddNodes[c]))}

LEMMA RecompileResult ==
  ASSUME NEW wf, wf = [n \in DOMAIN wf |-> wf[n]], NEW classes \in Seq(Classification)
  PROVE  Recompile(wf, classes)
           = Rewired(WithNodes(wf, NamedBy({classes[i] : i \in 1..Len(classes)})))
<1>1. RulesNodes(classes, Len(classes)) = NamedBy({classes[i] : i \in 1..Len(classes)})
  BY DEF RulesNodes, NamedBy
<1> QED
  BY <1>1, AddRulesResult DEF Recompile

\* Applied again with more failures, dag:feedback gets what it had got with all of them.
LEMMA RewiredAgain ==
  ASSUME NEW wf, NEW A \in SUBSET FixCatalog, NEW B \in SUBSET FixCatalog
  PROVE  Rewired(WithNodes(Rewired(WithNodes(wf, A)), B)) = Rewired(WithNodes(wf, A \cup B))
<1> DEFINE W == WithNodes(wf, A)
           V == WithNodes(wf, A \cup B)
           U == WithNodes(Rewired(W), B)
<1>1. DOMAIN Rewired(W) = DOMAIN W /\ DOMAIN W = DOMAIN wf \cup A
  BY DEF Rewired, WithNodes
<1>2. DOMAIN V = DOMAIN wf \cup A \cup B /\ DOMAIN U = DOMAIN V
  BY <1>1 DEF WithNodes
<1>3. V = WithNodes(W, B)
  BY WithNodesAgain
<1>4. \A n : NewDependencies(n, Rewired(W)) = NewDependencies(n, W)
  BY <1>1 DEF NewDependencies
<1>5. \A n \in DOMAIN V : U[n] = IF n \in DOMAIN W THEN Rewired(W)[n] ELSE V[n]
  <2>1. \A n \in DOMAIN V : n \in DOMAIN Rewired(W) \cup B
    BY <1>1, <1>2
  <2>2. \A n \in DOMAIN V : n \notin DOMAIN W => V[n] = NewDependencies(n, W)
    <3>1. WithNodes(W, B) = [n \in DOMAIN W \cup B |->
                               IF n \in DOMAIN W THEN W[n] ELSE NewDependencies(n, W)]
      BY DEF WithNodes
    <3> HIDE DEF W, V
    <3> QED
      BY <1>3, <3>1
  <2>3. U = [n \in DOMAIN Rewired(W) \cup B |->
               IF n \in DOMAIN Rewired(W) THEN Rewired(W)[n] ELSE NewDependencies(n, Rewired(W))]
    BY DEF WithNodes
  <2> HIDE DEF W, V, U
  <2> QED
    BY <1>1, <1>4, <2>1, <2>2, <2>3
<1>6. \A n \in DOMAIN W : n \in DOMAIN V /\ V[n] = W[n]
  <2>1. WithNodes(W, B) = [n \in DOMAIN W \cup B |->
                             IF n \in DOMAIN W THEN W[n] ELSE NewDependencies(n, W)]
    BY DEF WithNodes
  <2> HIDE DEF W, V
  <2> QED
    BY <1>3, <2>1
<1>7. \A n \in DOMAIN V : Rewired(U)[n] = Rewired(V)[n]
  <2> HIDE DEF W, V, U
  <2>1. TAKE n \in DOMAIN V
  <2>2. n \in DOMAIN W => U[n] = Rewired(W)[n] /\ V[n] = W[n]
    BY <1>5, <1>6
  <2>3. n \notin DOMAIN W => U[n] = V[n]
    BY <1>5
  <2>4. CASE n = "review"
    <3>1. /\ Rewired(U)[n] = U[n] \cup (FixNodes \cap DOMAIN V)
          /\ Rewired(V)[n] = V[n] \cup (FixNodes \cap DOMAIN V)
      BY <1>2, <2>4 DEF Rewired
    <3>2. n \in DOMAIN W => U[n] = W[n] \cup (FixNodes \cap DOMAIN W)
      BY <2>2, <2>4 DEF Rewired
    <3>3. DOMAIN W \subseteq DOMAIN V
      BY <1>6
    <3> QED
      BY <2>2, <2>3, <3>1, <3>2, <3>3
  <2>5. CASE n = "pr"
    BY <1>2, <2>5 DEF Rewired
  <2>6. CASE n \notin {"review", "pr"}
    <3>1. Rewired(U)[n] = U[n] /\ Rewired(V)[n] = V[n]
      BY <1>2, <2>6 DEF Rewired
    <3>2. n \in DOMAIN W => Rewired(W)[n] = W[n]
      BY <2>6 DEF Rewired
    <3> QED
      BY <2>2, <2>3, <3>1, <3>2
  <2> QED
    BY <2>4, <2>5, <2>6
<1> HIDE DEF W, V, U
<1>8. /\ Rewired(U) = [n \in DOMAIN V |-> Rewired(U)[n]]
      /\ Rewired(V) = [n \in DOMAIN V |-> Rewired(V)[n]]
  BY <1>2 DEF Rewired
<1>9. Rewired(U) = Rewired(V)
  BY <1>7, <1>8
<1> QED
  BY <1>9 DEF U, V, W

-----------------------------------------------------------------------------
(* Upstream of a node are its dependencies, and theirs.                    *)
LEMMA UpstreamReaches ==
  ASSUME NEW wf, IsFiniteSet(DOMAIN wf), NEW n \in DOMAIN wf
  PROVE  /\ wf[n] \subseteq Upstream(wf, n)
         /\ \A d \in wf[n] \cap DOMAIN wf : wf[d] \subseteq Upstream(wf, n)
<1> DEFINE last == Cardinality(DOMAIN wf)
           Wider(X) == X \cup UNION {wf[d] : d \in X \cap DOMAIN wf}
           Solves(f, k) == f = [j \in 0..k |-> IF j = 0 THEN wf[n] ELSE Wider(f[j - 1])]
           reach == CHOOSE f : Solves(f, last)
<1>1. last \in Nat /\ last # 0
  BY FS_CardinalityType, FS_EmptySet
<1> HIDE DEF last
<1>2. \E f : Solves(f, last)
  <2> DEFINE K == {k \in Nat : \E f : Solves(f, k)}
  <2>1. 0 \in K
    <3>1. Solves([j \in 0..0 |-> wf[n]], 0)
      OBVIOUS
    <3> QED
      BY <3>1
  <2>2. \A k \in K : k + 1 <= last => k + 1 \in K
    <3>1. SUFFICES ASSUME NEW k \in Nat, NEW f, Solves(f, k)
                   PROVE  \E g : Solves(g, k + 1)
      OBVIOUS
    <3> HIDE DEF Wider
    <3> DEFINE g == [j \in 0..k + 1 |-> IF j <= k THEN f[j] ELSE Wider(f[k])]
    <3>2. \A j \in 0..k + 1 : g[j] = IF j = 0 THEN wf[n] ELSE Wider(g[j - 1])
      <4>1. TAKE j \in 0..k + 1
      <4>2. CASE j <= k
        <5>1. j \in 0..k /\ (j # 0 => j - 1 \in 0..k /\ j - 1 <= k /\ j - 1 \in 0..k + 1)
          BY <4>2
        <5>2. f[j] = IF j = 0 THEN wf[n] ELSE Wider(f[j - 1])
          BY <3>1, <5>1
        <5> QED
          BY <4>2, <5>1, <5>2
      <4>3. CASE ~ (j <= k)
        <5>1. j = k + 1 /\ j # 0 /\ j - 1 = k /\ k \in 0..k + 1
          BY <4>3
        <5> QED
          BY <4>3, <5>1
      <4> QED
        BY <4>2, <4>3
    <3>3. Solves(g, k + 1)
      <4>1. g = [j \in 0..k + 1 |-> g[j]]
        OBVIOUS
      <4> HIDE DEF g
      <4> QED
        BY <3>2, <4>1
    <3> QED
      BY <3>3
  <2>3. last \in 0..last
    BY <1>1
  <2>4. K \in SUBSET Nat
    OBVIOUS
  <2> HIDE DEF K
  <2>5. last \in K
    BY <1>1, <2>1, <2>2, <2>3, <2>4, CountingUp
  <2> QED
    BY <2>5 DEF K
<1>3. Solves(reach, last)
  <2> HIDE DEF Solves
  <2> QED
    BY <1>2
<1>4. \A k \in 0..last : reach[k] = IF k = 0 THEN wf[n] ELSE Wider(reach[k - 1])
  <2> HIDE DEF reach, Wider
  <2> QED
    BY <1>3
<1>5. Upstream(wf, n) = reach[last]
  BY DEF Upstream, last
<1> HIDE DEF reach, Solves
<1>6. \A X : X \subseteq Wider(X)
  OBVIOUS
<1>7. Wider(wf[n]) \subseteq reach[last]
  <2> HIDE DEF Wider
  <2> DEFINE K == {k \in Nat : k # 0 /\ k <= last => Wider(wf[n]) \subseteq reach[k]}
  <2>1. 0 \in K /\ K \in SUBSET Nat
    OBVIOUS
  <2>2. \A k \in K : k + 1 <= last => k + 1 \in K
    <3>1. SUFFICES ASSUME NEW k \in Nat, k + 1 <= last,
                          k # 0 /\ k <= last => Wider(wf[n]) \subseteq reach[k]
                   PROVE  Wider(wf[n]) \subseteq reach[k + 1]
      OBVIOUS
    <3>2. k \in 0..last /\ k + 1 \in 0..last /\ (k + 1) - 1 = k /\ k + 1 # 0 /\ k <= last
      BY <1>1, <3>1
    <3>3. reach[k + 1] = Wider(reach[k])
      BY <1>4, <3>2
    <3>4. CASE k = 0
      BY <1>4, <3>2, <3>3, <3>4
    <3>5. CASE k # 0
      BY <1>6, <3>1, <3>2, <3>3, <3>5
    <3> QED
      BY <3>4, <3>5
  <2>3. last \in 0..last
    BY <1>1
  <2> HIDE DEF K
  <2>4. last \in K
    BY <1>1, <2>1, <2>2, <2>3, CountingUp
  <2> QED
    BY <1>1, <2>4 DEF K
<1> QED
  BY <1>5, <1>7

-----------------------------------------------------------------------------
(* Verification, edge by edge: what compileDag draws, and dag:feedback      *)
(* leaves as it is.  Two branches are joined by integration.                *)
IsVerified(wf) ==
  LET branches == Branches \cap DOMAIN wf
  IN  branches # {} =>
        /\ {"test", "review", "pr"} \subseteq DOMAIN wf
        /\ "review" \in wf["pr"]
        /\ \A v \in {"test", "security-review"} \cap DOMAIN wf :
             /\ v \in wf["review"]
             /\ \/ branches \subseteq wf[v] /\ \A a, b \in branches : a = b
                \/ /\ "integration" \in wf[v] \cap DOMAIN wf
                   /\ branches \subseteq wf["integration"]

IsWorkflow(wf) ==
  /\ wf = [n \in DOMAIN wf |-> wf[n]]
  /\ DOMAIN wf \subseteq Catalog \cup FixCatalog

DagInv ==
  /\ IsWorkflow(workflow)
  /\ events \in Seq([source : Source, class : Classification])
  /\ classified \in 0..Len(events)

VerifiedInv == DagInv /\ IsVerified(workflow)

\* Which of the candidates are chosen, when the first or the second has a member.
LEMMA FirstSelectedFirst ==
  ASSUME NEW candidates, NEW selected, 1 \in DOMAIN candidates,
         DOMAIN candidates \subseteq Nat \ {0}, candidates[1] \cap selected # {}
  PROVE  FirstSelected(candidates, selected) = candidates[1] \cap selected
<1>1. 1..1 - 1 = {}
  OBVIOUS
<1>2. \A i \in DOMAIN candidates : i = 1 \/ 1 \in 1..i - 1
  OBVIOUS
<1>3. {k \in DOMAIN candidates : \A j \in 1..k - 1 : candidates[j] \cap selected = {}} = {1}
  BY <1>1, <1>2
<1> QED
  BY <1>3 DEF FirstSelected

LEMMA FirstSelectedSecond ==
  ASSUME NEW A, NEW B, NEW selected, A \cap selected = {}
  PROVE  FirstSelected(<<A, B>>, selected) = B \cap selected
<1> DEFINE candidates == <<A, B>>
<1>1. DOMAIN candidates = {1, 2} /\ candidates[1] = A /\ candidates[2] = B
  OBVIOUS
<1>2. 1..1 - 1 = {} /\ 1..2 - 1 = {1}
  OBVIOUS
<1> HIDE DEF candidates
<1>3. {k \in DOMAIN candidates : \A j \in 1..k - 1 : candidates[j] \cap selected = {}} = {1, 2}
  BY <1>1, <1>2
<1>4. FirstSelected(candidates, selected) = (A \cap selected) \cup (B \cap selected)
  BY <1>1, <1>3 DEF FirstSelected
<1> QED
  BY <1>4 DEF candidates

\* A set with two members has more than one.
LEMMA TwoMembers ==
  ASSUME NEW S, IsFiniteSet(S), NEW a \in S, NEW b \in S, a # b
  PROVE  Cardinality(S) > 1
<1>1. IsFiniteSet({a, b}) /\ Cardinality({a, b}) = 2
  <2>1. IsFiniteSet({a}) /\ Cardinality({a}) = 1
    BY FS_Singleton
  <2>2. {a, b} = {a} \cup {b} /\ b \notin {a}
    OBVIOUS
  <2>3. IsFiniteSet({a} \cup {b}) /\ Cardinality({a} \cup {b}) = Cardinality({a}) + 1
    BY <2>1, <2>2, FS_AddElement
  <2> QED
    BY <2>1, <2>2, <2>3
<1>2. Cardinality({a, b}) <= Cardinality(S) /\ Cardinality(S) \in Nat
  BY <1>1, FS_Subset, FS_CardinalityType
<1> QED
  BY <1>1, <1>2

LEMMA BranchesAreFinite == IsFiniteSet(Branches)
<1>1. Branches \subseteq Catalog
  BY CatalogAssumption DEF CompilerNodes, Changes, Branches
<1> QED
  BY <1>1, CatalogAssumption, FS_Subset

LEMMA AcceptedIsWorkflow ==
  ASSUME NEW wf \in Accepted
  PROVE  IsWorkflow(wf)
<1>1. DOMAIN wf \subseteq Catalog
  BY DEF Accepted
<1>2. wf = [n \in DOMAIN wf |-> wf[n]]
  BY DEF Accepted, Compilations, CompileDag
<1> QED
  BY <1>1, <1>2 DEF IsWorkflow

\* What compileDag draws for the nodes a verification depends on.
LEMMA CompilationIsVerified ==
  ASSUME PolicyVerifiesCode, NEW wf \in Accepted
  PROVE  IsVerified(wf)
<1>1. PICK sig \in Signals : wf = CompileDag(sig)
  BY DEF Accepted, Compilations
<1> DEFINE selected == Selected(sig)
           branches == Branches \cap DOMAIN wf
<1>2. /\ DOMAIN wf = selected
      /\ \A n \in selected : wf[n] = SelectedDependencies(n, selected)
      /\ wf = [n \in DOMAIN wf |-> wf[n]]
  BY <1>1 DEF CompileDag
<1>3. selected \subseteq Catalog /\ {"review", "pr"} \subseteq selected
  BY <1>2 DEF Accepted, ValidateWorkflow
<1>4. ASSUME branches # {}
      PROVE  /\ {"test", "review", "pr"} \subseteq selected
             /\ Cardinality(branches) > 1 => "integration" \in selected
  <2>1. ~ sig.docsOnly
    BY <1>2, <1>4 DEF Selected, Branches
  <2>2. RiskNodes[sig.risk] \cap Branches = {}
    BY DEF Signals, PolicyVerifiesCode
  <2>3. branches = (Always \cup sig.adds) \cap Branches
    <3>1. \A b \in Branches : b \in selected <=> b \in Always \cup sig.adds
      BY <2>1, <2>2 DEF Selected, Branches
    <3> QED
      BY <1>2, <3>1
  <2> QED
    BY <1>3, <1>4, <2>1, <2>3 DEF Selected, PolicyVerifiesCode
<1>5. ASSUME branches # {}
      PROVE  "review" \in wf["pr"]
  BY <1>2, <1>4, <1>5 DEF SelectedDependencies, CodeBranches, Branches
<1>6. ASSUME branches # {}, NEW v \in {"test", "security-review"} \cap DOMAIN wf
      PROVE  /\ v \in wf["review"]
             /\ \/ branches \subseteq wf[v] /\ \A a, b \in branches : a = b
                \/ /\ "integration" \in wf[v] \cap DOMAIN wf
                   /\ branches \subseteq wf["integration"]
  <2>1. v \in wf["review"]
    <3> DEFINE candidates == <<Verification, {"integration"}, CodeBranches \cup {"docs"},
                               {"impact"}, {"planner"}>>
    <3>1. wf["review"] = FirstSelected(candidates, selected \cup {"planner"})
      BY <1>2, <1>4, <1>6 DEF SelectedDependencies, CodeBranches, Branches
    <3>2. /\ 1 \in DOMAIN candidates /\ DOMAIN candidates \subseteq Nat \ {0}
          /\ candidates[1] = Verification
      OBVIOUS
    <3>3. v \in Verification \cap selected /\ "planner" \notin Verification
      BY <1>2, <1>6 DEF Verification
    <3> HIDE DEF candidates
    <3> QED
      BY <3>1, <3>2, <3>3, FirstSelectedFirst
  <2> DEFINE A == {"integration"}
             B == CodeBranches
  <2>2. wf[v] = FirstSelected(<<A, B>>, selected)
    BY <1>2, <1>6 DEF SelectedDependencies, CodeBranches, Branches
  <2>3. CASE "integration" \in selected
    <3> DEFINE candidates == <<A, B>>
    <3>1. /\ 1 \in DOMAIN candidates /\ DOMAIN candidates \subseteq Nat \ {0}
          /\ candidates[1] = A
      OBVIOUS
    <3>2. candidates[1] \cap selected = {"integration"}
      BY <2>3, <3>1
    <3> HIDE DEF candidates
    <3>3. FirstSelected(candidates, selected) = {"integration"}
      BY <3>1, <3>2, FirstSelectedFirst
    <3>4. "integration" \in wf[v] \cap DOMAIN wf
      BY <1>2, <2>2, <2>3, <3>3 DEF candidates
    <3>5. wf["integration"] = CodeBranches \cap selected
      BY <1>2, <2>3 DEF SelectedDependencies, CodeBranches, Branches
    <3>6. branches \subseteq wf["integration"]
      BY <1>2, <3>5 DEF CodeBranches
    <3> QED
      BY <2>1, <3>4, <3>6
  <2>4. CASE "integration" \notin selected
    <3>1. wf[v] = CodeBranches \cap selected
      BY <2>2, <2>4, FirstSelectedSecond
    <3>2. branches \subseteq wf[v]
      BY <1>2, <3>1 DEF CodeBranches
    <3>3. IsFiniteSet(branches)
      BY BranchesAreFinite, FS_Subset
    <3>4. \A a, b \in branches : a = b
      BY <1>4, <1>6, <2>4, <3>3, TwoMembers
    <3> QED
      BY <2>1, <3>2, <3>4
  <2> QED
    BY <2>3, <2>4
<1> HIDE DEF selected
<1> QED
  BY <1>2, <1>4, <1>5, <1>6 DEF IsVerified

\* dag:feedback adds nodes of its own catalog, and keeps the edges of the others.
LEMMA RecompiledIsVerified ==
  ASSUME NEW wf, IsWorkflow(wf), NEW classes \in Seq(Classification)
  PROVE  /\ IsWorkflow(Recompile(wf, classes))
         /\ IsVerified(wf) => IsVerified(Recompile(wf, classes))
<1> DEFINE A == NamedBy({classes[i] : i \in 1..Len(classes)})
           W == WithNodes(wf, A)
           R == Rewired(W)
<1>1. Recompile(wf, classes) = R
  BY RecompileResult DEF IsWorkflow
<1>2. A \in SUBSET FixCatalog
  BY DEF NamedBy
<1> HIDE DEF A
<1>3. /\ DOMAIN R = DOMAIN wf \cup A
      /\ R = [n \in DOMAIN R |-> R[n]]
      /\ \A n \in DOMAIN wf : W[n] = wf[n] /\ n \in DOMAIN W
  BY DEF Rewired, WithNodes
<1>4. /\ \A n \in DOMAIN wf \ {"pr"} : wf[n] \subseteq R[n]
      /\ "pr" \in DOMAIN wf => "review" \in R["pr"]
      /\ \A n \in DOMAIN wf \ {"pr", "review"} : R[n] = wf[n]
  <2> HIDE DEF W
  <2> QED
    BY <1>3 DEF Rewired
<1>5. /\ Branches \cap DOMAIN R = Branches \cap DOMAIN wf
      /\ {"test", "security-review"} \cap DOMAIN R = {"test", "security-review"} \cap DOMAIN wf
  BY <1>2, <1>3, CatalogAssumption DEF CompilerNodes, Changes, Branches
<1>6. DOMAIN R \subseteq Catalog \cup FixCatalog
  BY <1>2, <1>3 DEF IsWorkflow
<1> HIDE DEF R, W
<1>7. IsVerified(wf) => IsVerified(R)
  <2> DEFINE branches == Branches \cap DOMAIN wf
  <2>1. SUFFICES ASSUME IsVerified(wf), branches # {}
        PROVE  /\ {"test", "review", "pr"} \subseteq DOMAIN R
               /\ "review" \in R["pr"]
               /\ \A v \in {"test", "security-review"} \cap DOMAIN wf :
                    /\ v \in R["review"]
                    /\ \/ branches \subseteq R[v] /\ \A a, b \in branches : a = b
                       \/ /\ "integration" \in R[v] \cap DOMAIN R
                          /\ branches \subseteq R["integration"]
    BY <1>5 DEF IsVerified
  <2>2. /\ {"test", "review", "pr"} \subseteq DOMAIN wf
        /\ \A v \in {"test", "security-review"} \cap DOMAIN wf :
             /\ v \in wf["review"]
             /\ \/ branches \subseteq wf[v] /\ \A a, b \in branches : a = b
                \/ /\ "integration" \in wf[v] \cap DOMAIN wf
                   /\ branches \subseteq wf["integration"]
    BY <2>1 DEF IsVerified
  <2>3. DOMAIN wf \subseteq DOMAIN R
    BY <1>3
  <2> QED
    BY <1>4, <2>2, <2>3
<1> QED
  BY <1>1, <1>3, <1>6, <1>7 DEF IsWorkflow

\* feedback:classify always has a classification to give.
LEMMA ClassifyType ==
  ASSUME NEW source, NEW hints
  PROVE  Classify(source, hints) \in Classification
<1> DEFINE fits == <<
        <<source = "playwright"   \/ "ui" \in hints,            "ui-regression">>,
        <<source = "architecture" \/ "boundary" \in hints,      "architecture-violation">>,
        <<source = "security"     \/ "vulnerability" \in hints, "security-finding">>,
        <<source = "migration"    \/ "schema" \in hints,        "migration-failure">>,
        <<source = "graph"        \/ "blast radius" \in hints,  "unexpected-impact">>,
        <<source = "unit"         \/ "test" \in hints,          "test-regression">>,
        <<"timeout" \in hints,                                  "transient">>,
        <<TRUE,                                                 "unknown">> >>
           First(i) == fits[i][1] /\ \A j \in 1..i - 1 : ~ fits[j][1]
           first == CHOOSE i \in 1..8 : First(i)
<1>1. \A i \in 1..8 : fits[i][2] \in Classification
  <2>1. /\ fits[1][2] \in Classification /\ fits[2][2] \in Classification
        /\ fits[3][2] \in Classification /\ fits[4][2] \in Classification
        /\ fits[5][2] \in Classification /\ fits[6][2] \in Classification
        /\ fits[7][2] \in Classification /\ fits[8][2] \in Classification
    BY DEF Classification
  <2>2. 1..8 = {1, 2, 3, 4, 5, 6, 7, 8}
    OBVIOUS
  <2> HIDE DEF fits
  <2> QED
    BY <2>1, <2>2
<1>2. fits[8][1] = TRUE
  OBVIOUS
<1>3. Classify(source, hints) = fits[first][2]
  BY DEF Classify
<1> HIDE DEF fits
<1>4. \E i \in 1..8 : First(i)
  <2> DEFINE K == {i \in 1..8 : fits[i][1]}
  <2>1. K \in SUBSET Nat /\ K # {}
    BY <1>2
  <2>2. PICK i \in K : \A j \in K : i <= j
    BY <2>1, LeastNumber
  <2>3. \A j \in 1..i - 1 : j \in 1..8 /\ ~ (i <= j)
    BY <2>2
  <2> QED
    BY <2>2, <2>3
<1>5. first \in 1..8
  <2> HIDE DEF First
  <2> QED
    BY <1>4
<1> QED
  BY <1>1, <1>3, <1>5

LEMMA InitDagInv == DagInit => DagInv
<1> SUFFICES ASSUME DagInit PROVE DagInv
  OBVIOUS
<1>1. workflow = [n \in {} |-> {}] /\ DOMAIN workflow = {}
  BY DEF DagInit
<1>2. IsWorkflow(workflow)
  BY <1>1 DEF IsWorkflow
<1> QED
  BY <1>2 DEF DagInit, DagInv

LEMMA ClassesType == ASSUME DagInv PROVE ClassifiedClasses \in Seq(Classification)
<1> DEFINE Event == [source : Source, class : Classification]
<1>1. \A i \in 1..classified : events[i] \in Event
  <2>1. events \in Seq(Event) /\ classified \in 0..Len(events)
    BY DEF DagInv
  <2> HIDE DEF Event
  <2> QED
    BY <2>1
<1>2. \A i \in 1..classified : events[i].class \in Classification
  BY <1>1
<1>3. classified \in Nat
  BY DEF DagInv
<1> QED
  BY <1>2, <1>3 DEF ClassifiedClasses

LEMMA NextDagInv == ASSUME DagInv, [DagNext]_dagVars PROVE DagInv'
<1> DEFINE Event == [source : Source, class : Classification]
<1>1. CASE Compile
  <2>1. PICK wf \in Compilations : workflow' = IF wf \in Accepted THEN wf ELSE workflow
    BY <1>1 DEF Compile
  <2>2. IsWorkflow(workflow')
    BY <2>1, AcceptedIsWorkflow DEF DagInv
  <2> QED
    BY <1>1, <2>2 DEF Compile, DagInv
<1>2. CASE Record
  <2>1. PICK source \in Source, hints \in SUBSET Hint :
          events' = Append(events, [source |-> source, class |-> Classify(source, hints)])
    BY <1>2 DEF Record
  <2>2. [source |-> source, class |-> Classify(source, hints)] \in Event
    BY ClassifyType
  <2>3. events \in Seq(Event) /\ classified \in 0..Len(events)
    BY DEF DagInv
  <2> HIDE DEF Event
  <2>4. events' \in Seq(Event) /\ Len(events') = Len(events) + 1
    BY <2>1, <2>2, <2>3
  <2>5. classified' \in 0..Len(events')
    BY <1>2, <2>3, <2>4 DEF Record
  <2> QED
    BY <1>2, <2>4, <2>5 DEF Record, DagInv, Event
<1>3. CASE ClassifyEvents
  BY <1>3 DEF ClassifyEvents, DagInv
<1>4. CASE ApplyFeedback
  <2>2. IsWorkflow(workflow')
    BY <1>4, ClassesType, RecompiledIsVerified DEF ApplyFeedback, DagInv
  <2> QED
    BY <1>4, <2>2 DEF ApplyFeedback, DagInv
<1>5. CASE UNCHANGED dagVars
  BY <1>5 DEF dagVars, DagInv
<1> QED
  BY <1>1, <1>2, <1>3, <1>4, <1>5 DEF DagNext

LEMMA SpecDagInv == DagSpec => []DagInv
<1>1. DagInv /\ [DagNext]_dagVars => DagInv'
  BY NextDagInv
<1> QED
  BY InitDagInv, <1>1, PTL DEF DagSpec

LEMMA SpecVerifiedInv == ASSUME PolicyVerifiesCode PROVE DagSpec => []VerifiedInv
<1>1. DagInit => VerifiedInv
  BY InitDagInv DEF DagInit, VerifiedInv, IsVerified
<1>2. ASSUME VerifiedInv, [DagNext]_dagVars PROVE VerifiedInv'
  <2>1. DagInv' /\ DagInv
    BY <1>2, NextDagInv DEF VerifiedInv
  <2>2. CASE Compile
    <3>1. PICK wf \in Compilations : workflow' = IF wf \in Accepted THEN wf ELSE workflow
      BY <2>2 DEF Compile
    <3>2. IsVerified(workflow')
      BY <1>2, <3>1, CompilationIsVerified DEF VerifiedInv
    <3> QED
      BY <2>1, <3>2 DEF VerifiedInv, IsVerified
  <2>3. CASE ApplyFeedback
    <3>1. workflow' = Recompile(workflow, ClassifiedClasses)
      BY <2>3 DEF ApplyFeedback
    <3>2. IsVerified(workflow')
      BY <1>2, <2>1, <3>1, ClassesType, RecompiledIsVerified DEF VerifiedInv, DagInv
    <3> QED
      BY <2>1, <3>2 DEF VerifiedInv, IsVerified
  <2>4. CASE UNCHANGED workflow
    BY <1>2, <2>1, <2>4 DEF VerifiedInv, IsVerified
  <2> QED
    BY <1>2, <2>2, <2>3, <2>4 DEF DagNext, dagVars, Record, ClassifyEvents
<1> QED
  BY <1>1, <1>2, PTL DEF DagSpec

(* Verification cannot be bypassed, for every policy that tests code, joins *)
(* parallel branches and adds no code branch by risk: compiled from any     *)
(* evidence, and after any feedback, a workflow has each branch upstream of *)
(* test and security review, joined before they run, and these upstream of  *)
(* review (compileDag and dag-recompile-feedback).                          *)
THEOREM CompiledCodeIsVerified ==
  ASSUME PolicyVerifiesCode PROVE DagSpec => []CodeIsVerified
<1>1. VerifiedInv => CodeIsVerified
  <2> DEFINE wf == workflow
             branches == Branches \cap DOMAIN workflow
  <2>1. SUFFICES ASSUME VerifiedInv, branches # {}
        PROVE  /\ "test" \in DOMAIN wf
               /\ "review" \in wf["pr"]
               /\ \A v \in {"test", "security-review"} \cap DOMAIN wf :
                    /\ branches \subseteq Upstream(wf, v)
                    /\ v \in Upstream(wf, "review")
                    /\ Cardinality(branches) > 1 =>
                         /\ "integration" \in Upstream(wf, v)
                         /\ branches \subseteq Upstream(wf, "integration")
    BY DEF CodeIsVerified
  <2>2. /\ {"test", "review", "pr"} \subseteq DOMAIN wf
        /\ "review" \in wf["pr"]
        /\ \A v \in {"test", "security-review"} \cap DOMAIN wf :
             /\ v \in wf["review"]
             /\ \/ branches \subseteq wf[v] /\ \A a, b \in branches : a = b
                \/ /\ "integration" \in wf[v] \cap DOMAIN wf
                   /\ branches \subseteq wf["integration"]
    BY <2>1 DEF VerifiedInv, IsVerified
  <2>3. IsFiniteSet(DOMAIN wf)
    <3>1. IsFiniteSet(Catalog \cup FixCatalog)
      BY CatalogAssumption, FS_Union
    <3> QED
      BY <2>1, <3>1, FS_Subset DEF VerifiedInv, DagInv, IsWorkflow
  <2>4. \A n \in DOMAIN wf : /\ wf[n] \subseteq Upstream(wf, n)
                            /\ \A d \in wf[n] \cap DOMAIN wf : wf[d] \subseteq Upstream(wf, n)
    BY <2>3, UpstreamReaches
  <2>5. (\A a, b \in branches : a = b) => ~ (Cardinality(branches) > 1)
    <3>1. PICK b \in branches : TRUE
      BY <2>1
    <3>2. (\A x, y \in branches : x = y) => branches = {b}
      BY <3>1
    <3>3. Cardinality({b}) = 1
      BY FS_Singleton
    <3> QED
      BY <3>2, <3>3
  <2> HIDE DEF wf, branches
  <2>6. ASSUME NEW v \in {"test", "security-review"} \cap DOMAIN wf
        PROVE  /\ branches \subseteq Upstream(wf, v)
               /\ v \in Upstream(wf, "review")
               /\ Cardinality(branches) > 1 =>
                    /\ "integration" \in Upstream(wf, v)
                    /\ branches \subseteq Upstream(wf, "integration")
    <3>1. v \in Upstream(wf, "review")
      BY <2>2, <2>4
    <3>2. CASE branches \subseteq wf[v] /\ \A a, b \in branches : a = b
      BY <2>4, <2>5, <3>1, <3>2
    <3>3. CASE "integration" \in wf[v] \cap DOMAIN wf /\ branches \subseteq wf["integration"]
      BY <2>4, <3>1, <3>3
    <3> QED
      BY <2>2, <3>2, <3>3
  <2> QED
    BY <2>2, <2>6
<1> QED
  BY <1>1, SpecVerifiedInv, PTL

(* Feedback may be applied in any order, one failure at a time or together, *)
(* and again (dag-recompile-feedback), for every feedback-policy.json: what *)
(* AddRules adds depends on the set of the failures only.                   *)
THEOREM FeedbackOrderIrrelevant == DagSpec => []FeedbackIsOrderFree
<1>1. DagInv => FeedbackIsOrderFree
  <2>1. SUFFICES ASSUME DagInv, NEW a \in Classification, NEW b \in Classification
        PROVE  LET both == Recompile(workflow, <<a, b>>)
               IN  /\ Recompile(Recompile(workflow, <<a>>), <<b>>) = both
                   /\ Recompile(workflow, <<b, a>>) = both
                   /\ Recompile(both, <<a, b>>) = both
    BY DEF FeedbackIsOrderFree
  <2> DEFINE Members(c) == {c[i] : i \in 1..Len(c)}
             Result(C) == Rewired(WithNodes(workflow, NamedBy(C)))
  <2>2. IsWorkflow(workflow)
    BY <2>1 DEF DagInv
  <2>3. \A c \in Seq(Classification) : Recompile(workflow, c) = Result(Members(c))
    BY <2>2, RecompileResult DEF IsWorkflow
  <2>4. ASSUME NEW c \in Seq(Classification), NEW d \in Seq(Classification)
        PROVE  Recompile(Recompile(workflow, c), d) = Result(Members(c) \cup Members(d))
    <3> DEFINE C == Members(c)
               D == Members(d)
    <3>1. Recompile(workflow, c) = Result(C)
      BY <2>3
    <3>2. Result(C) = [n \in DOMAIN Result(C) |-> Result(C)[n]]
      BY DEF Rewired
    <3>3. NamedBy(C) \in SUBSET FixCatalog /\ NamedBy(D) \in SUBSET FixCatalog
      BY DEF NamedBy
    <3>4. NamedBy(C) \cup NamedBy(D) = NamedBy(C \cup D)
      BY DEF NamedBy
    <3> HIDE DEF C, D
    <3>5. Recompile(Result(C), d) = Rewired(WithNodes(Result(C), NamedBy(D)))
      <4> HIDE DEF Result
      <4> QED
        BY <3>2, RecompileResult DEF D
    <3>6. Rewired(WithNodes(Result(C), NamedBy(D)))
            = Rewired(WithNodes(workflow, NamedBy(C) \cup NamedBy(D)))
      BY <3>3, RewiredAgain
    <3> QED
      BY <3>1, <3>4, <3>5, <3>6 DEF C, D
  <2>5. /\ <<a>> \in Seq(Classification) /\ <<b>> \in Seq(Classification)
        /\ <<a, b>> \in Seq(Classification) /\ <<b, a>> \in Seq(Classification)
    OBVIOUS
  <2>6. /\ Members(<<a>>) = {a} /\ Members(<<b>>) = {b}
        /\ Members(<<a, b>>) = {a, b} /\ Members(<<b, a>>) = {a, b}
    <3>1. 1..1 = {1} /\ 1..2 = {1, 2}
      OBVIOUS
    <3>2. \A x : Len(<<x>>) = 1 /\ <<x>>[1] = x
      OBVIOUS
    <3>3. \A x, y : Len(<<x, y>>) = 2 /\ <<x, y>>[1] = x /\ <<x, y>>[2] = y
      OBVIOUS
    <3>4. \A x : Members(<<x>>) = {x}
      BY <3>1, <3>2
    <3>5. \A x, y : Members(<<x, y>>) = {x, y}
      BY <3>1, <3>3
    <3>6. {b, a} = {a, b}
      OBVIOUS
    <3> HIDE DEF Members
    <3> QED
      BY <3>4, <3>5, <3>6
  <2> HIDE DEF Result, Members
  <2>7. Recompile(Recompile(workflow, <<a>>), <<b>>) = Result({a, b})
    <3>1. {a} \cup {b} = {a, b}
      OBVIOUS
    <3>2. Recompile(Recompile(workflow, <<a>>), <<b>>)
            = Result(Members(<<a>>) \cup Members(<<b>>))
      BY <2>4, <2>5
    <3> QED
      BY <2>6, <3>1, <3>2
  <2>8. Recompile(workflow, <<a, b>>) = Result({a, b}) /\ Recompile(workflow, <<b, a>>) = Result({a, b})
    BY <2>3, <2>5, <2>6
  <2>9. Recompile(Recompile(workflow, <<a, b>>), <<a, b>>) = Result({a, b})
    <3>1. {a, b} \cup {a, b} = {a, b}
      OBVIOUS
    <3>2. Recompile(Recompile(workflow, <<a, b>>), <<a, b>>)
            = Result(Members(<<a, b>>) \cup Members(<<a, b>>))
      BY <2>4, <2>5
    <3> QED
      BY <2>6, <3>1, <3>2
  <2> QED
    BY <2>7, <2>8, <2>9
<1> QED
  BY <1>1, SpecDagInv, PTL
=============================================================================
