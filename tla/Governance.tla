----------------------------- MODULE Governance -----------------------------
(***************************************************************************)
(* harness:dag:input, :risk, :policy, :approval:request, :approval:decide  *)
(* (file mode) and :approval:gate.  Each is a process of its own that      *)
(* reads one file of the task's shared directory and writes the next one   *)
(* (impact.json -> dag-input.json; both -> change-risk.json ->             *)
(* policy-decision.json -> approval.json); agents rewrite impact.json      *)
(* whenever they like.  A process is cut between its read and its write,   *)
(* the gate between its two reads.  path-check writes                      *)
(* protected-paths.json, which no process reads.                           *)
(*                                                                         *)
(* The pairs of names the code treats alike (dropTable, dropColumn, ...)   *)
(* are one signal.  The number of a command stands for the time it writes. *)
(* "basis" in policy-decision.json is history: what it was made from.      *)
(***************************************************************************)
EXTENDS Naturals

CONSTANTS
  Proc,
  Impacts,              \* what agents may write: a set of [signals, risk]
  FeatureRisk,          \* the risk of the task's feature in the business graph, or None
  automationModes,      \* policy.json: risk level -> decision
  approvalRequiredFor,  \* policy.json: signals
  MaxWrites,            \* bound: rewritings of impact.json
  MaxCommands,          \* bound: commands started
  None

Boundary == {"authBoundaryChange", "permissionModelChange",
             "secretOrCredentialChange", "publicContractBreakingChange"}

Signal == Boundary \cup {"destructiveDatabaseChange", "productionDeployment",
                         "protectedPathChange"}

Level == {"low", "medium", "high", "critical", "unknown"}
Automatic == {"auto", "auto-with-gates"}

ASSUME GovernanceConstants ==
  /\ Impacts \subseteq [signals : SUBSET Signal, risk : Level \cup {None}]
  /\ FeatureRisk \in Level \cup {None} /\ None \notin Level
  /\ automationModes \in
       [Level \ {"unknown"} -> Automatic \cup {"approval-required", "manual-only"}]
  /\ approvalRequiredFor \subseteq Signal \ {"protectedPathChange"}
  /\ None \notin [signals : SUBSET Signal, risk : Level \cup {None}]

VARIABLES
  impact, dagRisk,  \* impact.json; the risk in dag-input.json, or None
  risk,             \* change-risk.json, or None
  policy,           \* policy-decision.json, or None
  approval,         \* approval.json, or None
  protectedPaths,   \* protected-paths.json: does it report a change
  proc,             \* what each process is doing
  writes, commands, \* bounded counters
  granted,          \* history: requests a person has decided to approve
  passes            \* history: [policy, approval] the gate has passed with

vars == <<impact, dagRisk, risk, policy, approval, protectedPaths, proc,
          writes, commands, granted, passes>>

Idle == [pc |-> "idle"]

Init ==
  /\ impact \in Impacts /\ dagRisk = None
  /\ risk = None /\ policy = None /\ approval = None
  /\ protectedPaths = FALSE
  /\ proc = [p \in Proc |-> Idle] /\ writes = 0 /\ commands = 0
  /\ granted = {} /\ passes = {}

-----------------------------------------------------------------------------
(* What the commands compute. *)

DagRisk(i) ==
  IF i.risk # None THEN i.risk ELSE IF FeatureRisk # None THEN FeatureRisk ELSE "unknown"

Declared(i, d) == IF d # None THEN d ELSE IF i.risk # None THEN i.risk ELSE "medium"

RiskOf(i, d) ==
  CASE "destructiveDatabaseChange" \in i.signals -> "critical"
    [] "destructiveDatabaseChange" \notin i.signals /\ i.signals \cap Boundary # {} ->
         IF Declared(i, d) = "critical" THEN "critical" ELSE "high"
    [] OTHER -> IF "protectedPathChange" \in i.signals /\ Declared(i, d) = "low"
                  THEN "medium" ELSE Declared(i, d)

ApprovalReasons(r) == r.signals \cap approvalRequiredFor

\* "unknown" is in no policy.
Mode(level) ==
  IF level = "unknown" THEN "approval-required" ELSE automationModes[level]

\* Mutant: the signals are not looked at, the risk level decides.
DecisionByLevel(r) == Mode(r.level)

Decision(r) ==
  IF ApprovalReasons(r) = {} THEN Mode(r.level)
  ELSE IF r.level = "critical" THEN "manual-only" ELSE "approval-required"

RiskEvaluation(i, d) == [signals |-> i.signals, level |-> RiskOf(i, d)]
PolicyDecision(r) == [decision |-> Decision(r), scope |-> ApprovalReasons(r), basis |-> r]
Decided(a, decision) ==
  [decision |-> decision, scope |-> a.scope, requestedAt |-> a.requestedAt]

ApprovalRequest(d, now) == [decision |-> "pending", scope |-> d.scope, requestedAt |-> now]

-----------------------------------------------------------------------------
(* The processes. *)

\* What the commands but path-check only read, and the bound on its rewriting.
Inputs == <<impact, protectedPaths, writes>>

WriteImpact ==
  /\ writes < MaxWrites /\ writes' = writes + 1
  /\ impact' \in Impacts
  /\ UNCHANGED <<dagRisk, risk, policy, approval, proc, commands, granted, passes, protectedPaths>>

\* A command reads its input, or ends at once where it is missing.
Read(p, pc, input) ==
  /\ proc[p] = Idle /\ commands < MaxCommands /\ commands' = commands + 1
  /\ input # None
  /\ proc' = [proc EXCEPT ![p] = [pc |-> pc, input |-> input, now |-> commands']]
  /\ UNCHANGED <<Inputs, dagRisk, risk, policy, approval, passes>>

\* path-check: the changed files against policy.protectedPaths, or an error
\* of git diff; its result does not reach risk-evaluate.
PathCheck ==
  /\ commands < MaxCommands /\ commands' = commands + 1
  /\ protectedPaths' \in BOOLEAN
  /\ UNCHANGED <<impact, dagRisk, risk, policy, approval, proc, writes, granted, passes>>

StartDagInput(p) == Read(p, "dagInput", DagRisk(impact)) /\ UNCHANGED granted
StartRisk(p) == Read(p, "risk", RiskEvaluation(impact, dagRisk)) /\ UNCHANGED granted
StartPolicy(p) == Read(p, "policy", risk) /\ UNCHANGED granted
StartRequest(p) == Read(p, "request", policy) /\ UNCHANGED granted
StartGate(p) == Read(p, "gate", policy) /\ UNCHANGED granted

\* The decision of a person, on the request that is in the file now.
StartDecide(p) ==
  \E decision \in {"approved", "rejected"} :
    /\ approval # None
    /\ Read(p, "decide", Decided(approval, decision))
    /\ granted' = IF decision = "approved"
                    THEN granted \cup {Decided(approval, "pending")}
                    ELSE granted

At(p, pc) == proc[p].pc = pc /\ proc' = [proc EXCEPT ![p] = Idle]
Input(p) == proc[p].input

WriteDagInput(p) ==
  /\ At(p, "dagInput") /\ dagRisk' = Input(p)
  /\ UNCHANGED <<Inputs, risk, policy, approval, commands, granted, passes>>

WriteRisk(p) ==
  /\ At(p, "risk") /\ risk' = Input(p)
  /\ UNCHANGED <<Inputs, dagRisk, policy, approval, commands, granted, passes>>

WritePolicy(p) ==
  /\ At(p, "policy") /\ policy' = PolicyDecision(Input(p))
  /\ UNCHANGED <<Inputs, dagRisk, risk, approval, commands, granted, passes>>

\* Mutant: an earlier decision is kept when the request is made again.
WriteRequestKept(p) ==
  /\ At(p, "request")
  /\ approval' = [ApprovalRequest(Input(p), proc[p].now) EXCEPT
                    !.decision = IF approval = None THEN @ ELSE approval.decision]
  /\ UNCHANGED <<Inputs, dagRisk, risk, policy, commands, granted, passes>>

WriteRequest(p) ==
  /\ At(p, "request") /\ approval' = ApprovalRequest(Input(p), proc[p].now)
  /\ UNCHANGED <<Inputs, dagRisk, risk, policy, commands, granted, passes>>

WriteDecision(p) ==
  /\ At(p, "decide") /\ approval' = Input(p)
  /\ UNCHANGED <<Inputs, dagRisk, risk, policy, commands, granted, passes>>

\* The gate passes on the decision it has read, or on what approval.json says.
Gate(p) ==
  /\ At(p, "gate")
  /\ passes' =
       IF Input(p).decision \in Automatic THEN passes \cup {[policy |-> Input(p), approval |-> None]}
       ELSE IF approval # None /\ approval.decision = "approved"
         THEN passes \cup {[policy |-> Input(p), approval |-> approval]}
       ELSE passes
  /\ UNCHANGED <<Inputs, dagRisk, risk, policy, approval, commands, granted>>

Kill(p) ==
  /\ proc[p] # Idle /\ proc' = [proc EXCEPT ![p] = Idle]
  /\ UNCHANGED <<Inputs, dagRisk, risk, policy, approval, commands, granted, passes>>

Next ==
  \/ WriteImpact \/ PathCheck
  \/ \E p \in Proc :
       \/ StartDagInput(p) \/ StartRisk(p) \/ StartPolicy(p) \/ StartRequest(p)
       \/ StartDecide(p) \/ StartGate(p) \/ WriteDagInput(p) \/ WriteRisk(p)
       \/ WritePolicy(p) \/ WriteRequest(p) \/ WriteDecision(p) \/ Gate(p) \/ Kill(p)

Spec == Init /\ [][Next]_vars

-----------------------------------------------------------------------------
(* What the gate lets pass without a person has no signal that policy.json *)
(* wants approved and no level that policy.json does not automate, by      *)
(* whatever interleaving of agents and commands the decision came about    *)
(* (risk-evaluate.mjs 24-64, policy-evaluate.mjs 20-42, approval-gate.mjs  *)
(* 16-22).                                                                 *)
AutoMeansHarmless ==
  \A q \in passes : q.policy.decision \in Automatic =>
    /\ q.policy.basis.signals \cap approvalRequiredFor = {}
    /\ Mode(q.policy.basis.level) \in Automatic

(* Everything else passes only on a request that a person has approved as  *)
(* it stands, and as long as the inputs have not been rewritten (which     *)
(* neither the request nor the gate would notice) that request has the     *)
(* scope of the decision the gate has read (approval-request.mjs 19-27,    *)
(* approval-decide.mjs 24-31, approval-gate.mjs 24-38).                    *)
PassIsApproved ==
  \A q \in passes : q.policy.decision \notin Automatic =>
    /\ Decided(q.approval, "pending") \in granted
    /\ writes = 0 => q.approval.scope = q.policy.scope
=============================================================================
