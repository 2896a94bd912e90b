----------------------------- MODULE DynamicDag -----------------------------
(***************************************************************************)
(* The compiled workflow of a task: dag:input turns the evidence into      *)
(* signals, dag:compile builds runs/<task>/compiled-workflow.json from     *)
(* them, failures are recorded and classified, and dag:feedback extends    *)
(* the workflow.  The scripts run one at a time, in any order; the file    *)
(* dag:input writes is read by dag:compile only, and the two are one step. *)
(*                                                                         *)
(* A workflow is a function from its node ids to their dependencies.  The  *)
(* other node fields are copied from a catalog.                            *)
(***************************************************************************)
EXTENDS Integers, Sequences, FiniteSets

CONSTANTS
  Risk,          \* the risk levels an impact analysis may report
  Always,        \* dag-policy.json, defaults: the nodes of every workflow with code,
  TestForCodeChanges,              \* whether code branches are tested,
  IntegrationForParallelBranches,  \* and whether several of them are joined
  RiskNodes,     \* dag-policy.json: risk level -> the nodes it adds
  AddNodes,      \* feedback-policy.json: class -> addNodes of a "replan", in order;
                 \* empty for another action, and for a class it does not list
  Catalog,       \* node-catalog.json: the ids of the entries whose own fields (agent,
                 \* artifacts, retries) validateWorkflow has nothing against
  FixCatalog,    \* node-catalog-feedback.json: the ids
  MaxEvents      \* bound: failures recorded for the task

Changes == {"backend", "frontend", "migration", "playwright", "security-review"}

Branches == {"backend", "frontend", "migration"}

\* The signals of dag:input.  Five of them stand for the node each adds.
Signals == [docsOnly : BOOLEAN, adds : SUBSET Changes, risk : Risk]

\* The ids compileDag selects by itself.
CompilerNodes ==
  {"planner", "impact", "docs", "integration", "test", "review", "pr"} \cup Changes

\* What feedback-classify makes of a failure.
Classification ==
  {"ui-regression", "architecture-violation", "security-finding", "migration-failure",
   "unexpected-impact", "test-regression", "transient", "unknown"}

\* The catalogs are JSON objects, and none has an id of the other.
ASSUME CatalogAssumption ==
  /\ IsFiniteSet(Catalog) /\ IsFiniteSet(FixCatalog)
  /\ CompilerNodes \subseteq Catalog
  /\ FixCatalog \cap Catalog = {}

ASSUME PolicyAssumption ==
  /\ TestForCodeChanges \in BOOLEAN /\ IntegrationForParallelBranches \in BOOLEAN
  /\ DOMAIN RiskNodes = Risk
  /\ AddNodes \in [Classification -> Seq(Catalog \cup FixCatalog)]
  /\ MaxEvents \in Nat

\* A policy whose workflows are complete: what it names is in the catalog, and
\* the lifecycle nodes are there at every risk level.
PolicyIsComplete ==
  \A r \in Risk : /\ Always \cup RiskNodes[r] \subseteq Catalog
                 /\ {"planner", "review", "pr"} \subseteq Always \cup RiskNodes[r]

\* A policy that has code verified.  compileDag takes the risk rules last, when it
\* has decided on test and integration: a branch they add would not be counted.
PolicyVerifiesCode ==
  /\ TestForCodeChanges /\ IntegrationForParallelBranches
  /\ \A r \in Risk : RiskNodes[r] \cap Branches = {}

VARIABLES
  refused,       \* the last dag:compile ended with an error
  workflow,      \* compiled-workflow.json: id -> dependencies; empty: no file
  events,        \* shared/<task>/feedback: the failures, in file order
  classified     \* how many of them have been classified

dagVars == <<refused, workflow, events, classified>>

-----------------------------------------------------------------------------
(* compileDag *)

\* Mutant: the join is added from the third branch on.
SelectedLateJoin(sig) ==
  IF sig.docsOnly THEN {"planner", "docs", "review", "pr"}
  ELSE LET asked == Always \cup sig.adds
           branches == asked \cap Branches
       IN  asked \cup RiskNodes[sig.risk]
             \cup (IF TestForCodeChanges /\ branches # {} THEN {"test"} ELSE {})
             \cup (IF IntegrationForParallelBranches /\ Cardinality(branches) > 2
                   THEN {"integration"} ELSE {})

Selected(sig) ==
  IF sig.docsOnly THEN {"planner", "docs", "review", "pr"}
  ELSE LET asked == Always \cup sig.adds
           branches == asked \cap Branches
       IN  asked \cup RiskNodes[sig.risk]
             \cup (IF TestForCodeChanges /\ branches # {} THEN {"test"} ELSE {})
             \cup (IF IntegrationForParallelBranches /\ Cardinality(branches) > 1
                   THEN {"integration"} ELSE {})

Verification == {"test", "playwright", "security-review"}

\* The ids of code branches; only a policy can select "database".
CodeBranches == Branches \cup {"database"}

\* The selected members of the first set of candidates that has any.
FirstSelected(candidates, selected) ==
  UNION {candidates[i] \cap selected :
           i \in {k \in DOMAIN candidates :
                    \A j \in 1..k - 1 : candidates[j] \cap selected = {}}}

\* Mutant: the join waits for all three branches, selected or not.
SelectedDependenciesUnfiltered(id, selected) ==
  CASE id = "impact" -> {"planner"} \cap selected
    [] id \in CodeBranches \cup {"docs"} ->
         FirstSelected(<<{"impact"}, {"planner"}>>, selected \cup {"planner"})
    [] id = "integration" -> Branches
    [] id \in {"test", "security-review"} ->
         FirstSelected(<<{"integration"}, CodeBranches>>, selected)
    [] id = "playwright" -> FirstSelected(<<{"integration"}, {"frontend"}>>, selected)
    [] id = "review" ->
         FirstSelected(<<Verification, {"integration"}, CodeBranches \cup {"docs"},
                         {"impact"}, {"planner"}>>, selected \cup {"planner"})
    [] id = "pr" -> {"review"} \cap selected
    [] OTHER -> {}

\* Where nothing better was selected planner is taken, selected or not.
SelectedDependencies(id, selected) ==
  CASE id = "impact" -> {"planner"} \cap selected
    [] id \in CodeBranches \cup {"docs"} ->
         FirstSelected(<<{"impact"}, {"planner"}>>, selected \cup {"planner"})
    [] id = "integration" -> CodeBranches \cap selected
    [] id \in {"test", "security-review"} ->
         FirstSelected(<<{"integration"}, CodeBranches>>, selected)
    [] id = "playwright" -> FirstSelected(<<{"integration"}, {"frontend"}>>, selected)
    [] id = "review" ->
         FirstSelected(<<Verification, {"integration"}, CodeBranches \cup {"docs"},
                         {"impact"}, {"planner"}>>, selected \cup {"planner"})
    [] id = "pr" -> {"review"} \cap selected
    [] OTHER -> {}

CompileDag(sig) ==
  [id \in Selected(sig) |-> SelectedDependencies(id, Selected(sig))]

-----------------------------------------------------------------------------
(* validateWorkflow, the errors that depend on the graph; the fields of a  *)
(* node are its catalog entry's, and the limits of the pool are valid.     *)

\* cycleErrors: a nonempty set of nodes has a member with no dependency in it.
\* That its search decides this is proved of CycleSearch.
HasNoCycle(wf) ==
  \A S \in SUBSET DOMAIN wf : S # {} => \E n \in S : wf[n] \cap S = {}

ValidateWorkflow(wf) ==
  /\ \A n \in DOMAIN wf : wf[n] \subseteq DOMAIN wf       \* missing-dependency
  /\ HasNoCycle(wf)                                       \* cycle
  /\ {"planner", "review", "pr"} \subseteq DOMAIN wf      \* missing-lifecycle-node

\* What compileDag may be asked for, and what of it is written to the file.
Compilations == {CompileDag(sig) : sig \in Signals}

Accepted == {wf \in Compilations : DOMAIN wf \subseteq Catalog /\ ValidateWorkflow(wf)}

-----------------------------------------------------------------------------
(* feedback-classify: where a failure was seen, and the words its text has *)
(* ("ui" as a part of any word), give the first classification that fits.  *)
Source == {"playwright", "architecture", "security", "migration", "graph",
           "unit", "review"}

Hint == {"ui", "boundary", "vulnerability", "schema", "blast radius", "test", "timeout"}

Classify(source, hints) ==
  LET fits == <<
        <<source = "playwright"   \/ "ui" \in hints,            "ui-regression">>,
        <<source = "architecture" \/ "boundary" \in hints,      "architecture-violation">>,
        <<source = "security"     \/ "vulnerability" \in hints, "security-finding">>,
        <<source = "migration"    \/ "schema" \in hints,        "migration-failure">>,
        <<source = "graph"        \/ "blast radius" \in hints,  "unexpected-impact">>,
        <<source = "unit"         \/ "test" \in hints,          "test-regression">>,
        <<"timeout" \in hints,                                  "transient">>,
        <<TRUE,                                                 "unknown">> >>
      first == CHOOSE i \in 1..8 : fits[i][1] /\ \A j \in 1..i - 1 : ~ fits[j][1]
  IN  fits[first][2]

-----------------------------------------------------------------------------
(* dag-recompile-feedback *)

FixNodes == {"fix", "security-fix", "migration-fix", "impact-refresh"}

\* Mutant: a fix comes after the fixes before it.
NewDependenciesChained(id, wf) ==
  CASE id = "impact-refresh" -> {"impact"} \cap DOMAIN wf
    [] id \in FixNodes \ {"impact-refresh"} ->
         FirstSelected(<<Verification \cup {"review"} \cup FixNodes,
                         Branches \cup {"integration"}>>, DOMAIN wf)
    [] OTHER -> {}

NewDependencies(id, wf) ==
  CASE id = "impact-refresh" -> {"impact"} \cap DOMAIN wf
    [] id \in FixNodes \ {"impact-refresh"} ->
         FirstSelected(<<Verification \cup {"review"}, Branches \cup {"integration"}>>,
                       DOMAIN wf)
    [] OTHER -> {}

\* A node the workflow has, or the feedback catalog has not, is passed over.
AddNode(wf, id) ==
  IF id \in DOMAIN wf \/ id \notin FixCatalog THEN wf
  ELSE [n \in DOMAIN wf \cup {id} |-> IF n = id THEN NewDependencies(id, wf) ELSE wf[n]]

\* The ids of one rule, and the rules of all the failures, in order.
AddRule(wf, ids) ==
  LET added[k \in 0..Len(ids)] == IF k = 0 THEN wf ELSE AddNode(added[k - 1], ids[k])
  IN  added[Len(ids)]

AddRules(wf, classes) ==
  LET added[k \in 0..Len(classes)] ==
        IF k = 0 THEN wf ELSE AddRule(added[k - 1], AddNodes[classes[k]])
  IN  added[Len(classes)]

\* The fixes come before review, and review before pr.
Rewired(wf) ==
  [n \in DOMAIN wf |->
     CASE n = "review" -> wf[n] \cup (FixNodes \cap DOMAIN wf)
       [] n = "pr" -> {"review"}
       [] OTHER -> wf[n]]

Recompile(wf, classes) == Rewired(AddRules(wf, classes))

-----------------------------------------------------------------------------
DagInit ==
  /\ refused = FALSE
  /\ workflow = [n \in {} |-> {}]
  /\ events = <<>>
  /\ classified = 0

\* dag:input and dag:compile: the impact analysis and the business graph may
\* say anything.  A valid workflow overwrites the old one.
Compile ==
  /\ \E wf \in Compilations :
       /\ workflow' = IF wf \in Accepted THEN wf ELSE workflow
       /\ refused' = (wf \notin Accepted)
  /\ UNCHANGED <<events, classified>>

\* feedback:record, for a failure.  Of its text only what the classification
\* will make of it is kept.
Record ==
  /\ Len(events) < MaxEvents
  /\ \E source \in Source, hints \in SUBSET Hint :
       events' = Append(events, [source |-> source, class |-> Classify(source, hints)])
  /\ UNCHANGED <<refused, workflow, classified>>

\* feedback:classify
ClassifyEvents ==
  /\ classified' = Len(events)
  /\ UNCHANGED <<refused, workflow, events>>

\* dag:feedback: events are never consumed, the workflow is not validated.
ClassifiedClasses == [i \in 1..classified |-> events[i].class]

ApplyFeedback ==
  /\ DOMAIN workflow # {}
  /\ events # <<>>
  /\ workflow' = Recompile(workflow, ClassifiedClasses)
  /\ UNCHANGED <<refused, events, classified>>

DagNext == Compile \/ Record \/ ClassifyEvents \/ ApplyFeedback

DagSpec == DagInit /\ [][DagNext]_dagVars

-----------------------------------------------------------------------------
(* Whatever the signals say, alone or together, with the policy of the     *)
(* repository the compiler finds a workflow the validation accepts: no     *)
(* combination refers to a node that was not selected, or closes a cycle   *)
(* (selectedDependencies).                                                 *)
CompileIsAccepted == ~ refused

\* The nodes n waits for, directly or not.
Upstream(wf, n) ==
  LET reach[k \in 0..Cardinality(DOMAIN wf)] ==
        IF k = 0 THEN wf[n]
        ELSE LET near == reach[k - 1]
             IN  near \cup UNION {wf[d] : d \in near \cap DOMAIN wf}
  IN  reach[Cardinality(DOMAIN wf)]

(* Verification cannot be bypassed: in a workflow with code branches, after*)
(* any feedback, each branch is upstream of test and of the security       *)
(* review if there is one; both are upstream of review and review of pr;   *)
(* parallel branches are joined before anything verifies them.             *)
CodeIsVerified ==
  LET branches == Branches \cap DOMAIN workflow
  IN  branches # {} =>
        /\ "test" \in DOMAIN workflow
        /\ "review" \in workflow["pr"]
        /\ \A v \in {"test", "security-review"} \cap DOMAIN workflow :
             /\ branches \subseteq Upstream(workflow, v)
             /\ v \in Upstream(workflow, "review")
             /\ Cardinality(branches) > 1 =>
                  /\ "integration" \in Upstream(workflow, v)
                  /\ branches \subseteq Upstream(workflow, "integration")

(* Feedback may be applied in any order, one failure at a time or together,*)
(* and again: dag:feedback keeps every event and runs on all of them each  *)
(* time, so the workflow must not depend on how often it ran and when.     *)
FeedbackIsOrderFree ==
  DOMAIN workflow # {} =>
    \A a, b \in Classification :
      LET both == Recompile(workflow, <<a, b>>)
      IN  /\ Recompile(Recompile(workflow, <<a>>), <<b>>) = both
          /\ Recompile(workflow, <<b, a>>) = both
          /\ Recompile(both, <<a, b>>) = both

=============================================================================
