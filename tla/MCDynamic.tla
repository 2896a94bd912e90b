----------------------------- MODULE MCDynamic ------------------------------
(***************************************************************************)
(* dag-policy.json, feedback-policy.json and the two node catalogs of the  *)
(* repository, for DynamicDag.                                             *)
(***************************************************************************)
EXTENDS DynamicDag, TLC

AlwaysNodes == {"planner", "impact", "review", "pr"}

AllRisks == {"unknown", "low", "medium", "high", "critical"}

RiskRules ==
  [r \in Risk |-> IF r \in {"high", "critical"} THEN {"security-review", "test"} ELSE {}]

Rules ==
  ("transient" :> <<>>) @@ ("unknown" :> <<>>) @@
  ("test-regression" :> <<"fix">>) @@
  ("ui-regression" :> <<"fix", "playwright">>) @@
  ("architecture-violation" :> <<"fix", "review">>) @@
  ("unexpected-impact" :> <<"impact-refresh", "fix">>) @@
  ("security-finding" :> <<"security-fix", "security-review">>) @@
  ("migration-failure" :> <<"migration-fix", "test">>)

NodeCatalog ==
  {"planner", "impact", "backend", "frontend", "migration", "docs", "integration",
   "test", "playwright", "security-review", "review", "pr"}

FeedbackCatalog == {"fix", "impact-refresh", "security-fix", "migration-fix"}

\* The policy is one the theorems about compileDag speak of.
ASSUME ShippedPolicy == PolicyIsComplete /\ PolicyVerifiesCode
=============================================================================
