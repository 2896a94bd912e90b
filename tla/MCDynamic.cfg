SPECIFICATION DagSpec
CONSTANTS
  Risk <- AllRisks
  Always <- AlwaysNodes
  TestForCodeChanges = TRUE
  IntegrationForParallelBranches = TRUE
  RiskNodes <- RiskRules
  AddNodes <- Rules
  Catalog <- NodeCatalog
  FixCatalog <- FeedbackCatalog
  MaxEvents = 1
INVARIANTS
  CompileIsAccepted
  CodeIsVerified
  FeedbackIsOrderFree
