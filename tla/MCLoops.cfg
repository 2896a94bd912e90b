SPECIFICATION LoopSpec
CONSTANTS
  None = None
  MaxInits = 1
  Node <- Nodes
  Position <- PositionOf
  DependsOn <- Dependencies
  AllowSkipped <- Skippable
  Agent <- AgentOf
  Mutable <- MutableNodes
  Retryable <- RetryableNodes
  MaxRetries <- RetryLimit
  Conditional <- ConditionalNodes
  GlobalLimit = 3
  MutableLimit = 2
  ReadOnlyLimit = 1
  RoleLimit <- RoleLimits
  Owner = {"scheduler", "operator"}
  Path <- Nodes
  OwnPath <- OwnPaths
  DeclaredPath <- DeclaredPaths
  Branch <- Nodes
  OwnBranch <- OwnPaths
  DeclaredBranch <- DeclaredBranches
  Tables <- AllTables
INVARIANTS
  CycleSearchIsExact
PROPERTIES
  RunHasTheDefinedOutcome
CHECK_DEADLOCK FALSE
