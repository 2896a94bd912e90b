SPECIFICATION FairSpec
CONSTANTS
  None = None
  Retries = 1
  MaxInits = 1
  Node <- Nodes
  Position <- PositionOf
  DependsOn <- Dependencies
  AllowSkipped <- Skippable
  Agent <- AgentOf
  Mutable <- MutableNodes
  Retryable <- RetryableNodes
  MaxRetries <- RetryLimit
  Conditional <- ConditionalNodes
  GlobalLimit = 4
  MutableLimit = 2
  ReadOnlyLimit = 4
  RoleLimit <- RoleLimits
  Owner = {"parallel-scheduler"}
  Path <- Nodes
  OwnPath <- OwnPaths
  DeclaredPath <- NothingDeclared
  Branch <- Nodes
  OwnBranch <- OwnPaths
  DeclaredBranch <- NothingDeclared
INVARIANTS
  DagPoolRespected
  DeliveryGate
  FailureReachesDescendants
PROPERTIES
  TaskSettles
CHECK_DEADLOCK FALSE
