SPECIFICATION Spec
CONSTANTS
  None = None
  MaxInits = 2
  Node <- Nodes
  Position <- PositionOf
  DependsOn <- Dependencies
  AllowSkipped <- Skippable
  Agent <- AgentOf
  Mutable <- MutableNodes
  Retryable <- RetryableNodes
  MaxRetries <- RetryLimit
  Conditional <- ConditionalNodes
  GlobalLimit = 2
  MutableLimit = 2
  ReadOnlyLimit = 1
  RoleLimit <- RoleLimits
  Owner = {"parallel-scheduler", "dynamic-scheduler"}
  Path <- Nodes
  OwnPath <- OwnPaths
  DeclaredPath <- DeclaredPaths
  Branch <- Nodes
  OwnBranch <- OwnPaths
  DeclaredBranch <- NothingDeclared
INVARIANTS
  DagDependencyOrder
  DagWorktreeIsolation
  NoReadyNodeIsPassedOver
PROPERTY
  SettledIsFinal
CHECK_DEADLOCK FALSE
