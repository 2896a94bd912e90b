SPECIFICATION Spec
CONSTANTS
  None = None
  Node <- Nodes
  Position <- PositionOf
  DependsOn <- Dependencies
  AllowSkipped <- NoneSkippable
  Agent <- AgentOf
  Mutable = {"a", "b"}
  Retryable = {"a"}
  MaxRetries <- RetryLimit
  Conditional = {}
  GlobalLimit = 2
  MutableLimit = 2
  ReadOnlyLimit = 1
  RoleLimit <- RoleLimits
  Owner = {"parallel-scheduler"}
  Path <- Nodes
  OwnPath <- OwnPaths
  DeclaredPath <- NothingDeclared
  Branch <- Nodes
  OwnBranch <- OwnPaths
  DeclaredBranch <- NothingDeclared
  Proc = {p1, p2}
  MaxCrashes <- Crashes
  MaxInits <- Inits
INVARIANTS
  FileLegal
  NoRequestLost
  AcceptedIsKept
SYMMETRY Processes
CHECK_DEADLOCK FALSE
