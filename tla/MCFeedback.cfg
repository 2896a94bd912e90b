SPECIFICATION FeedbackSpec
CONSTANTS
  None = None
  MaxInits = 2
  MaxResets = 2
  LifecycleEnd = {"review", "pr"}
  Node <- Nodes
  Position <- PositionOf
  DependsOn <- Dependencies
  AllowSkipped <- NoSkip
  Agent <- AgentOf
  Mutable = {"backend"}
  Retryable = {"backend", "test"}
  MaxRetries <- RetryLimit
  Conditional = {}
  GlobalLimit = 4
  MutableLimit = 2
  ReadOnlyLimit = 4
  RoleLimit <- RoleLimits
  Owner = {"dynamic-scheduler"}
  Path <- Nodes
  OwnPath <- OwnPaths
  DeclaredPath <- NothingDeclared
  Branch <- Nodes
  OwnBranch <- OwnPaths
  DeclaredBranch <- NothingDeclared
PROPERTIES
  FeedbackKeepsUpstream
  RequestsAreSentOnce
  LogSpec
CHECK_DEADLOCK FALSE
