SPECIFICATION FairSpec
CONSTANTS
  None = None
  Torn = Torn
  Process = {r1, r2}
  Decision <- Decisions
  MaxOutside = 1
INVARIANTS
  AuditTrail
  AnsweredMeansDecided
  DecisionsAreRecorded
PROPERTIES
  LedgerSpec
  ShutdownCompletes
  HandlersSettle
CHECK_DEADLOCK FALSE
