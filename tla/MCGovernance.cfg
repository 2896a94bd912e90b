SPECIFICATION Spec
CONSTANTS
  Proc = {p1, p2}
  Impacts <- Written
  FeatureRisk = None
  automationModes <- Modes
  approvalRequiredFor <- RequiredFor
  MaxWrites = 1
  MaxCommands = 8
  None = None
SYMMETRY Procs
INVARIANTS
  AutoMeansHarmless
  PassIsApproved
CHECK_DEADLOCK FALSE
