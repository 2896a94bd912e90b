SPECIFICATION Spec
CONSTANTS
  Proc = {p1, p2}
  Documents <- SecretDocuments
  Environments <- Unit
  TicksPerSecond = 2
  MaxClock = 2
  MaxCommands = 4
  MaxBackups = 2
  MaxCutShort = 1
  None = None
SYMMETRY Procs
INVARIANTS
  FinishedBackupStays
  RestoredIsWhole
  PassfileIsTemporary
CHECK_DEADLOCK FALSE
