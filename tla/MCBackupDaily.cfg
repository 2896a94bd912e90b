SPECIFICATION Spec
CONSTANTS
  Proc = {p1, p2}
  Documents <- ExampleDocument
  Environments <- Started
  TicksPerSecond = 2
  MaxClock = 2
  MaxCommands = 4
  MaxBackups = 2
  MaxCutShort = 1
  None = None
SYMMETRY Procs
INVARIANT DailyBackupRuns
CHECK_DEADLOCK FALSE
