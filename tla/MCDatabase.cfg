SPECIFICATION DatabaseSpec
CONSTANTS
  Proc = {p1, p2, p3}
  Owner = {a, b, c}
  LeaseSeconds = 2
  TtlSeconds = 1
  MaxClock = 3
  MaxCalls = 4
  Migrator = {m1, m2}
  Files = 2
  MaxActivity = 4
  None = None
INVARIANTS
  LatestGrantStands
  OwnersExclude
  OneAnswerPerKey
  SchemaIsWhole
  TablesAreThere
SYMMETRY Symmetry
CHECK_DEADLOCK FALSE
