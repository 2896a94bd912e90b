SPECIFICATION MCSpec
CONSTANTS
  t1 = t1
  t2 = t2
  Task = {t1, t2}
  Proc = {p1, p2}
  Thread = {th1, th2}
  Stages <- Order
  Mutable = {"fix"}
  Conditional = {"fix"}
  Requires <- RequiresOf
  Produces <- ProducesOf
  Reports = {"report"}
  MaxCommands = 5
  None = None
INVARIANTS
  RequestsFollowEvidence
  QueueNeverAhead
  TurnOnLoadedThread
PROPERTIES
  HistoryIsKept
  CommandsEnd
CHECK_DEADLOCK FALSE
