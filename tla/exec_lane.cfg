SPECIFICATION MCSpec
CONSTANTS
  Exec = {e1, e2}
  Feeds = {e1}
  ExecId = {i1}
  Other = {o1}
  Clients = 1
  Lane = 2
  Execs = 1
  None = None
CHECK_DEADLOCK FALSE
INVARIANTS
  CancelledByItsOwn
  RunsBounded
PROPERTY KillHasRoom
PROPERTY KillWorks
PROPERTY AbandonedRunEnds
