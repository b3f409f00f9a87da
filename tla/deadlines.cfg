SPECIFICATION DeadlineSpec
CONSTANTS
  Session = {s1}
  Client = {c1}
  Sandbox = {b1}
  Token = {t1}
  SlotCount = 2
  MaxStray = 1
  MaxReleases = 1
  None = None
CHECK_DEADLOCK FALSE
PROPERTY ProvisionsAnswered
PROPERTY ShutdownEnds
