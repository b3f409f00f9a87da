SPECIFICATION Spec
SYMMETRY Symmetry
CONSTANTS
  Session = {s1, s2}
  Client = {c1, c2}
  Sandbox = {}
  Token = {}
  SlotCount = 3
  MaxStray = 1
  MaxReleases = 1
  None = None
CHECK_DEADLOCK FALSE
INVARIANTS
  TypeOK
  SlotExclusive
  SlotsAccounted
  ReplayFindsSession
PROPERTY PoolImplemented
