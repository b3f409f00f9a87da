SPECIFICATION MCSpec
SYMMETRY Symmetry
CONSTANTS
  s1 = s1
  s2 = s2
  Session = {s1, s2}
  Client = {c1, c2, c3}
  Sandbox = {b1}
  Token = {t1, t2}
  SlotCount = 2
  MaxStray = 0
  MaxReleases = 1
  None = None
CHECK_DEADLOCK FALSE
INVARIANTS
  BorrowedHandlesLive
  SdkOutlivesBorrowers
  OneOwnerPerReply
  OneRunPerContainer
PROPERTY ExecResultKept
