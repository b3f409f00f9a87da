SPECIFICATION MCSpec
CONSTANTS
  Stream = {"out", "err"}
  OutCapacity = 2
  WireCapacity = 1
  MaxIn = 2
  InCapacity = 1
  e1 = e1
  e2 = e2
  Exec = {e1, e2}
  GuestStream = {"out"}
  NoExec = NoExec
  MaxOut = 2
  MaxFrames = 2
  MAX_CONCURRENT_PREAUTH = 1
CHECK_DEADLOCK FALSE
INVARIANTS
  WholeOutput
  NoCutShortInput
  ReadyIsClean
PROPERTIES
  OwnResult
