SPECIFICATION ExecSpec
CONSTANTS
  Exec = {e1}
  GuestStream = {"out"}
  NoExec = NoExec
  MaxOut = 1
  MaxFrames = 2
  MAX_CONCURRENT_PREAUTH = 1
CHECK_DEADLOCK FALSE
INVARIANT StdinInOrder
