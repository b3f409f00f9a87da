SPECIFICATION EndsSpec
CONSTANTS
  Stream = {"out"}
  OutCapacity = 1
  WireCapacity = 1
  MaxIn = 1
  InCapacity = 1
CHECK_DEADLOCK FALSE
PROPERTY InterruptedRunEnds
PROPERTY ClientAnswered
PROPERTY StdinReleased
