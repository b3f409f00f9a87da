SPECIFICATION PollSpec
CONSTANTS
  Session = {s1, s2}
  Client = {c1}
  Sandbox = {}
  Token = {}
  SlotCount = 2
  MaxStray = 0
  MaxReleases = 2
  None = None
CHECK_DEADLOCK FALSE
PROPERTY DeferredBootsEnd
PROPERTY IdleSessionsReleased
