SPECIFICATION LiveSpec
CONSTANTS
  Client = {c1, c2, c3}
  Sandbox = {b1}
  MaxClients = 1
  MaxLane = 1
  MaxAttempts = 2
  IdlePolls = 2
  None = None
INVARIANTS DrainedIdle NoOrphan
PROPERTIES DaemonEnds IdleDaemonExits
