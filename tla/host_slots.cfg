SPECIFICATION MCSpec
CONSTANTS
  d1 = d1
  d2 = d2
  r1 = r1
  r2 = r2
  s1 = s1
  s2 = s2
  Sandbox = {s1, s2}
  Daemon = {d1, d2}
  Runner = {r1, r2}
  Forcing = {r1}
  Phase = Phase
  Foreign = Foreign
  NoOne = NoOne
  VmLimit = 2
  OpLimit = 3
  FaultLimit = 2
  VM_WATCHDOG_GONE_CONFIRMATIONS = 2
  Owner = {o1, o2, o3}
  SlotCount = 4
  None = None
CHECK_DEADLOCK FALSE
INVARIANTS
  Exclusive
PROPERTIES
  ForeignSpared
  PeerSpared
  ProofKept
  StopObeyed
  DeadVmReleased
  PhaseEnds
