SPECIFICATION LiveSpec
CONSTANTS
  Client = {c1, c2}
  OtherBuild = {c2}
  Daemon = {d1, d2, d3}
  MaxFaults = 1
  None = None
INVARIANTS
  OneDaemon
  TeardownUnseen
PROPERTY ConnectEnds
