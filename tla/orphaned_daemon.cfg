SPECIFICATION Spec
SYMMETRY Symmetry
CONSTANTS
  Client = {c1, c2}
  OtherBuild = {}
  Daemon = {d1, d2}
  MaxFaults = 1
  None = None
INVARIANT UsedIsRecorded
