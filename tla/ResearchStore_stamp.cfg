CONSTANTS
  p1 = p1
  p2 = p2
  p3 = p3
  i1 = i1
  i2 = i2
  i3 = i3
  None = None
  Procs = {p1, p2, p3}
  Api = p1
  Inodes = {i1, i2, i3}
  FaultSets = {{"redis"}}
SPECIFICATION Spec
INVARIANTS
  StampKept
CHECK_DEADLOCK FALSE
