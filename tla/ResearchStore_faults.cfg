CONSTANTS
  p1 = p1
  p2 = p2
  p3 = p3
  i1 = i1
  i2 = i2
  i3 = i3
  None = None
  Procs = {p1, p2, p3}
  Api = p1
  Inodes = {i1, i2, i3}
  FaultSets = {{"expiry", "redo"}, {"redis", "expiry", "redo"}, {"disk", "crash", "expiry", "redo"}, {"redis", "disk", "crash"}}
SPECIFICATION Spec
INVARIANTS
  TypeOK
  ReadsLatest
  NoTornRead
  FinishedIsDurable
PROPERTIES
  Refines
SYMMETRY Interchangeable
CHECK_DEADLOCK FALSE
