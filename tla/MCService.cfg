CONSTANTS
  r1 = r1
  k1 = k1
  NoKey = NoKey
  t1 = t1
  t2 = t2
  s1 = s1
  u1 = u1
  u2 = u2
  u3 = u3
  d1 = d1
  Turns = 4
  TokenCap = 2
  MaxCalls = 2
  MaxRejects = 2
  MaxCompactions = 1
  Queries <- Searches
  NormOf <- Normal
  Urls = {u1, u2, u3}
  DomainOf <- Domain
  VisitCap = 1
  Watched = {t1, t2}
  Streams = {s1}
  MaxEntries = 1
  CacheTtl = 2
  PollInterval = 1
  MaxDuration = 2
  MaxVersion = 3
  TroubleSets = {{}, {"outage"}, {"redo"}}
SPECIFICATION ServiceSpec
INVARIANTS
  DialogPaired
  GradeMatches
  NoSilentEmpty
  NothingTwice
  CostWall
  CacheBounded
  ShownRecent
PROPERTIES
  NoLockout
  ReadsForward
  RunsAndStreamsEnd
CHECK_DEADLOCK FALSE
