CONSTANTS
  t1 = t1
  t2 = t2
  a = a
  w1 = w1
  w2 = w2
  s1 = s1
  s2 = s2
  c1 = c1
  c2 = c2
  u1 = u1
  u2 = u2
  NoTask = NoTask
  Tasks = {t1, t2}
  Tenants = {a}
  Workers = {w1, w2}
  Slots = {s1, s2}
  Configs = {c1}
  Urls = {u1}
  TaskTenant <- OneTenant
  TaskConfig <- OneConfig
  ConfigUrl <- OneUrl
  SlotWorker <- SlotEach
  Cap <- CapOne
  SlowPasses = FALSE
  LostReplies = FALSE
  Crashes = FALSE
  Expiry = TRUE
SPECIFICATION Spec
INVARIANTS
  ActiveWithinCap
  RunningIsHeld
PROPERTIES
  CompletedResolves
SYMMETRY Interchangeable
