CONSTANTS
  t1 = t1
  t2 = t2
  a = a
  w1 = w1
  w2 = w2
  s1 = s1
  s2 = s2
  c1 = c1
  c2 = c2
  u1 = u1
  u2 = u2
  NoTask = NoTask
  Tasks = {t1, t2}
  Tenants = {a}
  Workers = {w1, w2}
  Slots = {s1}
  Configs = {c1, c2}
  Urls = {u1, u2}
  TaskTenant <- OneTenant
  TaskConfig <- OwnConfig
  ConfigUrl <- OwnUrl
  SlotWorker <- SlotsOne
  Cap <- CapTwo
  SlowPasses = FALSE
  LostReplies = TRUE
  Crashes = FALSE
  Expiry = FALSE
SPECIFICATION LiveSpec
INVARIANTS
  OwnedRuns
PROPERTIES
  ParkedDrains
  AcceptedSettles
CHECK_DEADLOCK FALSE
