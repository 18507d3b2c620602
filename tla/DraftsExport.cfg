SPECIFICATION Spec
CONSTANTS
  w1 = w1
  t1 = t1
  t2 = t2
  s1 = s1
  s2 = s2
  Slot = {s1, s2}
  Worker = {w1}
  Tab = {t1, t2}
  SpareSlots = 0
  MaxVersions = 1
  MaxAttempts = 2
  Op = {"upload", "download", "delete"}
  Env = {"race"}
CHECK_DEADLOCK FALSE
INVARIANTS RenderingsDieToo
