SPECIFICATION Spec
CONSTANTS
  w1 = w1
  t1 = t1
  s1 = s1
  s2 = s2
  s3 = s3
  Slot = {s1, s2, s3}
  Worker = {w1}
  Tab = {t1}
  SpareSlots = 0
  MaxVersions = 2
  MaxAttempts = 2
  Op = {"upload", "report"}
  Env = {"race"}
SYMMETRY Symmetry
CHECK_DEADLOCK FALSE
INVARIANTS ReportIsOfItsVersion
