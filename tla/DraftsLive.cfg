SPECIFICATION FairSpec
CONSTANTS
  w1 = w1
  t1 = t1
  s1 = s1
  s2 = s2
  s3 = s3
  s4 = s4
  Slot = {s1, s2, s3, s4}
  Worker = {w1}
  Tab = {t1}
  SpareSlots = 2
  MaxVersions = 1
  MaxAttempts = 2
  Op = {"upload", "download", "export", "delete"}
  Env = {"crash"}
CHECK_DEADLOCK FALSE
INVARIANTS NothingLeftBehind
PROPERTIES PipelineEnds
