SPECIFICATION Spec
CONSTANTS
  w1 = w1
  w2 = w2
  t1 = t1
  s1 = s1
  s2 = s2
  s3 = s3
  Slot = {s1, s2, s3}
  Worker = {w1, w2}
  Tab = {t1}
  SpareSlots = 0
  MaxVersions = 3
  MaxAttempts = 2
  Op = {"upload", "retry", "delete"}
  Env = {"race"}
SYMMETRY Symmetry
CHECK_DEADLOCK FALSE
INVARIANTS TypeOK MirrorAgrees NeverStranded OlderVersionsAreReady ReportsAreTrue
PROPERTIES ImplementsLifecycle
