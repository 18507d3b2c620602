SPECIFICATION Spec
CONSTANTS
    t1 = t1
    t2 = t2
    Tabs <- OneTab
    MaxTurns = 1
    MaxRounds = 1
    MaxRewinds = 0
    MaxDrops = 0
    Faults = {"send"}
    RewindsAnytime = FALSE
CHECK_DEADLOCK FALSE
INVARIANTS
    LockIsJustified
