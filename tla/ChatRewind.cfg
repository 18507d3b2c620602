SPECIFICATION Spec
CONSTANTS
    t1 = t1
    t2 = t2
    Tabs <- OneTab
    MaxTurns = 2
    MaxRounds = 1
    MaxRewinds = 1
    MaxDrops = 0
    Faults = {}
    RewindsAnytime = TRUE
CHECK_DEADLOCK FALSE
INVARIANTS
    ReplyHasPrompt
