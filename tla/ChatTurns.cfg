SPECIFICATION LiveSpec
CONSTANTS
    t1 = t1
    t2 = t2
    Tabs <- OneTab
    MaxTurns = 2
    MaxRounds = 2
    MaxRewinds = 1
    MaxDrops = 1
    Faults = {"user", "placeholder", "tool", "reply", "send"}
    RewindsAnytime = FALSE
CHECK_DEADLOCK FALSE
INVARIANTS
    TypeOK
    ThreadIsADialogue
    WaitIsJustified
PROPERTIES
    TurnEnds
