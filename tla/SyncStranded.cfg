SPECIFICATION FairSpec
CONSTANTS
    Run = {r1, r2}
    r1 = r1
    r2 = r2
    NoRun = NoRun
    MaxPush = 2
    Size <- Sizes
    MinTriples = 2
    Env = {}
PROPERTIES
    AcceptedPushIsSynced
