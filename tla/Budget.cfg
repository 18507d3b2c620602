SPECIFICATION Spec
CONSTANTS
    t1 = t1
    t2 = t2
    d1 = d1
    a1 = a1
    a2 = a2
    Nobody = Nobody
    Turns <- TwoTurns
    Drafters <- OneJob
    Admins <- TwoAdmins
    MaxMessages = 1
    Budget = 5
    Costs = {4}
    MaxCalls = 1
    MaxDays = 2
    MaxUsage = 8
    MaxFailures = 1
SYMMETRY Symmetry
CHECK_DEADLOCK FALSE
INVARIANTS
    TypeOK
    OvershootsAreBounded
    AlertsAreWhole
    LocksAreGivenBack
