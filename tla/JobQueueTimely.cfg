SPECIFICATION Spec
CONSTANTS
    Worker = {w1, w2}
    w1 = w1
    w2 = w2
    parse = parse
    unknown = unknown
    MaxJobs = 2
    JobType = {parse, unknown}
    Registered = {parse}
    Priority = {0, 5}
    MaxAttempts = 2
    ClaimedTimeout = 1
    RunningTimeout = 1
    ReapInterval = 1
    BatchLimit = 1
    Minute = 1
    Retention = 0
    ClaimBound = 1
    HandlerBound = 1
    AdminRetryBound = 1
SYMMETRY Workers
INVARIANTS
    TypeOK
    LiveJobIsNotTaken
    ExclusiveExecution
    ClaimsAreCounted
    BudgetIsRespected
PROPERTIES
    LastAttemptIsAnnounced
    VerdictsStand
