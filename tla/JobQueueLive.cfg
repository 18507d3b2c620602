SPECIFICATION FairSpec
CONSTANTS
    Worker = {w1}
    w1 = w1
    parse = parse
    unknown = unknown
    MaxJobs = 2
    JobType = {parse, unknown}
    Registered = {parse}
    Priority = {0}
    MaxAttempts = 2
    ClaimedTimeout = 0
    RunningTimeout = 0
    ReapInterval = 1
    BatchLimit = 1
    Minute = 1
    Retention = 0
    ClaimBound = 1
    HandlerBound = 1
    AdminRetryBound = 1
PROPERTIES
    EveryJobIsSettled
