SPECIFICATION LiveSpec
CONSTANTS
    r1 = r1
    r2 = r2
    c1 = c1
    c2 = c2
    Requests <- TwoRequests
    Clauses <- OneClause
    NQuestions = 2
    MinAnswers = 1
    Workers = 1
    MaxAttempts = 2
    MaxJobs = 6
    MaxDrafts = 2
    Again = {"clause", "drafted", "review"}
    Faults = {}
CHECK_DEADLOCK FALSE
INVARIANTS
    TypeOK
    SessionHangsTogether
    StepHasItsJob
PROPERTIES
    NothingIsUndone
    WaitEnds
