SPECIFICATION Spec
CONSTANTS
    r1 = r1
    r2 = r2
    c1 = c1
    c2 = c2
    Requests <- OneRequest
    Clauses <- TwoClauses
    NQuestions = 2
    MinAnswers = 1
    Workers = 1
    MaxAttempts = 2
    MaxJobs = 6
    MaxDrafts = 2
    Again = {}
    Faults = {}
CHECK_DEADLOCK FALSE
PROPERTIES
    EditsAreKept
