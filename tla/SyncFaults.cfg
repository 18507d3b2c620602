SPECIFICATION Spec
CONSTANTS
    Run = {r1, r2}
    r1 = r1
    r2 = r2
    NoRun = NoRun
    MaxPush = 2
    Size <- Sizes
    MinTriples = 2
    Env = {"db", "fuseki", "git", "age"}
SYMMETRY Runs
INVARIANTS
    TypeOK
    PromotesOwnStaging
    SuccessIsLive
    ForgottenIsUnlogged
PROPERTIES
    LiveGraphDoesNotShrink
    ImplementsLiveGraph
