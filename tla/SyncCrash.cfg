SPECIFICATION Spec
CONSTANTS
    Run = {r1, r2}
    r1 = r1
    r2 = r2
    NoRun = NoRun
    MaxPush = 1
    Size <- Sizes
    MinTriples = 2
    Env = {"crash", "cli", "count", "admin", "sweep"}
SYMMETRY Runs
INVARIANTS
    NothingForgotten
PROPERTIES
    ImplementsLiveGraph
