CONSTANTS
    h1 = h1
    h2 = h2
    Hosts = {h1, h2}
    MaxRuns = 1
    MaxConnects = 3
    MaxToggles = 2
    FailingFiles = {"out", "err", "ret"}
SPECIFICATION Spec
INVARIANTS
    TypeOK
    NoHandleLeft
    ErrorsAreOfFailures
    UnspooledTruth
CHECK_DEADLOCK FALSE
