CONSTANTS
    h1 = h1
    h2 = h2
    Hosts = {h1}
    MaxRuns = 1
    MaxConnects = 1
    MaxToggles = 0
    FailingFiles = {}
SPECIFICATION Spec
INVARIANTS
    OKMeansZero
CHECK_DEADLOCK FALSE
