CONSTANTS
    c1 = c1
    r1 = r1
    r2 = r2
    h1 = h1
    Nobody = Nobody
    NoEntry = NoEntry
    Jobs = {r1, r2}
    Kind <- TwoRuns
    Host <- RunHost
    MaxAborts = 1
SPECIFICATION FairSpec
INVARIANTS
    NoStaleWaiter
    WorkerNeverStranded
PROPERTIES
    EveryRequestAnswered
