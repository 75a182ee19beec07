CONSTANTS
    c1 = c1
    r1 = r1
    r2 = r2
    h1 = h1
    Nobody = Nobody
    NoEntry = NoEntry
    Jobs = {c1, r1}
    Kind <- DistinctKind
    Host <- DistinctHost
    MaxAborts = 1
SPECIFICATION PromptSpec
INVARIANTS
    TypeOK
    TimerNeverStranded
    SerializerNeverStranded
    InFlightRegistered
    WaitStateIsOwn
PROPERTIES
    AbortFinishes
    Implements
