CONSTANTS
    c1 = c1
    r1 = r1
    r2 = r2
    h1 = h1
    Nobody = Nobody
    NoEntry = NoEntry
    Jobs = {r1}
    Kind <- OneRun
    Host <- OneHost
    MaxAborts = 2
SPECIFICATION PromptSpec
PROPERTIES
    AbortFinishes
CHECK_DEADLOCK FALSE
