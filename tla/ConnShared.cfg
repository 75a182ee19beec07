CONSTANTS
    b = b
    c = c
    t = t
    u = u
    main = main
    cli = cli
    sig = sig
    x1 = x1
    NoInfo = NoInfo
    Names = {b, t}
    Targets = {b, t}
    Chain <- BothChain
    Sessions = {main, cli}
    Reapers = {}
    Commands <- TwoConnect
    MaxOps = 3
    BastionConns = 1
    Concurrency = 1
    Channels = {1, 2, 3, 4, 5, 6}
    FailingDials = {}
    ServerMode = TRUE
    KeepAlive = FALSE
    Password = TRUE
    Execute = TRUE
SPECIFICATION FairSpec
INVARIANTS
    NoPanic
    ListedConnIsServed
PROPERTIES
    ReportedConnected
    EveryCommandReturns
