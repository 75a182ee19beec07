CONSTANTS
    b = b
    c = c
    t = t
    u = u
    main = main
    cli = cli
    sig = sig
    x1 = x1
    NoInfo = NoInfo
    Names = {b, c, t, u}
    Targets = {b, t, u}
    Chain <- DeepChain
    Sessions = {main}
    Reapers = {}
    Commands <- MainRunsAll
    MaxOps = 4
    BastionConns = 2
    Concurrency = 2
    Channels = {1, 2, 3, 4, 5, 6}
    FailingDials = {}
    ServerMode = TRUE
    KeepAlive = FALSE
    Password = FALSE
    Execute = FALSE
SPECIFICATION FairSpec
INVARIANTS
    NoPanic
    OnlyTargetsRun
    NoOrphans
    ProxyConnsBounded
    DiscoLeavesNothing
PROPERTIES
    TunnelsCloseFirst
    ReportedConnected
    EveryCommandReturns
