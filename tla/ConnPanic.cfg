CONSTANTS
    b = b
    c = c
    t = t
    u = u
    main = main
    cli = cli
    sig = sig
    x1 = x1
    NoInfo = NoInfo
    Names = {b, t}
    Targets = {t}
    Chain <- OneChain
    Sessions = {main, cli}
    Reapers = {}
    Commands <- ConnectDisco
    MaxOps = 2
    BastionConns = 1
    Concurrency = 1
    Channels = {1, 2, 3, 4, 5, 6}
    FailingDials = {}
    ServerMode = TRUE
    KeepAlive = FALSE
    Password = FALSE
    Execute = FALSE
SPECIFICATION Spec
INVARIANTS
    NoPanic
