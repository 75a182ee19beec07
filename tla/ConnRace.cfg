CONSTANTS
    b = b
    c = c
    t = t
    u = u
    main = main
    cli = cli
    sig = sig
    x1 = x1
    NoInfo = NoInfo
    Names = {b, t}
    Targets = {t}
    Chain <- OneChain
    Sessions = {main, cli}
    Reapers = {x1}
    Commands <- TwoRunAll
    MaxOps = 2
    BastionConns = 1
    Concurrency = 1
    Channels = {1, 2, 3, 4, 5, 6}
    FailingDials = {b}
    ServerMode = TRUE
    KeepAlive = TRUE
    Password = FALSE
    Execute = FALSE
SPECIFICATION Spec
INVARIANTS
    TypeOK
    ListedConnIsServed
CHECK_DEADLOCK FALSE
SYMMETRY SessionSymmetry
