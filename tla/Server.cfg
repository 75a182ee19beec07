CONSTANTS
    main = main
    out = out
    out1 = out1
    out2 = out2
    quiet = quiet
    Main = main
    MainOut = out
    QuietOut = quiet
    Quiet = {quiet}
    NoOutput = NoOutput
    NoLine = NoLine
    Clients = {1, 2}
    Printers <- MCPrinters
    Outputs <- MCOutputs
    Out <- MCOut
    Configs <- MCConfigs
    Scripts <- MCScripts
    Lines <- MCLines
    DaemonClients = 1
    MaxLines = 2
    Fickle = {2}
SPECIFICATION Spec
INVARIANTS
    TypeOK
    ReadlineNotLost
    NoCopyLeft
    DescriptorsKept
CHECK_DEADLOCK FALSE
PROPERTIES
    CommandsReturn
    
    StartupEnds
