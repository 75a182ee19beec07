CONSTANTS
    ssh1 = ssh1
    ssh2 = ssh2
    Clients = {ssh1, ssh2}
    MaxChecks = 1
SPECIFICATION FairSpec
INVARIANTS
    TypeOK
    StartedWithDescriptors
    Conversations
PROPERTIES
    CloseReturns
    AttachedGetExit
CHECK_DEADLOCK FALSE
