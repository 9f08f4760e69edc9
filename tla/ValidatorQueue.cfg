SPECIFICATION LiveSpec
CONSTANTS
    e1 = e1
    e2 = e2
    e3 = e3
    e4 = e4
    a1 = a1
    a2 = a2
    Other = Other
    Exec <- TwoExec
    Account <- OneAccount
    AccountOf <- TwoAccountOf
    NonceActorOf <- SharedActor
    ValidatorActorOf <- SharedActor
    BadIntents = {}
    Unsignable = {}
    ReserveLease = 1
    SweepLease = 1
    SyncLease = 2
    MaxAge = 2
    MaxRevision = 3
    MaxNonce = 3
    MaxOnChain = 3
    SweepBatch = 1
    MaxOther = 0
    Permits = 2
    MaxAttempts = 1
    ValidatorTimeout = 2
    RequiredConfirmations = 0
    MaxDbFaults = 0
    MaxRpcFaults = 0
    MaxCrashes = 0
PROPERTIES
    PipelineEnds
    ServesClients
