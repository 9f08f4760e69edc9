SPECIFICATION Spec
CONSTANTS
    e1 = e1
    e2 = e2
    e3 = e3
    e4 = e4
    a1 = a1
    a2 = a2
    Other = Other
    Exec <- OneExec
    Account <- OneAccount
    AccountOf <- OneAccountOf
    NonceActorOf <- SharedActor
    ValidatorActorOf <- SharedActor
    BadIntents = {}
    Unsignable = {}
    ReserveLease = 1
    SweepLease = 2
    SyncLease = 3
    MaxAge = 3
    MaxRevision = 3
    MaxNonce = 3
    MaxOnChain = 3
    SweepBatch = 1
    MaxOther = 1
    Permits = 2
    MaxAttempts = 1
    ValidatorTimeout = 3
    RequiredConfirmations = 0
    MaxDbFaults = 0
    MaxRpcFaults = 0
    MaxCrashes = 0
INVARIANTS
    TimedOutNotReusable
