SPECIFICATION NonceSpec
CONSTANTS
    e1 = e1
    e2 = e2
    a1 = a1
    Exec <- MCExec
    Account <- MCAccount
    AccountOf <- MCAccountOf
    NonceActorOf <- MCNonceActorOf
    ReserveLease = 1
    SweepLease = 1
    SyncLease = 2
    MaxAge = 2
    MaxRevision = 2
    MaxNonce = 2
    MaxOnChain = 1
    SweepBatch = 1
SYMMETRY Symmetry
INVARIANTS
    TypeOK
    UniqueActive
    FreshIsOnlyClaim
    SweepTargetsStale
    NoHoles
PROPERTIES
    AuditTrail
    KeepsLedger
