SPECIFICATION LiveSpec
CONSTANTS
    c1 = c1
    c2 = c2
    Caller <- Tasks
    Actor = {"validator"}
    Endpoints = 2
    Concurrency = 2
    MinRequests = 2
    DegradedPercent = 15
    UnhealthyPercent = 40
    MaxCalls = 5
    MaxHung = 1
INVARIANTS
    RpcTypeOK
    ErrorsAreRequests
    AvoidsUnhealthy
    PermitsConserved
    HealthSettles
PROPERTIES
    PermitReturned
