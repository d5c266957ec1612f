\* Two endpoints, breaker trips and failing claims.
CONSTANTS
    n1 = n1
    n2 = n2
    n3 = n3
    epA = epA
    epB = epB
    Count = 2
    Names <- MCNames
    Notifications = {n1, n2}
    Endpoint <- MCEndpoint
    Concurrency = 2
    BatchSize = 1
    Stuck = {}
    MaxFaults = 1
SPECIFICATION Spec
INVARIANTS
    TypeOK
    NoLostWakeup
CHECK_DEADLOCK FALSE
