\* Endpoint epA never answers.
CONSTANTS
    n1 = n1
    n2 = n2
    n3 = n3
    epA = epA
    epB = epB
    Count = 2
    Names <- MCNames
    Notifications = {n1, n3}
    Endpoint <- MCEndpoint
    Concurrency = 1
    BatchSize = 1
    Stuck = {epA}
    MaxFaults = 0
SPECIFICATION FairSpec
PROPERTY OthersAreServed
CHECK_DEADLOCK FALSE
