\* epB was removed from the configuration.
CONSTANTS
    n1 = n1
    n2 = n2
    n3 = n3
    epA = epA
    epB = epB
    Count = 1
    Names <- MCOneName
    Notifications = {n1, n3}
    Endpoint <- MCEndpoint
    Concurrency = 1
    BatchSize = 1
    Stuck = {}
    MaxFaults = 0
SPECIFICATION FairSpec
PROPERTY OrphansDie
CHECK_DEADLOCK FALSE
