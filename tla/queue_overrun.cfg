\* Leases may expire under live workers: what is counted, and that all settles.
CONSTANTS
    n1 = n1
    n2 = n2
    i1 = i1
    i2 = i2
    ep1 = ep1
    ep2 = ep2
    k1 = k1
    Notifications = {n1, n2}
    Instances = {i1, i2}
    NoOwner = NoOwner
    NoKey = NoKey
    Endpoint <- MCEndpoint
    Key <- MCSameKey
    MaxBudget = 2
    MaxExtra = 1
    MaxRequeues = 0
    MaxClaims = 4
    BatchSize = 1
    MayOverrun = TRUE
SPECIFICATION MeteredSpec
INVARIANTS
    DuplicatesExplained
    OverrunsAreBounded
    DeadLettersCounted
PROPERTY Settles
CHECK_DEADLOCK FALSE
