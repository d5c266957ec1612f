\* Leases outlive their workers: two instances, one restart-prone queue.
CONSTANTS
    n1 = n1
    n2 = n2
    i1 = i1
    i2 = i2
    ep1 = ep1
    ep2 = ep2
    k1 = k1
    Notifications = {n1, n2}
    Instances = {i1, i2}
    NoOwner = NoOwner
    NoKey = NoKey
    Endpoint <- MCEndpoint
    Key <- MCNoKeys
    MaxBudget = 2
    MaxExtra = 1
    MaxRequeues = 1
    MaxClaims = 4
    BatchSize = 2
    MayOverrun = FALSE
SPECIFICATION Spec
SYMMETRY MCSymmetry
INVARIANTS
    TypeOK
    SingleDelivery
    WorkerHoldsLease
    WithinBudget
    EveryClaimCharged
    FreshAttemptNo
    NoFalseSuccess
PROPERTY KeepsPromise
CHECK_DEADLOCK FALSE
