\* One instance, an expired lease reclaimed by that same instance.
CONSTANTS
    n1 = n1
    n2 = n2
    i1 = i1
    i2 = i2
    ep1 = ep1
    ep2 = ep2
    k1 = k1
    Notifications = {n1}
    Instances = {i1}
    NoOwner = NoOwner
    NoKey = NoKey
    Endpoint <- MCEndpoint
    Key <- MCNoKeys
    MaxBudget = 3
    MaxExtra = 1
    MaxRequeues = 1
    MaxClaims = 3
    BatchSize = 1
    MayOverrun = TRUE
SPECIFICATION Spec
PROPERTY StaleResultDiscarded
CHECK_DEADLOCK FALSE
