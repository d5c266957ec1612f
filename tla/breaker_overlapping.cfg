\* Answers of the outage may arrive during the probes.
CONSTANTS
    s1 = s1
    s2 = s2
    s3 = s3
    Enabled = TRUE
    FailureThreshold = 2
    HalfOpenProbes = 2
    Slots = {s1, s2, s3}
    BatchSize = 3
    MaxFaults = 4
SPECIFICATION FairSpec
INVARIANTS
    TypeOK
    StartNeverBlocks
    ProbesHaveWorkers
    ProbesExplained
PROPERTIES
    OnlyFreshFailuresTrip
    HalfOpenMoves
    Recovers
CHECK_DEADLOCK FALSE
