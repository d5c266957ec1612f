\* Late answers of the outage during the probes.
CONSTANTS
    s1 = s1
    s2 = s2
    s3 = s3
    Enabled = TRUE
    FailureThreshold = 1
    HalfOpenProbes = 1
    Slots = {s1, s2, s3}
    BatchSize = 3
    MaxFaults = 2
SPECIFICATION Spec
INVARIANT ProbeLimit
CHECK_DEADLOCK FALSE
