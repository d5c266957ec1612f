\* Retrying clients, crashes and failing transactions, and an operator who pages through
\* the table.
CONSTANTS
    c1 = c1
    c2 = c2
    c3 = c3
    k1 = k1
    None = None
    NoKey = NoKey
    Clients = {c1, c2, c3}
    Invalid = {c3}
    Key <- MCKey
    MaxTries <- MCMaxTries
    MaxFaults = 2
    MaxTime = 2
    Limit = 1
SPECIFICATION ListSpec
INVARIANTS
    WalkTypeOK
    ErrorMeansNotStored
    ShownOnce
    NoneSkipped
CHECK_DEADLOCK FALSE
PROPERTIES
    KeepsRegistry
    EventuallyAccepted
