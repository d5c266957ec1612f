\* Hanging handlers, silent vendors, failing write-backs, every time limit running out.
CONSTANTS
    n1 = n1
    n2 = n2
    Notifications = {n1, n2}
    MaxClaims = 2
SPECIFICATION FairSpec
INVARIANTS
    TypeOK
    CleanStop
    AcceptedIsStored
PROPERTY Stops
CHECK_DEADLOCK FALSE
