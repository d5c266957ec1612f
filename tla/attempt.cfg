\* Every class of answer, lists configured in every way, redirects, any attempt.
CONSTANTS
    Word = 65536
    Second = 10
    MaxExponent = 12
    Files <- MCFiles
    CallerBudgets = {0, 2}
    CallerHeaders <- MCCallerHeaders
    Codes <- MCCodes
    RetryAfters <- MCRetryAfters
    MaxHops = 3
SPECIFICATION Spec
INVARIANTS
    TypeOK
    FollowsTable
    BreakerCountsRetries
    OnCurve
    HonoursRetryAfter
    LoadedIsSound
    NearestSettingHolds
    HeadersAreTrusted
CHECK_DEADLOCK FALSE
