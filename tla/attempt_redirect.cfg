\* Vendors that redirect.
CONSTANTS
    Word = 65536
    Second = 10
    MaxExponent = 12
    Files <- MCRedirectFiles
    CallerBudgets = {1}
    CallerHeaders <- MCCallerHeaders
    Codes <- MCCodes
    RetryAfters <- MCRetryAfters
    MaxHops = 3
SPECIFICATION Spec
INVARIANT RedirectsAreFinal
CHECK_DEADLOCK FALSE
