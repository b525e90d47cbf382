SPECIFICATION Spec
CONSTANTS
    Requests = {r1}
    VerdictTtl = 2
    KeysTtl = 3
    FailureTtl = 1
    Expiry = 3
    MaxClock = 4
    Nothing = Nothing
INVARIANT VerdictReused
CHECK_DEADLOCK FALSE
