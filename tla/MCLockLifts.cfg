SPECIFICATION LockoutSpec
CONSTANTS
    l1 = l1
    Logins = {l1}
    MaxAttempts = 3
    Window = 3
    LockFor = 3
    MaxTime = 7
    MaxFailed = 7
CHECK_DEADLOCK FALSE
INVARIANTS
    LockLiftsAsTold
