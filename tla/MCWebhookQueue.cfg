SPECIFICATION Spec
CONSTANTS
    l1 = l1
    w1 = w1
    w2 = w2
    u1 = u1
    Links = {l1}
    Workers = {w1, w2}
    Users = {u1}
    MaxAttempts = 2
    Batch = 1
    MaxJobs = 1
    MaxNews = 1
    MaxHours = 1
    MaxFaults = 1
CHECK_DEADLOCK FALSE
INVARIANTS
    CompletedIsSynced
PROPERTIES
    JobsSettle
