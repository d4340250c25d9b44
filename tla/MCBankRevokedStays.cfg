SPECIFICATION Spec
CONSTANTS
    l1 = l1
    l2 = l2
    t1 = t1
    r1 = r1
    Links = {l1}
    Txns = {t1}
    Reqs = {r1}
    MaxFeed <- DeepFeed
    MaxPages = 1
    MaxRestarts = 0
    PlanLimit = 1
CHECK_DEADLOCK FALSE
PROPERTY RevokedStays
