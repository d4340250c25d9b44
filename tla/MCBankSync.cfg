SPECIFICATION Spec
CONSTANTS
    l1 = l1
    l2 = l2
    t1 = t1
    t2 = t2
    r1 = r1
    r2 = r2
    Links = {l1}
    Txns = {t1, t2}
    Reqs = {r1, r2}
    MaxFeed <- DeepFeed
    MaxPages = 2
    MaxRestarts = 1
    PlanLimit = 1
SYMMETRY Symmetry
CHECK_DEADLOCK FALSE
INVARIANTS
    CursorCovered
    ExclusiveSync
    LedgerExact
    ItemRemovedFirst
PROPERTIES
    FeedRefinement
