SPECIFICATION Spec
CONSTANTS
    w1 = w1
    w2 = w2
    f1 = f1
    f2 = f2
    Workers = {w1, w2}
    Files = {f1, f2}
    MaxImports = 2
    MaxAttempts = 2
    MaxActive = 2
    Batch = 2
CHECK_DEADLOCK FALSE
INVARIANTS
    OneOutcome
PROPERTIES
    SettledStays
    ImportsSettle
