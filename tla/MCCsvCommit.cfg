SPECIFICATION PlatformSpec
CONSTANTS
    k1 = k1
    f1 = f1
    b1 = b1
    a1 = a1
    Holders = {c1, c2}
    Nobody = none
    Chapters <- AllChapters
    Marks = {1, 2}
    MaxFailures = 1
    MaxHour = 2
    Sent = {k1}
    Filed = {f1}
    Files = {b1}
    Applications = {a1}
    MaxVersion = 2
    Topics <- AllTopics
    AccountIds = {1, 2}
    Ids = {1, 2, 3}
    Days = {1, 2}
    Currencies = {1, 2}
    anna = anna
    bea = bea
    cal = cal
    People = {anna, bea, cal}
    Opener = anna
    MaxInvitations = 2
    MaxEntries = 2
    Uploads = {1, 2}
    Hashes = {c1, c2}
    Quotas <- AllQuotas
    MaxTries = 1
    MaxReviews = 1
    Formats <- AllFormats
    Entries <- AllEntries
    Sample = 1
    MaxRows = 2
    c1 = c1
    c2 = c2
    Commits = {c1, c2}
    Facts <- SomeFacts
    FileRows = 2
    MaxBatches = 3
    none = none
CHECK_DEADLOCK FALSE
INVARIANTS
    SameImports
