SPECIFICATION AccessSpec
CONSTANTS
    h1 = h1
    h2 = h2
    s1 = s1
    s2 = s2
    NoSub = NoSub
    NoEnd = NoEnd
    Handlers = {h1, h2}
    Subs = {s1}
    MaxCustomers = 2
    MaxEvents = 3
    MaxPeriod = 1
    Faults = TRUE
    r1 = r1
    r2 = r2
    c1 = c1
    NoChallenge = NoChallenge
    Requests = {r1, r2}
    Challenges = {c1}
    MaxSecrets = 2
    MaxStep = 1
    MaxFailures = 2
    l1 = l1
    l2 = l2
    Logins = {l1, l2}
    MaxAttempts = 3
    Window = 3
    LockFor = 3
    MaxTime = 7
    MaxFailed = 7
    c2 = c2
    c3 = c3
    c4 = c4
    k1 = k1
    Nobody = Nobody
    Owners = {r1, r2}
    Ceremonies = {c1, c2, c3, c4}
    Credentials = {k1}
    Verifiers = {h1, h2}
    MaxCounter = 1
    MaxRemovals = 1
    Hits = {h1, h2}
    Limit = 2
    Ttl = 2
    BlockFor = 2
    Retention = 1
    MaxNow = 7
    none = none
    eve = eve
    Registrants = {r1, r2}
    Emails = {eve}
    Passwords <- AllPasswords
    RangeTtl = 1
    FetchTimeout = 1
    MaxRanges = 1
    CodeTtl = 1
    MaxCodes = 2
    MaxDay = 2
    MaxLegal = 1
    schemaOwner = schemaOwner
    runtime = runtime
    Environments <- AllEnvironments
    Releases = {1, 2}
    Roles = {schemaOwner, runtime}
    Owner = schemaOwner
    Powers = {"super"}
    NoRole = none
    MaxProcesses = 2
SYMMETRY Symmetric
CHECK_DEADLOCK FALSE
INVARIANTS
    EntitledWasGranted
    FactorOnce
    CodesOfEnrolment
    GuessesBounded
    CeremonyOnce
    TwoWindowsAtMost
    ScreenedPassword
    OneAccount
    MigratedOnce
    ServedAsDeployed
PROPERTIES
    CanceledStays
