SPECIFICATION MoneySpec
CONSTANTS
    p = p
    q = q
    Reviewers = {p, q}
    Lines = 1
    MaxRows = 4
    MaxRowAmount = 2
    MaxWrites = 2
    MaxOthers = 1
    alice = alice
    Users = {alice, p, q}
    Creator = alice
    Prices = {3}
    MaxMoney = 2
    MaxInvitations = 2
    j1 = j1
    j2 = j2
    Unknown = Unknown
    Transfer = Transfer
    Txns = {p, q}
    Pairs <- OnePair
    Slugs = {groceries}
    groceries = groceries
    Recognised = Unknown
    Jobs = {j1, j2}
    MaxRules = 1
    MaxApplications = 1
    Entries = {p, q}
    Claimants = {r1}
    r1 = r1
    MaxDay = 1
    Postings = {1}
    Starts <- EndOfMonthStarts
    Ends <- SomeEnds
    Todays <- SomeDays
    MaxIterations = 60
    bill = bill
    budget = budget
    phone = phone
    Alerts = {bill, budget}
    Devices = {phone}
    Askers = {p, q}
    MaxDrops = 1
SYMMETRY Symmetric
CHECK_DEADLOCK FALSE
INVARIANTS
    LedgerIsReviewed
    ConsentedMembers
    LeftIsSettled
    SuggestionsSettle
    ChoiceStands
    ReconciledIsPosted
    NextIsNext
    PushedOnce
PROPERTIES
    ApprovalIsNew
