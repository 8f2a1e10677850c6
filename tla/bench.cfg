SPECIFICATION Spec
CONSTANTS
    None = None
    va = va  vb = vb  vz = vz  stranger = stranger
    acctA = acctA  acctB = acctB  acctZ = acctZ  acctX = acctX
    domA = domA  domB = domB  domZ = domZ  lookalike = lookalike
    i1 = i1  i2 = i2  i3 = i3
    outside = outside  inside = inside
    MaxInbox = 3
    Vendors <- MCVendors
    VendorMaster <- MCVendorMaster
    Internal <- MCInternal
    AllowedActions <- MCActions
    MaxAmount = 3
    AutoLimit = 2
    Scenarios <- MCScenarios
    Inboxes <- MCInboxes
    Attacker = acctX
    LastFour <- MCLastFour
    MaxScenarios = 2
INVARIANTS
    TypeOK
    BenchVerdictIsTrue
    HeadlineHolds
    NothingInOrderIsRefused
    DiversionReachesAPerson
    DecisionTracesToItsMail
    LaidOutByDepth
    ComparisonDoesNotFlatter
CHECK_DEADLOCK FALSE
