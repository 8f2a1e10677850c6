SPECIFICATION Spec
CONSTANTS
    None = None
    m1 = m1  va = va  ga = ga  acctA = acctA  acctX = acctX  domA = domA
    i1 = i1  outside = outside  inside = inside
    Vendors = {va}
    VendorMaster <- MCVendorMaster
    Internal = {inside}
    AllowedActions = {"pay_vendor", "send_email"}
    MaxAmount = 100
    AutoLimit = 10
    Messages = {m1}
    Content <- MCContent
    Extractions <- MCExtractions
    Paise <- MCPaise
    Budget = 5
INVARIANTS
    TypeOK
    NothingConfidentialLeaves
    PaidAccountIsTheRecord
    ConsequencesWithinBudget
CHECK_DEADLOCK FALSE
