SPECIFICATION FairSpec
CONSTANTS
  Vendors = {v1}
  Accounts = {a1}
  Invoices = {i1}
  Amounts = {1, 2, 3}
  AutoLimit = 1
  MaxAmount = 2
  AllowedActions = {"pay_vendor"}
  Callers = {c1}
  MaxCalls = 2
  MaxVersions = 2
  Faults = {"vendors", "ledger_read", "authorizer", "ledger_write", "decisions"}
  NotAHandle = NotAHandle
  NoSuchHandle = NoSuchHandle
  None = None
INVARIANTS
  TypeOK
  NoDuplicatePayment
  EscalationIsLiftable
  OutcomeMatchesLedger
PROPERTIES
  ImplementsPayments
  EveryCallRecorded
