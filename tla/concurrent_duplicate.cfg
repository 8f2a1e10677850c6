SPECIFICATION Spec
CONSTANTS
  Vendors = {v1}
  Accounts = {a1, a2}
  Invoices = {i1}
  Amounts = {1}
  AutoLimit = 1
  MaxAmount = 2
  AllowedActions = {"pay_vendor"}
  Callers = {c1, c2}
  MaxCalls = 2
  MaxVersions = 1
  Faults = {}
  NotAHandle = NotAHandle
  NoSuchHandle = NoSuchHandle
  None = None
SYMMETRY DataSymmetry
INVARIANTS
  NoDuplicatePayment
