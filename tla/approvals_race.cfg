SPECIFICATION Spec
CONSTANTS
  Ids = {x}
  Amounts = {1, 2, 3}
  ApLimit = 1
  ControllerLimit = 2
  Calls = {k1, k2, k3}
  Reauthorizes = TRUE
  MaxRequests = 1
  Faults = {"stop"}
  None = None
SYMMETRY Symmetry
INVARIANTS
  TypeOK
  ReaskedOnceForTheWinner
  AuthorityRespected
  AnswersAgree
CHECK_DEADLOCK FALSE
