SPECIFICATION FairSpec
CONSTANTS
  Ids = {x, y}
  Amounts = {1, 2, 3}
  ApLimit = 1
  ControllerLimit = 2
  Calls = {k1, k2}
  Reauthorizes = TRUE
  MaxRequests = 1
  Faults = {"stop", "lost_response"}
  None = None

PROPERTIES
  ImplementsDecisions
  DecisionIsFinal
  AdmittedIsDecided
CHECK_DEADLOCK FALSE
