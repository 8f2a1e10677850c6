SPECIFICATION Spec
CONSTANTS
  MaxRuns = 2
  Verdicts = {paid}
  MaxMishaps = 0
  None = None
INVARIANTS
  ShownVerdictIsOfTheRun
CHECK_DEADLOCK FALSE
