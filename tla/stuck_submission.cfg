SPECIFICATION FairSpec
CONSTANTS
  MaxRuns = 1
  Verdicts = {paid}
  MaxMishaps = 0
  None = None
PROPERTIES
  SubmissionEndsOnScreen
CHECK_DEADLOCK FALSE
