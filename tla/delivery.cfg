SPECIFICATION FairSpec
CONSTANTS
  MaxRuns = 2
  Verdicts = {paid}
  MaxMishaps = 2
  None = None
INVARIANTS
  TypeOK
  ShownWasRecorded
PROPERTIES
  EverySubmissionEnds
  ProcessedOnce
  FinishedRunIsShown
CHECK_DEADLOCK FALSE
