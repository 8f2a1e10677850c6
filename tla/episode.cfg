SPECIFICATION FairSpec
CONSTANTS
  Slots = {s1, s2}
  Invoices = {i1}
  Readings <- MCReadings
  Budget = 5
  EpisodeTime = 2
  Wrapup = 1
  FollowUp = 3
  Grace = 2
  Slack = 1
  MaxTime = 4
  None = None
INVARIANTS
  TypeOK
  VerdictMatchesLedger
  TimedOutMeansUndecided
  SettledBuysNoTime
PROPERTIES
  RunIsReported
CHECK_DEADLOCK FALSE
