SPECIFICATION Spec
CONSTANTS
  Slots = {s1}
  Invoices = {i1}
  Readings <- MCReadings
  Budget = 5
  EpisodeTime = 3
  Wrapup = 2
  FollowUp = 1
  Grace = 1
  Slack = 0
  MaxTime = 4
  None = None
INVARIANTS
  VerdictMatchesLedger
CHECK_DEADLOCK FALSE
