SPECIFICATION FairSpec
CONSTANTS
  Rows = {r1}
  Polls = {p1, p2}
  MaxNow = 1
PROPERTIES CleanupOnAbort
CHECK_DEADLOCK FALSE
