SPECIFICATION FairSpec
CONSTANTS
  Keys = {k1, k2}
  NoKey = NoKey
  Callers = {c1, c2}
  MaxEntries = 1
  TTL = 1
  Enabled = TRUE
  MaxNow = 2
  MaxSets = 2
  MaxGets = 2
PROPERTIES TickerHeals
CHECK_DEADLOCK FALSE
