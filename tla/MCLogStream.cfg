SPECIFICATION FairSpec
CONSTANTS
  Rows = {r1, r2, r3}
  Polls = {p1, p2}
  MaxNow = 2
INVARIANTS NoGap OnceInOrder
PROPERTIES EventuallySent
CHECK_DEADLOCK FALSE
