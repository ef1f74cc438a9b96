SPECIFICATION FairSpec
CONSTANTS
  Records = {r1, r2, r3}
  Callers = {c1, c2}
  Loop = Loop
  BatchSize = 2
INVARIANTS OnePlace BufferBound
PROPERTIES RecordsLeaveMemory
CHECK_DEADLOCK FALSE
