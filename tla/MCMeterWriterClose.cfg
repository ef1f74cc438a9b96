SPECIFICATION Spec
CONSTANTS
  Records = {r1, r2, r3}
  Callers = {c1, c2}
  Loop = Loop
  BatchSize = 2
INVARIANTS CloseWritesRemaining
CHECK_DEADLOCK FALSE
