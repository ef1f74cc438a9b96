SPECIFICATION Spec
CONSTANTS
  Keys = {k1, k2, k3}
  NoKey = NoKey
  Callers = {c1, c2}
  MaxEntries = 2
  TTL = 1
  Enabled = TRUE
  MaxNow = 2
  MaxSets = 3
  MaxGets = 3
SYMMETRY Symmetry
INVARIANTS SizeBound EntriesNeverOvercounts
PROPERTIES EvictsLeastUsed ImplementsLossyMap
CHECK_DEADLOCK FALSE
