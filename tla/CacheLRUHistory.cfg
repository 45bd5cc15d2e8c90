CONSTANTS
  Key = {k1, k2, k3, k4, k5}
  Capacity = 3
  MaxDepth = 2
SPECIFICATION HistorySpec
INVARIANTS
  IndexConsistent
  KeepsMostRecent
PROPERTIES
  FailureAtomicity
  ImplementsCache
