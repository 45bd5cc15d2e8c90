CONSTANTS
  Key = {k1, k2, k3, k4, k5, k6, k7}
  Capacity = 3
  MaxDepth = 2
SYMMETRY KeySymmetry
SPECIFICATION HistorySpec
INVARIANTS
  IndexConsistent
  DirectoryBounded
  OrderedByUse
PROPERTIES
  FailureAtomicity
  ImplementsCache
