CONSTANTS
  Key = {k1, k2, k3, k4, k5}
  Capacity = 3
  MaxDepth = 2
  MaxFrequency = 4
SYMMETRY KeySymmetry
SPECIFICATION HistorySpec
PROPERTIES
  EvictsLeastUsed
  ImplementsCache
