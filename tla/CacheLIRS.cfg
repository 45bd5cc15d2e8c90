CONSTANTS
  Key = {k1, k2, k3, k4, k5, k6}
  Capacity = 4
  hirTargetSizeDivisor = 2
  MaxDepth = 3
SYMMETRY KeySymmetry
SPECIFICATION Spec
INVARIANTS
  DirectoryConsistent
PROPERTIES
  FailureAtomicity
  ImplementsCache
