CONSTANTS
  Key = {k1, k2, k3, k4, k5, k6, k7}
  Capacity = 4
  MaxDepth = 3
SYMMETRY KeySymmetry
SPECIFICATION Spec
INVARIANTS
  IndexConsistent
PROPERTIES
  FailureAtomicity
  ImplementsReference
  ImplementsCache
