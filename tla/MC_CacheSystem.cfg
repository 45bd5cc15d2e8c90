CONSTANTS
  k1 = k1
  k2 = k2
  k3 = k3
  k4 = k4
  Key <- MCKey
  LevelSize <- MCLevelSize
  MaxDepth = 3
  MaxRequests = 5
SYMMETRY KeySymmetry
SPECIFICATION HistorySpec
INVARIANTS
  StatisticsAccepted
  CopiesAgree
PROPERTIES
  LevelsAreCaches
CHECK_DEADLOCK FALSE
