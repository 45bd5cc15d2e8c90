CONSTANTS
  RunLists <- MCRunLists
  Totals = {3, 5}
  LevelLimits = {1, 2, 3}
  AccessCosts <- MCAccessCosts
  Length = 10
  KeyCount = 3
  Traces <- MCTraces
  Capacities = {1, 2}
SPECIFICATION SearchSpec
INVARIANTS
  SearchIsExact
  FewestLevelsSaved
  ReferenceHolds
  QueueCoversCache
  CountIsMinimal
