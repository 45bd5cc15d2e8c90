CONSTANTS
  Key = {1, 2, 3, 4}
  RequestLists <- ShortRequestLists
  Capacity = 2
  MaxDepth = 2
SPECIFICATION HistorySpec
INVARIANTS
  NeverWorseThanBest
PROPERTIES
  ImplementsCache
CHECK_DEADLOCK FALSE
