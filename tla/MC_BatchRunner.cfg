CONSTANTS
  Strategies <- MCStrategies
  BatchCapacities <- MCBatchCapacities
  BatchRequests = {r1, r2}
SPECIFICATION BatchSpec
INVARIANTS
  FilesExclusive
  AnswersMatch
PROPERTIES
  EveryCallEnds
