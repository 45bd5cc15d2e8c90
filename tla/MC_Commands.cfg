CONSTANTS
  Places <- MCPlaces
  CACHE_STRATEGIES <- MCStrategies
  ConfigTokens <- MCConfigTokens
  InputTokens <- MCInputTokens
  Generators <- MCGenerators
  MaxInt = 65535
  MaxDraws = 2
  PhaseLength = 2
  ScanPeriod = 4
  ScanStart = 2
  BurstLength = 3
  Benchmarks = {b1, b2}
  LEVEL_CAPACITIES <- MCLayouts
  REQUEST_PATTERNS <- MCRequestPatterns
  RandomSeeds <- MCRandomSeeds
  RequestCounts = {2, 3}
  Trace <- MCTrace
  CaseArguments <- MCCaseArguments
  CompareArguments <- MCCompareArguments
  CaseTrace <- MCTrace
  ResearchCommands <- MCResearchCommands
  HIERARCHY_PATTERNS <- MCHierarchyPatterns
  SOFTWARE_PATTERNS <- MCSoftwarePatterns
  UserTraces <- MCUserTraces
  ProjectFiles <- MCProjectFiles
  Sources <- MCSources
  InitialBytes <- MCInitialBytes
  EditedBytes <- MCEditedBytes
  Reports <- MCReports
SPECIFICATION CommandsSpec
INVARIANTS
  ParserForgets
  TraceUsable
  CaseTruthful
  ResultsTruthful
  FixesApplied
PROPERTY
  FilesKept
CHECK_DEADLOCK FALSE
