CONSTANTS
  Arguments <- MCArguments
  Workers = 2
  MaxStudies = 2
SPECIFICATION StudySpec
INVARIANTS
  ManifestTruthful
PROPERTIES
  CommandsEnd
CHECK_DEADLOCK FALSE
