SPECIFICATION Spec
CONSTANTS
  Unroutable <- MCUnroutable
  Domains <- MCDomains
  WAFLists <- MCWAFLists
  Configurations <- MCConfigurations
  Sightings <- MCSightings
  OldRecords <- MCOldRecords
  OldItems <- MCOldItems
  MaxOperations = 1
INVARIANTS TypeOK KeptOutOfScope UnitsIndependent HonestReport FailuresNamed
CHECK_DEADLOCK FALSE
