SPECIFICATION Spec
CONSTANTS
  Ids = {1, 2}
  Versions = {1, 2, 3}
  Clients = {c1, c2}
  Modes <- AllModes
  Filters <- SomeFilters
  Capacity = 2
  MaxReset = 2
  MaxCalls = 2
  Filled <- OldData
INVARIANTS
  TypeOK
  CopiesConverge
  ResetIsDifference
  RetryRepairs
PROPERTIES
  KindIsHonest
CHECK_DEADLOCK FALSE
SYMMETRY Symmetry
