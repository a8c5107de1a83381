SPECIFICATION Spec
CONSTANTS
  Ids = {1, 2}
  Versions = {1, 2, 3}
  Clients = {c1}
  Modes = {"SKIP_DUPLICATES"}
  Filters <- NoFilter
  Capacity = 3
  MaxReset = 0
  MaxCalls = 2
  Filled <- NewOnly
INVARIANTS
  InitialisedClientIsCurrent
CHECK_DEADLOCK FALSE
