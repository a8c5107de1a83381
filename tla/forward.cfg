SPECIFICATION Spec
CONSTANTS
  MaxMessages = 6
  MaxCalls = 3
  Capacity = 2
  PublisherOps = {"batch"}
  ClientOps = {"get", "abort"}
INVARIANTS
  TypeOK
  GoesOneWay
  OrderKept
  CallbackGuarded
  OnlyOneLeftBehind
CHECK_DEADLOCK FALSE
