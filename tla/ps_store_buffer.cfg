SPECIFICATION Spec
CONSTANTS
  MaxMessages = 2
  MaxHooks = 2
  MaxInitial = 1
  Capacity = 2
  PublisherOps = {}
  ClientOps = {"notify"}
  StoreBuffering = TRUE
  SpuriousWakeups = FALSE
INVARIANTS
  NothingUnannounced
CHECK_DEADLOCK FALSE
