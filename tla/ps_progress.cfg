SPECIFICATION FairSpec
CONSTANTS
  MaxMessages = 3
  MaxHooks = 3
  MaxInitial = 1
  Capacity = 2
  PublisherOps = {"batch", "done"}
  ClientOps = {"get", "notify", "wait", "abort"}
  StoreBuffering = FALSE
  SpuriousWakeups = FALSE
INVARIANTS
  NothingUnannounced
PROPERTIES
  WaitWakes
CHECK_DEADLOCK FALSE
