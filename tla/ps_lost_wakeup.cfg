SPECIFICATION FairSpec
CONSTANTS
  MaxMessages = 3
  MaxHooks = 3
  MaxInitial = 1
  Capacity = 2
  PublisherOps = {}
  ClientOps = {"notify"}
  StoreBuffering = FALSE
  SpuriousWakeups = FALSE
PROPERTIES
  SleeperWakes
CHECK_DEADLOCK FALSE
