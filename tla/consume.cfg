SPECIFICATION FairConsumeSpec
CONSTANTS
  MaxMessages = 3
  MaxHooks = 10
  MaxInitial = 1
  Capacity = 2
  PublisherOps = {"batch", "done"}
  ClientOps = {"get", "notify"}
  StoreBuffering = FALSE
  SpuriousWakeups = FALSE
  MaxSlice = 1
  MaxOther = 1
  MaxBatches = 2
INVARIANTS
  ConsumeTypeOK
  OneChain
  WorkerNeverThrowsOrSleeps
  OthersServed
PROPERTIES
  AllHandled
CHECK_DEADLOCK FALSE
