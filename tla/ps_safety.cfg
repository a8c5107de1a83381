SPECIFICATION Spec
CONSTANTS
  MaxMessages = 4
  MaxHooks = 4
  MaxInitial = 1
  Capacity = 2
  PublisherOps = {"batch", "done"}
  ClientOps = {"get", "notify", "renew", "wait", "abort"}
  StoreBuffering = TRUE
  SpuriousWakeups = TRUE
INVARIANTS
  TypeOK
  NoHookRace
  PublisherNeverThrows
  InvokesFreshHook
  LatestHookKept
PROPERTIES
  ImplementsHooks
CHECK_DEADLOCK FALSE
