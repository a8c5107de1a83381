SPECIFICATION FairSpec
CONSTANTS
  Clients = {c1, c2}
  MaxMessages = 3
  Capacity = 2
  ClientOps = {"read", "abort", "drop"}
INVARIANTS
  TypeOK
  DeliveredInOrder
  BatchIsUniform
  DoneReachesAll
  ListMatchesOwners
PROPERTIES
  ImplementsBroadcast
  CallsReturn
CHECK_DEADLOCK FALSE
