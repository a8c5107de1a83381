SPECIFICATION FairSpec
CONSTANTS
  Clients = {main, c1}
  Owner = main
  MaxJobs = 2
  ClientOps = {"abort"}
  SpuriousWakeups = FALSE
PROPERTIES
  AbortAnswers
CHECK_DEADLOCK FALSE
