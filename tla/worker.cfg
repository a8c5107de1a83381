SPECIFICATION FairSpec
CONSTANTS
  Clients = {main, c1, c2}
  Owner = main
  MaxJobs = 3
  ClientOps = {"abort", "destroy"}
  SpuriousWakeups = TRUE
INVARIANTS
  TypeOK
  RunsInOrder
  PromiseHonest
  SleepsOnlyWhenIdle
  DestructorAnswersAll
PROPERTIES
  ImplementsExecutor
  PostedRuns
CHECK_DEADLOCK FALSE
