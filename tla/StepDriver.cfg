SPECIFICATION ScheduledSpec
CONSTANTS
  Node = {1, 2}
  Finalizer = {}
  Advisory = {}
  Conditional = {}
  Declares = {2}
  Control <- ChainControl
  Body <- NoEdge
  ConditionData <- NoEdge
  Disposition <- NoEdge
  Retries <- DriverRetries
  Handler = {1}
  When <- NoEdge
  Export = {}
  Seed <- AllPending
  MaxParallel = 1
  MaxTransitions <- MCGeneral
  Reason = {"UserRequest"}
  MaxOperation = 2
  AgentStep = {1}
  AgentHandler = {}
  CommitMayFail = TRUE
INVARIANTS RegistryMatchesState StagingReturnedFirst NothingHeld
PROPERTIES RunEnds CancellationSettles ShutdownReturns
