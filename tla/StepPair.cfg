SPECIFICATION DriverSpec
CONSTANTS
  Node = {1, 2}
  Finalizer = {}
  Advisory = {}
  Conditional = {}
  Declares = {1, 2}
  Control <- NoEdge
  Body <- NoEdge
  ConditionData <- NoEdge
  Disposition <- NoEdge
  Retries <- NoRetry
  Handler = {}
  When <- NoEdge
  Export = {}
  Seed <- AllPending
  MaxParallel = 2
  MaxTransitions <- MCGeneral
  Reason = {"UserRequest"}
  MaxOperation = 2
  AgentStep = {2}
  AgentHandler = {}
  CommitMayFail = FALSE
INVARIANTS ProcessesEndFirst NoRepeatedReport
