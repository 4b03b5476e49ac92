SPECIFICATION Spec
CONSTANTS
  Node = {1}
  Finalizer = {}
  Advisory = {}
  Conditional = {}
  Declares = {1}
  Control <- NoEdge
  Body <- NoEdge
  ConditionData <- NoEdge
  Disposition <- NoEdge
  Retries <- HandlerRetries
  Handler = {1}
  When <- NoEdge
  Export = {}
  Seed <- AllPending
  MaxParallel = 1
  MaxTransitions <- MCCloud
  Reason = {"UserRequest"}
  MaxOperation = 2
INVARIANT CeilingSuffices
