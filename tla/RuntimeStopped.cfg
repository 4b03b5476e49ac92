SPECIFICATION FairSpec
CONSTANTS
  Node = {1, 2, 3}
  Finalizer = {}
  Advisory = {}
  Conditional = {3}
  Declares = {1, 2}
  Control <- NoEdge
  Body <- StoppedBody
  ConditionData <- StoppedCondition
  Disposition <- NoEdge
  Retries <- NoRetry
  Handler = {}
  When <- NoEdge
  Export = {}
  Seed <- AllPending
  MaxParallel = 2
  MaxTransitions <- MCGeneral
  Reason = {"UserRequest"}
  MaxOperation = 0
PROPERTY FailureFailsOrdinaryOutcome
CHECK_DEADLOCK FALSE
