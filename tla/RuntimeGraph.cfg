SPECIFICATION Spec
CONSTANTS
  Node = {1, 2, 3, 4, 5}
  Finalizer = {}
  Advisory = {1, 5}
  Conditional = {3, 4, 5}
  Declares = {2, 3}
  Control <- GraphControl
  Body <- GraphBody
  ConditionData <- GraphCondition
  Disposition <- GraphDisposition
  Retries <- GraphRetries
  Handler = {}
  When <- NoEdge
  Export = {2, 4}
  Seed <- GraphSeed
  MaxParallel = 2
  MaxTransitions <- MCGeneral
  Reason = {"UserRequest"}
  MaxOperation = 2
INVARIANTS InputsPresent NeverStuck Quiescent
PROPERTY NodeSettlesOnce
