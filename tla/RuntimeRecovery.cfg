SPECIFICATION Spec
CONSTANTS
  Node = {1, 2, 3, 4, 5}
  Finalizer = {3, 4, 5}
  Advisory = {2, 5}
  Conditional = {3}
  Declares = {1, 3}
  Control <- FinalControl
  Body <- FinalBody
  ConditionData <- FinalCondition
  Disposition <- NoEdge
  Retries <- HandlerRetries
  Handler = {1}
  When <- FinalWhen
  Export = {1, 3}
  Seed <- AllPending
  MaxParallel = 2
  MaxTransitions <- MCGeneral
  Reason = {"UserRequest", "RunnerShutdown"}
  MaxOperation = 3
INVARIANTS RecoveryLedger CeilingSuffices ForceAbortContains
  OutcomeReflectsNodes FinalizersAfterOrdinary ForceAbortSuppressesFinalizers
