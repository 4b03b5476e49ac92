SPECIFICATION FairSpec
CONSTANTS
  Requester = {"Signals", "Terminal", "Manager"}
  Reason = {"UserRequest", "CallerOutputFailure", "RunnerShutdown", "ExecutionLeaseExpired"}
  Host <- Programs
INVARIANTS NoLostWakeup ReasonAgrees CarriedClosesFinalization
PROPERTIES HeldRequestsQueued OperationsTaken
CHECK_DEADLOCK FALSE
