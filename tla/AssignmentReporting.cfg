SPECIFICATION Spec
CONSTANTS
    Assignment <- First
    Cancels <- FirstCancelled
    Releases <- Nothing
    Starts <- First
    Window = 1
    MaxOrders = 0
    MaxReconnects = 0
    MaxDisturbances = 0
    MayShutDown = FALSE
    LosesPrepareReceipts = FALSE
INVARIANT ReportingEnds
CHECK_DEADLOCK FALSE
