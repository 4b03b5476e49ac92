SPECIFICATION FairSpec
CONSTANTS
    Assignment <- First
    Cancels <- FirstCancelled
    Releases <- Nothing
    Starts <- First
    Window = 1
    MaxOrders = 2
    MaxReconnects = 2
    MaxDisturbances = 2
    MayShutDown = TRUE
    LosesPrepareReceipts = FALSE
INVARIANT PreExecutionStopHolds
PROPERTIES SlotGivenBack CancellationAnswered ShutdownCompletes
CHECK_DEADLOCK FALSE
