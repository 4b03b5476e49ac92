SPECIFICATION Spec
CONSTANTS
    Assignment <- Two
    Cancels <- FirstCancelled
    Releases <- EachReleased
    Starts <- First
    Window = 1
    MaxOrders = 1
    MaxReconnects = 1
    MaxDisturbances = 2
    MayShutDown = TRUE
    LosesPrepareReceipts = FALSE
INVARIANTS RootExclusive PredecessorSilent 
PROPERTY ImplementsLife
CHECK_DEADLOCK FALSE
