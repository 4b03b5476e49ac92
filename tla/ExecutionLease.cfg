SPECIFICATION FairSpec
CONSTANTS
    LeaseDuration = 8
    FencingMargin = 2
    ForceStopBudget = 1
    ReportBudget = 1
    RenewalBudget = 0
    MinimumHeadroom = 2
    MaximumGrace = 1
    Grace = 1
    MaxSequence = 3
    MaxTime = 17
INVARIANTS LeaseContained RenewalsNeverConflict
PROPERTIES ReportFits LossJustified LeaseEndsExecution
CHECK_DEADLOCK FALSE
