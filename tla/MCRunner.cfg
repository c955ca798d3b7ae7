CONSTANTS
    d0 = d0
    d2 = d2
    d3 = d3
    Drives <- MCDrives
    LimitOf <- MCLimitOf
    U32Max = 3
SPECIFICATION FairSpec
CHECK_DEADLOCK FALSE
INVARIANTS BudgetRespected ReportExact
PROPERTY DriveEnds
