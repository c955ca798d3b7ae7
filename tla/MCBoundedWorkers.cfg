CONSTANTS
    t1 = t1
    t2 = t2
    t3 = t3
    t4 = t4
    Tasks <- MCTasks
    ConfiguredCapacity = 2
SPECIFICATION FairSpec
CHECK_DEADLOCK FALSE
INVARIANTS PermitsConserved NoLostWakeup
PROPERTIES DispatchReturns ImplementsAdmission
