CONSTANTS
    ordinary = ordinary
    r1 = r1
    r2 = r2
    r3 = r3
    o1 = o1
    StopSignal = StopSignal
    Gates <- MCGates
    Requests <- MCRequests
    Observers <- MCObservers
    GateOf <- MCGateOf
    ConfiguredLimit = 2
    CountMax = 2
SPECIFICATION GateFairSpec
CHECK_DEADLOCK FALSE
INVARIANTS PermitConservation NoIdlePermit StatusConsistent
PROPERTIES ImplementsAdmission MailboxStaysResponsive AskSettled
