CONSTANTS
    c1 = c1
    c2 = c2
    c3 = c3
    StopSignal = StopSignal
    Gates <- MCGates
    Requests <- MCRequests
    Observers <- MCObservers
    GateOf <- MCGateOf
    ConfiguredLimit = 0
    CountMax = 2
    Splitting <- MCSplitting
    ListenerCount = 2
    WithMode <- MCWithMode
    ClientsOf <- MCClientsOf
SPECIFICATION FairSpec
CHECK_DEADLOCK FALSE
INVARIANTS OwningHandlersWithinLimit OneAskPerListener RuntimeStopAfterGates
PROPERTIES ListenerIsolation FailureIsFatal SocketsRemoved PermitsComeHome ImplementsGates
