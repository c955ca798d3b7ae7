CONSTANTS
    Port = Port
    c1 = c1
    c2 = c2
    c3 = c3
    StopSignal = StopSignal
    Gates <- MCGates
    Requests <- MCRequests
    Observers <- MCObservers
    GateOf <- MCGateOf
    ConfiguredLimit = 1
    CountMax = 2
    Splitting <- MCSplitting
SPECIFICATION FairSpec
CHECK_DEADLOCK FALSE
INVARIANTS RuntimeStopAfterGate NothingLeftBehind
PROPERTIES ClientAnswered StoppedGateEndsLoop
