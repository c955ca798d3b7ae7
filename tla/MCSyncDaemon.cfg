CONSTANTS
    c1 = c1
    c2 = c2
    c3 = c3
    c4 = c4
    Clients <- MCClients
    ListenerCount = 3
    ListenerOf <- MCListenerOf
    WithMode <- MCWithMode
SPECIFICATION SyncFairSpec
CHECK_DEADLOCK FALSE
INVARIANTS AtMostOneAfterStop OrderlyEnd
PROPERTIES StopSignalObeyed ServedWhenEarlierQuiet
