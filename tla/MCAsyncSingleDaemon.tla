------------------------- MODULE MCAsyncSingleDaemon -------------------------
(* One listener of one permit and three clients, one of them split by its      *)
(* handler, on both transports and under both drivers.                         *)
EXTENDS AsyncSingleDaemon

CONSTANTS c1, c2, c3

MCGates == {Port}
MCRequests == {c1, c2, c3}
MCObservers == {}
MCGateOf == [c \in {c1, c2, c3} |-> Port]
MCSplitting == {c1}
==============================================================================
