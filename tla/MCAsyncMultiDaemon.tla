-------------------------- MODULE MCAsyncMultiDaemon --------------------------
(* An ordinary and a meta listener of one permit each.  The first has two      *)
(* clients, one of which is handled by a runtime that calls into_parts(); the  *)
(* second has one, which comes only under run().                               *)
EXTENDS AsyncMultiDaemon

CONSTANTS c1, c2, c3

MCGates == 1..2
MCRequests == {c1, c2, c3}
MCObservers == {}
MCGateOf == [c \in {c1, c2, c3} |-> IF c = c3 THEN 2 ELSE 1]
MCSplitting == {c1}
MCWithMode == {2}
MCClientsOf == [run |-> {c1, c2, c3}, embedder |-> {c1, c2}]
==============================================================================
