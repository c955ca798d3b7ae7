---------------------------- MODULE MCRequestGate ----------------------------
(* One gate of two permits that three requests and a status observer share.  *)
EXTENDS RequestGate

CONSTANTS ordinary, r1, r2, r3, o1

MCGates == {ordinary}
MCRequests == {r1, r2, r3}
MCObservers == {o1}
MCGateOf == [a \in Askers |-> ordinary]
==============================================================================
