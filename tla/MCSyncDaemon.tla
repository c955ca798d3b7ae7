----------------------------- MODULE MCSyncDaemon -----------------------------
(* Three listeners, the first with two clients and the others with one, that    *)
(* connect again and again; a mode is applied to the first socket.              *)
EXTENDS SyncDaemon

CONSTANTS c1, c2, c3, c4

MCClients == {c1, c2, c3, c4}
MCListenerOf == [c \in {c1, c2, c3, c4} |-> IF c = c4 THEN 3 ELSE IF c = c3 THEN 2 ELSE 1]
MCWithMode == {1}
==============================================================================
