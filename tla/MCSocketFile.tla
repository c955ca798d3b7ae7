----------------------------- MODULE MCSocketFile -----------------------------
(* Three runs of a daemon, one after the other or overlapping.                 *)
EXTENDS SocketFile

CONSTANTS i1, i2, i3

MCRuns == {i1, i2, i3}
==============================================================================
