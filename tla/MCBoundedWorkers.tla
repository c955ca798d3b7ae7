--------------------------- MODULE MCBoundedWorkers ---------------------------
(* Two permits and four calls of dispatch.                                     *)
EXTENDS BoundedWorkers

CONSTANTS t1, t2, t3, t4

MCTasks == {t1, t2, t3, t4}
==============================================================================
