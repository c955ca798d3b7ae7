------------------------------- MODULE MCTrace -------------------------------
(* Two recorders and a client that collects twice, or one recorder and two      *)
(* clients that take over the path, one after the other or at once.  The        *)
(* backlog holds one connection and one frame does not fit the buffer.          *)
EXTENDS Trace

CONSTANTS r1, r2, l1, l2

MCRecorders == {r1, r2}
MCListeners == {l1, l2}
MCBigEvents == {<<r1, 2>>}
MCGoals == {1}
Counts(first, second) == [r \in MCRecorders |-> IF r = r1 THEN first ELSE second]
MCWorkloads ==
    {[events |-> Counts(2, 1), clients |-> {l1}, calls |-> 2],
     [events |-> Counts(2, 0), clients |-> MCListeners, calls |-> 1]}
==============================================================================
