------------------------------- MODULE MCFrame -------------------------------
(* Binary digits and a prefix of two of them, so that lengths end at 3; bodies   *)
(* of every length up to one that does not fit, over a stream of three bytes.    *)
EXTENDS Frame

MCBodies == {<<>>, <<1>>, <<0, 1>>, <<1, 1, 0>>, <<0, 1, 0, 1>>}
MCLimits == {1, 3, 4}
==============================================================================
