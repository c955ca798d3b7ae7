------------------------------- MODULE MCRunner -------------------------------
(* Three drives: no budget at all, an ordinary one, and the largest count.     *)
EXTENDS Runner

CONSTANTS d0, d2, d3

MCDrives == {d0, d2, d3}
MCLimitOf == [d \in {d0, d2, d3} |-> CASE d = d0 -> 0 [] d = d2 -> 2 [] OTHER -> 3]
==============================================================================
