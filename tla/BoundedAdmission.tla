--------------------------- MODULE BoundedAdmission ---------------------------
(***************************************************************************)
(* What an admission pool promises, whatever it is built from: never more  *)
(* than Limit clients of one pool are live together, and a client that has *)
(* left is not admitted again unless it is one that asks again.            *)
(* RequestGate (tokio semaphore behind a Kameo actor) and BoundedWorkers   *)
(* (mutex and condition variable) both implement it.                       *)
(***************************************************************************)
EXTENDS Integers, FiniteSets

CONSTANTS Clients,   \* whoever asks to be admitted
          Pools,     \* the admission pools
          Pool(_),   \* the pool a client asks
          Returning, \* the clients that ask again when they have left
          Limit      \* how many clients a pool admits at a time

VARIABLES live,      \* clients now admitted
          gone       \* clients that were admitted, have left and do not return

vars == <<live, gone>>

LiveIn(p) == {c \in live : Pool(c) = p}

Init == live = {} /\ gone = {}

Enter(c) ==
    /\ c \notin live \cup gone
    /\ Cardinality(LiveIn(Pool(c))) < Limit
    /\ live' = live \cup {c}
    /\ UNCHANGED gone

Leave(c) ==
    /\ c \in live
    /\ live' = live \ {c}
    /\ gone' = gone \cup ({c} \ Returning)

\* The slot of c goes to d in the same step: no third client can take it.
Handover(c, d) ==
    /\ c \in live
    /\ d \notin live \cup gone
    /\ Pool(c) = Pool(d)
    /\ live' = (live \ {c}) \cup {d}
    /\ gone' = gone \cup ({c} \ Returning)

Next == \E c \in Clients : Enter(c) \/ Leave(c) \/ \E d \in Clients : Handover(c, d)

Spec == Init /\ [][Next]_vars
===============================================================================
