---------------------------- MODULE AsyncListener ----------------------------
(***************************************************************************)
(* The accept loop that the async shells share (src/async_runtime.rs       *)
(* AsyncListenerTask and BoundAsyncSingleListenerDaemon, src/tcp.rs        *)
(* BoundTcpListenerDaemon), composed with the gate: accept a stream, ask   *)
(* the listener's RequestGate for a permit, spawn the handler with it.     *)
(* Listeners are the gates of RequestGate and connections its requests.    *)
(* Every action here is one step of the gate or leaves the gate alone.     *)
(***************************************************************************)
EXTENDS RequestGate

CONSTANT Splitting   \* connections whose handler calls into_parts()

Listeners == Gates
Connections == Requests

ASSUME ListenerAssumption ==
    /\ Observers = {}
    /\ Splitting \subseteq Connections

VARIABLES serve,    \* what the accept loop of each listener does
          conn,     \* where each client connection is
          open,     \* the listeners whose socket is bound and listening
          owned     \* the listeners that were moved into their accept task

listenerVars == <<serve, conn, open, owned>>

ServeStates == {"unstarted", "accepting", "asking", "failed", "panicked", "cancelled"}
ConnStates == {"absent", "backlog", "accepted", "handling", "detached", "done", "dropped"}

ListenerTypeOK ==
    /\ serve \in [Listeners -> ServeStates]
    /\ conn \in [Connections -> ConnStates]
    /\ open \subseteq Listeners /\ owned \subseteq Listeners

ListenerInit ==
    /\ serve = [l \in Listeners |-> "unstarted"]
    /\ conn = [c \in Connections |-> "absent"]
    /\ open = {} /\ owned = {}

Of(l) == {c \in Connections : GateOf[c] = l}
In(l, states) == {c \in Of(l) : conn[c] \in states}

\* The connections after the lost ones are dropped and the closed sockets reset
\* what waits in their backlog.
ConnAfter(lost, closed) ==
    [c \in Connections |->
        IF c \in lost \/ (GateOf[c] \in closed /\ conn[c] = "backlog")
        THEN "dropped" ELSE conn[c]]

\* A client connects: the kernel queues it whether or not the loop is accepting.
Connect(c) ==
    /\ conn[c] = "absent"
    /\ GateOf[c] \in open
    /\ conn' = [conn EXCEPT ![c] = "backlog"]
    /\ UNCHANGED <<serve, open, owned>>
    /\ UNCHANGED gateVars

\* Mutant: the loop goes back to accept() before its ask is answered.
BugUnawaitedAsk(c) ==
    /\ serve[GateOf[c]] = "accepting"
    /\ conn[c] = "backlog"
    /\ conn' = [conn EXCEPT ![c] = "accepted"]
    /\ UNCHANGED <<serve, open, owned>>
    /\ Ask(c)

\* accept() returns a stream, its context is read, and the permit is asked for;
\* the loop does not accept again before the answer.
AcceptNext(c) ==
    /\ serve[GateOf[c]] = "accepting"
    /\ conn[c] = "backlog"
    /\ serve' = [serve EXCEPT ![GateOf[c]] = "asking"]
    /\ conn' = [conn EXCEPT ![c] = "accepted"]
    /\ UNCHANGED <<open, owned>>
    /\ Ask(c)

\* The loop returns: an owned listener is dropped with it, a borrowed one stays.
EndServe(l, how, lost) ==
    LET closed == {l} \cap owned IN
    /\ serve' = [serve EXCEPT ![l] = how]
    /\ conn' = ConnAfter(lost, closed)
    /\ open' = open \ closed
    /\ UNCHANGED owned

\* The loop's future is dropped where it waits: at accept(), or at the ask, whose
\* stream and future go with it.
CancelServe(l) ==
    \/ serve[l] = "accepting" /\ EndServe(l, "cancelled", {}) /\ UNCHANGED gateVars
    \/ /\ serve[l] = "asking"
       /\ \E c \in In(l, {"accepted"}) : EndServe(l, "cancelled", {c}) /\ Abandon(c)

\* accept() fails: the error is not retried, it ends the loop.
AcceptFails(l) ==
    /\ serve[l] = "accepting"
    /\ EndServe(l, "failed", {})
    /\ UNCHANGED gateVars

\* The credentials of an accepted Unix stream cannot be read: the stream is lost
\* and the loop ends (a TCP stream has none to read).
ContextFails(c) ==
    /\ serve[GateOf[c]] = "accepting"
    /\ conn[c] = "backlog"
    /\ EndServe(GateOf[c], "failed", {c})
    /\ UNCHANGED gateVars

\* Mutant: the gate's error is logged like a request's and the loop goes on.
BugAskErrorLogged(c) ==
    /\ serve[GateOf[c]] = "asking"
    /\ conn[c] = "accepted"
    /\ phase[c] = "refused"
    /\ serve' = [serve EXCEPT ![GateOf[c]] = "accepting"]
    /\ conn' = [conn EXCEPT ![c] = "dropped"]
    /\ UNCHANGED <<open, owned>>
    /\ UNCHANGED gateVars

\* The gate has stopped: the ask is answered with an error, which ends the loop.
AskFails(c) ==
    /\ serve[GateOf[c]] = "asking"
    /\ conn[c] = "accepted"
    /\ phase[c] = "refused"
    /\ EndServe(GateOf[c], "failed", {c})
    /\ UNCHANGED gateVars

\* Mutant: the handler starts while the permit is still being asked for.
BugSpawnBeforePermit(c) ==
    /\ serve[GateOf[c]] = "asking"
    /\ conn[c] = "accepted"
    /\ serve' = [serve EXCEPT ![GateOf[c]] = "accepting"]
    /\ conn' = [conn EXCEPT ![c] = "handling"]
    /\ UNCHANGED <<open, owned>>
    /\ UNCHANGED gateVars

\* The permit arrives: the handler is spawned on a task of its own, without an
\* await in between, and the loop accepts again.
Admit(c) ==
    /\ serve[GateOf[c]] = "asking"
    /\ conn[c] = "accepted"
    /\ serve' = [serve EXCEPT ![GateOf[c]] = "accepting"]
    /\ conn' = [conn EXCEPT ![c] = "handling"]
    /\ UNCHANGED <<open, owned>>
    /\ Deliver(c)

\* AcceptedConnection::into_parts keeps the stream and the context and drops the
\* permit; the handler goes on.
IntoParts(c) ==
    /\ c \in Splitting
    /\ conn[c] = "handling"
    /\ conn' = [conn EXCEPT ![c] = "detached"]
    /\ UNCHANGED <<serve, open, owned>>
    /\ Release(c)

\* Mutant: the end of a split handler returns a permit it no longer has.
BugDoubleRelease(c) ==
    /\ \/ conn[c] = "handling" /\ Release(c)
       \/ conn[c] = "detached" /\ ReturnPermit(c)
    /\ conn' = [conn EXCEPT ![c] = "done"]
    /\ UNCHANGED <<serve, open, owned>>

\* The handler returns, fails (and is logged) or panics: in each case its task
\* ends, dropping the connection and the permit it still holds.
HandlerReturns(c) ==
    /\ \/ conn[c] = "handling" /\ Release(c)
       \/ conn[c] = "detached" /\ UNCHANGED gateVars
    /\ conn' = [conn EXCEPT ![c] = "done"]
    /\ UNCHANGED <<serve, open, owned>>

\* Steps the executor takes inside the gates.
GateInternal(g) ==
    /\ \/ HandleNext(g)
       \/ \E c \in Of(g) : AcquirePermit(c) \/ DropReply(c)
    /\ UNCHANGED listenerVars

\* One turn of a listener's accept loop.
ServeStep(l) ==
    \E c \in Of(l) : AcceptNext(c) \/ Admit(c) \/ AskFails(c)

ClientOrHandler(c) == Connect(c) \/ IntoParts(c) \/ HandlerReturns(c)

ListenerNext(l) ==
    \/ GateInternal(l) \/ ServeStep(l) \/ AcceptFails(l)
    \/ \E c \in Of(l) : ClientOrHandler(c)
==============================================================================
