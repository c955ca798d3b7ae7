------------------------ MODULE AsyncSingleDaemonProofs ------------------------
(***************************************************************************)
(* Proofs about AsyncSingleDaemon, the Unix and the TCP shell of one       *)
(* listener, for any clients and limit: its steps are steps of the gate,   *)
(* the runtime is stopped behind the gate, and a dropped daemon leaves no  *)
(* socket, no waiting client and no file behind.                           *)
(***************************************************************************)
EXTENDS AsyncSingleDaemon, AsyncListenerProofs

\* The port is the only gate, and every connection is its.
LEMMA OnePort ==
    /\ Gates = {Port} /\ Listeners = {Port} /\ Connections = Requests
    /\ \A c \in Connections : GateOf[c] = Port
    /\ Of(Port) = Connections
  BY SingleAssumption, GateOfType DEF Listeners, Connections, Of

------------------------------------------------------------------------------
(* The daemon and its gate. *)

\* Every step of the daemon is a step of the gate or leaves it alone.
LEMMA DaemonStepsGate == [Next]_vars => [GateNext]_gateVars
  <1> SUFFICES ASSUME [Next]_vars PROVE [GateNext]_gateVars
    OBVIOUS
  <1>1. CASE StopGate
    BY <1>1, OnePort DEF StopGate, GateNext
  <1>2. CASE LoopStep
    <2>1. CASE ListenerNext(Port)
      BY <2>1, OnePort, ListenerStepsGates
    <2>2. CASE \E c \in Connections : ContextFails(c)
      BY <2>2 DEF ContextFails
    <2> QED
      BY <1>2, <2>1, <2>2 DEF LoopStep
  <1>3. CASE Supervise \/ BindFails \/ StartFails \/ ServeAgain \/ UNCHANGED vars
    BY <1>1, <1>3 DEF Supervise, Bind, Start, AwaitGate, RuntimeStops, Return, BindFails,
                      StartFails, ServeAgain, vars
  <1>4. CASE DropLoop \/ DropAll
    <2>1. UNCHANGED gateVars \/ \E c \in Connections : Abandon(c)
      BY <1>4 DEF DropLoop, DropAll, CancelServe, In, Of
    <2> QED
      BY <2>1 DEF GateNext, Connections
  <1> QED
    BY <1>1, <1>2, <1>3, <1>4 DEF Next

\* The daemon uses its gate only as RequestGate allows, on either transport, whoever
\* drives it and whatever futures are dropped (serve_connections, stop).
THEOREM DaemonImplementsGate == Spec => GateSpec
  <1>1. Init => GateInit
    BY DEF Init
  <1> QED
    BY <1>1, DaemonStepsGate, PTL DEF Spec, GateSpec

\* What is proved of the gates holds in the daemon (serve_connections, stop).
LEMMA DaemonKeepsGate == Spec => [](GateInv /\ StoppedInv)
  BY DaemonImplementsGate, GateInvHolds, StoppedGatesStayEmpty, PTL

------------------------------------------------------------------------------
(* Handlers, asks and the supervisor. *)

\* Before start() the loop has accepted nothing.
UnstartedInv == daemon \in {"unbound", "bound"} => serve[Port] = "unstarted"

\* Dropping the daemon drops what waits in the backlog, and neither a handler nor the
\* stream a loop holds.
LEMMA DropDaemonKeeps ==
    ASSUME HandlerInv, AskInv, NEW outcome, DropDaemon(outcome, {}), UNCHANGED gateVars,
           serve' \in [Listeners -> ServeStates],
           \A l \in Listeners : serve'[l] = "asking" <=> serve[l] = "asking"
    PROVE  HandlerInv' /\ AskInv'
  <1>1. conn \in [Connections -> ConnStates]
    BY DEF HandlerInv, ListenerTypeOK
  <1>2. /\ conn' \in [Connections -> ConnStates]
        /\ \A c \in Connections : /\ conn'[c] = "handling" <=> conn[c] = "handling"
                                  /\ conn'[c] = "accepted" <=> conn[c] = "accepted"
    BY <1>1 DEF DropDaemon, ConnAfter, ConnStates
  <1>3. UNCHANGED <<phase, abandoned>> /\ \A c \in Connections : Pending(c)' <=> Pending(c)
    BY DEF gateVars, Pending
  <1>4. HandlerInv'
    BY <1>2, <1>3, OwnersAlone DEF DropDaemon, HandlerInv, ListenerTypeOK
  <1> QED
    BY <1>2, <1>3, <1>4, AsksAlone

\* Dropping everything drops the stream the loop holds and leaves its ask behind.
LEMMA DropAllKeeps ==
    ASSUME HandlerInv, AskInv, DropAll
    PROVE  HandlerInv' /\ AskInv'
  <1> DEFINE held == In(Port, {"accepted"})
  <1>1. /\ conn \in [Connections -> ConnStates] /\ serve \in [Listeners -> ServeStates]
        /\ \A c \in Connections : c \in held <=> conn[c] = "accepted"
    BY OnePort DEF HandlerInv, ListenerTypeOK, In
  <1>2. /\ serve' \in [Listeners -> ServeStates] /\ serve'[Port] # "asking"
        /\ serve[Port] # "asking" => serve'[Port] # "asking"
    BY <1>1, OnePort DEF DropAll, ServeStates
  <1>3. CASE serve[Port] # "asking"
    <2>1. held = {}
      BY <1>3, OnePort DEF AskInv, AcceptedInv, In, Of
    <2>2. DropDaemon("Dropped", {}) /\ UNCHANGED gateVars
      BY <1>3, <2>1 DEF DropAll
    <2> QED
      BY <1>2, <1>3, <2>2, OnePort, DropDaemonKeeps
  <1>4. CASE serve[Port] = "asking"
    <2>1. DropDaemon("Dropped", held) /\ \E c \in held : Abandon(c)
      BY <1>4 DEF DropAll
    <2>2. PICK c \in held : Abandon(c)
      BY <2>1
    <2>3. /\ \A d \in Connections : conn[d] = "accepted" => d = c
          /\ c \in Connections /\ conn[c] = "accepted" /\ phase[c] # "idle"
          /\ UNCHANGED phase /\ abandoned' = abandoned \cup {c}
      BY <1>1, <2>2, OnePort DEF AskInv, OneStreamInv, Abandon, In
    <2>4. /\ conn' \in [Connections -> ConnStates]
          /\ \A d \in Connections : /\ conn'[d] = "handling" <=> conn[d] = "handling"
                                    /\ conn'[d] # "accepted"
      BY <1>1, <2>1 DEF DropDaemon, ConnAfter, ConnStates
    <2>5. HandlerInv'
      BY <1>2, <2>1, <2>3, <2>4, OwnersAlone DEF DropDaemon, HandlerInv, ListenerTypeOK
    <2>6. AcceptedInv' /\ OneStreamInv' /\ FreshInv'
      BY <2>3, <2>4 DEF AskInv, AcceptedInv, OneStreamInv, FreshInv
    <2>7. AskingInv'
      BY <1>2, OnePort DEF AskingInv
    <2>8. PendingInv'
      BY <2>3 DEF AskInv, PendingInv, Pending
    <2> QED
      BY <2>5, <2>6, <2>7, <2>8 DEF AskInv
  <1> QED
    BY <1>3, <1>4

\* Every step of the daemon keeps handlers with their permits and the asks to the
\* stream the loop holds, and the loop begins after the bind.
LEMMA DaemonStep ==
    ASSUME GateInv, HandlerInv, AskInv, UnstartedInv, [Next]_vars
    PROVE  HandlerInv' /\ AskInv' /\ UnstartedInv'
  <1>1. CASE Bind
    <2>1. /\ UNCHANGED <<serve, conn, owned, phase, abandoned>> /\ open' = {Port}
          /\ daemon = "unbound" /\ daemon' = "bound"
      BY <1>1 DEF Bind, gateVars
    <2>2. HandlerInv'
      BY <2>1, OnePort DEF HandlerInv, ListenerTypeOK, OwnerInv
    <2>3. AskInv'
      BY <2>1, AsksAlone DEF Pending
    <2> QED
      BY <2>1, <2>2, <2>3 DEF UnstartedInv
  <1>2. CASE Start \/ ServeAgain
    <2>1. /\ UNCHANGED <<conn, open, owned, phase, abandoned>> /\ serve' = [serve EXCEPT ![Port] = "accepting"]
          /\ daemon' = "serving" /\ serve[Port] # "asking"
      BY <1>2 DEF Start, ServeAgain, gateVars, daemonVars, UnstartedInv
    <2>2. serve' \in [Listeners -> ServeStates] /\ serve'[Port] = "accepting"
      BY <2>1, OnePort DEF HandlerInv, ListenerTypeOK, ServeStates
    <2>3. AskInv'
      BY <2>1, <2>2, OnePort, AsksAlone DEF Pending
    <2>4. HandlerInv'
      BY <2>1, <2>2 DEF HandlerInv, ListenerTypeOK, OwnerInv
    <2> QED
      BY <2>1, <2>3, <2>4 DEF UnstartedInv
  <1>3. CASE StartFails \/ Return \/ DropAll
    <2>1. CASE DropAll
      BY <2>1, DropAllKeeps DEF DropAll, DropDaemon, UnstartedInv
    <2>2. CASE StartFails \/ Return
      <3>1. UNCHANGED <<gateVars, serve>> /\ \E outcome \in {"Start", "Listener", "Stopped"} : DropDaemon(outcome, {})
        BY <2>2 DEF StartFails, Return
      <3>2. serve' \in [Listeners -> ServeStates]
        BY <3>1 DEF HandlerInv, ListenerTypeOK
      <3> QED
        BY <3>1, <3>2, DropDaemonKeeps DEF DropDaemon, UnstartedInv
    <2> QED
      BY <1>3, <2>1, <2>2
  <1>4. CASE LoopStep
    <2>1. ListenerNext(Port) \/ \E c \in Of(Port) : ContextFails(c)
      BY <1>4, OnePort DEF LoopStep
    <2>2. HandlerInv' /\ AskInv'
      BY <2>1, OnePort, ListenerKeepsHandlers, ListenerKeepsAsks
    <2>3. serve[Port] = "unstarted" => UNCHANGED serve
      BY <2>1, OnePort DEF ListenerNext, GateInternal, listenerVars, ServeStep, AcceptNext, Admit,
                           AskFails, AcceptFails, ClientOrHandler, Connect, IntoParts,
                           HandlerReturns, ContextFails
    <2>4. UNCHANGED daemon
      BY <1>4 DEF LoopStep, daemonVars
    <2> QED
      BY <2>2, <2>3, <2>4 DEF UnstartedInv
  <1>5. CASE UNCHANGED <<listenerVars, phase, abandoned>>
             /\ (daemon' = daemon \/ daemon' \notin {"unbound", "bound"})
    <2>1. HandlerInv' /\ UnstartedInv'
      BY <1>5 DEF HandlerInv, ListenerTypeOK, OwnerInv, UnstartedInv, listenerVars
    <2>2. AskInv'
      BY <1>5, AsksAlone DEF Pending, listenerVars
    <2> QED
      BY <2>1, <2>2
  <1>6. StopGate \/ AwaitGate \/ RuntimeStops \/ BindFails \/ UNCHANGED vars
            => /\ UNCHANGED <<listenerVars, phase, abandoned>>
               /\ daemon' = daemon \/ daemon' \notin {"unbound", "bound"}
    BY DEF StopGate, StopGracefully, AwaitGate, RuntimeStops, BindFails, gateVars, vars, daemonVars
  <1>7. CASE DropLoop
    <2>1. HandlerInv' /\ AskInv'
      BY <1>7, OnePort, CancelServeKeeps DEF DropLoop
    <2>2. daemon' = "serving"
      BY <1>7 DEF DropLoop, daemonVars
    <2> QED
      BY <2>1, <2>2 DEF UnstartedInv
  <1> QED
    BY <1>1, <1>2, <1>3, <1>4, <1>5, <1>6, <1>7 DEF Next, Supervise

\* The invariant of the loop and its handlers holds of every run of the daemon.
LEMMA LoopInvHolds == Spec => [](HandlerInv /\ AskInv /\ UnstartedInv)
  <1>1. Init => HandlerInv /\ AskInv /\ UnstartedInv
    BY OnePort, GateOfType
    DEF Init, ListenerInit, GateInit, HandlerInv, ListenerTypeOK, ServeStates, ConnStates, OwnerInv,
        AskInv, AcceptedInv, AskingInv, OneStreamInv, PendingInv, FreshInv, Pending, PendingPhases, UnstartedInv
  <1>2. GateInv /\ HandlerInv /\ AskInv /\ UnstartedInv /\ [Next]_vars
            => HandlerInv' /\ AskInv' /\ UnstartedInv'
    BY DaemonStep
  <1> QED
    BY <1>1, <1>2, DaemonKeepsGate, PTL DEF Spec

------------------------------------------------------------------------------
(* The stop. *)

\* stop() goes past its wait only behind a stopped gate.
StopInv == stopper \in {"stoppingRuntime", "done"} => gateState[Port] = "stopped"

\* Every step of the daemon keeps the gate stopped behind the wait.
LEMMA StopStep ==
    ASSUME GateInv, StoppedInv, StopInv, [Next]_vars
    PROVE  StopInv'
  <1>1. gateState[Port] = "stopped" => gateState'[Port] = "stopped"
    BY StoppedStep, DaemonStepsGate, OnePort
  <1> QED
    BY <1>1 DEF Next, Supervise, Bind, Start, StopGate, AwaitGate, RuntimeStops, Return, DropDaemon,
                BindFails, StartFails, LoopStep, DropLoop, ServeAgain, DropAll, daemonVars, vars,
                StopInv

\* In the Unix and the TCP shell the runtime is stopped only behind a stopped gate with
\* an empty mailbox, and one connection at most can still start a handler, whoever calls
\* stop() and whenever (BoundAsyncSingleListenerDaemon::stop).
THEOREM RuntimeStopsAfterGate == Spec => []RuntimeStopAfterGate
  <1>1. Init => StopInv
    BY DEF Init, StopInv
  <1>2. GateInv /\ StoppedInv /\ StopInv /\ [Next]_vars => StopInv'
    BY StopStep
  <1>3. AskInv /\ StoppedInv /\ StopInv => RuntimeStopAfterGate
    <2> SUFFICES ASSUME AskInv, StoppedInv, gateState[Port] = "stopped"
                 PROVE  /\ gateState[Port] = "stopped" /\ mailbox[Port] = <<>>
                        /\ Cardinality({c \in Connections : phase[c] \in {"spawned", "waiting", "granted"}}
                                          \ abandoned) <= 1
      BY DEF RuntimeStopAfterGate, StopInv
    <2>1. mailbox[Port] = <<>>
      BY OnePort DEF StoppedInv
    <2>2. {c \in Connections : phase[c] \in {"spawned", "waiting", "granted"}} \ abandoned
              \subseteq {c \in Of(Port) : Pending(c) /\ phase[c] # "refused"} \ abandoned
      BY OnePort DEF Pending, PendingPhases
    <2> QED
      BY <2>1, <2>2, OnePort, AwaitedIsHeld
  <1> QED
    BY <1>1, <1>2, <1>3, DaemonKeepsGate, LoopInvHolds, PTL DEF Spec

------------------------------------------------------------------------------
(* What is left behind. *)

\* Nothing is bound before bind(), nobody reports an outcome before the daemon is
\* dropped, and a dropped daemon never takes the socket, a client or a file back.
RemainsInv ==
    /\ daemon = "unbound" => open = {} /\ In(Port, {"backlog"}) = {} /\ ~socketFile
    /\ socketFile => transport = "unix"
    /\ NothingLeftBehind

\* The loop neither binds nor drops, and nobody connects to a closed socket.
LEMMA LoopKeepsRemains ==
    ASSUME HandlerInv, RemainsInv, LoopStep
    PROVE  RemainsInv'
  <1>1. UNCHANGED <<transport, daemon, stopper, result, socketFile>> /\ open' \subseteq open
    BY DEF LoopStep, daemonVars, ListenerNext, GateInternal, listenerVars, ServeStep, AcceptNext,
           Admit, AskFails, AcceptFails, ClientOrHandler, Connect, IntoParts, HandlerReturns,
           ContextFails, EndServe
  <1>2. ASSUME open = {}, NEW c \in Connections, conn'[c] = "backlog" PROVE conn[c] = "backlog"
    <2>1. conn \in [Connections -> ConnStates]
      BY DEF HandlerInv, ListenerTypeOK
    <2> QED
      BY <1>2, <2>1, OnePort
      DEF LoopStep, ListenerNext, GateInternal, listenerVars, ServeStep, AcceptNext, Admit, AskFails,
          AcceptFails, ClientOrHandler, Connect, IntoParts, HandlerReturns, ContextFails, EndServe,
          ConnAfter
  <1>3. open = {} /\ In(Port, {"backlog"}) = {} => open' = {} /\ In(Port, {"backlog"})' = {}
    BY <1>1, <1>2, OnePort DEF In
  <1> QED
    BY <1>1, <1>3 DEF RemainsInv, NothingLeftBehind

\* Every step of the daemon keeps the promise of what is left behind.
LEMMA RemainsStep ==
    ASSUME HandlerInv, RemainsInv, [Next]_vars
    PROVE  RemainsInv'
  <1>1. ASSUME NEW outcome, NEW lost, DropDaemon(outcome, lost),
               outcome \in {"Listener", "Stopped"} => stopper = "done", daemon # "unbound"
        PROVE  RemainsInv'
    <2>1. /\ daemon' = "dropped" /\ result' = outcome /\ open' = {} /\ ~socketFile'
          /\ UNCHANGED <<transport, stopper>>
      BY <1>1 DEF DropDaemon
    <2>2. \A c \in Connections : conn'[c] # "backlog"
      BY <1>1, OnePort DEF DropDaemon, ConnAfter
    <2>3. In(Port, {"backlog"})' = {}
      BY <2>2, OnePort DEF In
    <2> QED
      BY <1>1, <2>1, <2>3 DEF RemainsInv, NothingLeftBehind
  <1>2. CASE StartFails \/ Return \/ DropAll
    <2>1. CASE StartFails
      BY <1>1, <2>1 DEF StartFails
    <2>2. CASE Return
      BY <1>1, <2>2 DEF Return
    <2>3. CASE DropAll
      BY <1>1, <2>3 DEF DropAll
    <2> QED
      BY <1>2, <2>1, <2>2, <2>3
  <1>3. CASE Bind
    BY <1>3 DEF Bind, RemainsInv, NothingLeftBehind, In, Of
  <1>4. CASE BindFails
    <2>1. UNCHANGED <<conn, open, transport, stopper>> /\ daemon = "unbound" /\ daemon' = "dropped"
          /\ result' = "Bind" /\ socketFile' \in {FALSE, transport = "unix"}
      BY <1>4 DEF BindFails, listenerVars
    <2>2. In(Port, {"backlog"})' = In(Port, {"backlog"})
      BY <2>1 DEF In, Of
    <2> QED
      BY <2>1, <2>2 DEF RemainsInv, NothingLeftBehind
  <1>5. CASE Start \/ ServeAgain \/ StopGate \/ AwaitGate \/ RuntimeStops \/ UNCHANGED vars
    <2>1. /\ UNCHANGED <<conn, open, transport, result, socketFile>>
          /\ daemon' # "unbound" \/ daemon' = daemon
          /\ daemon' = "dropped" => daemon = "dropped"
          /\ stopper = "done" => stopper' = "done"
      BY <1>5 DEF Start, ServeAgain, StopGate, AwaitGate, RuntimeStops, vars, listenerVars, daemonVars
    <2>2. In(Port, {"backlog"})' = In(Port, {"backlog"})
      BY <2>1 DEF In, Of
    <2> QED
      BY <2>1, <2>2 DEF RemainsInv, NothingLeftBehind
  <1>6. CASE DropLoop
    BY <1>6 DEF DropLoop, daemonVars, RemainsInv, NothingLeftBehind
  <1> QED
    BY <1>2, <1>3, <1>4, <1>5, <1>6, LoopKeepsRemains DEF Next, Supervise

\* Whatever ends the daemon, its socket is closed, its backlog reset and its file gone,
\* but for the file of a bind whose chmod failed, and a loop's error is reported only
\* after stop() (run, AsyncSocketFile::drop, the drop of BoundTcpListenerDaemon).
THEOREM LeavesNothingBehind == Spec => []NothingLeftBehind
  <1>1. Init => RemainsInv
    BY DEF Init, ListenerInit, RemainsInv, NothingLeftBehind, In, Of
  <1>2. HandlerInv /\ RemainsInv /\ [Next]_vars => RemainsInv'
    BY RemainsStep
  <1>3. RemainsInv => NothingLeftBehind
    BY DEF RemainsInv
  <1> QED
    BY <1>1, <1>2, <1>3, LoopInvHolds, PTL DEF Spec

------------------------------------------------------------------------------
(* Handlers and types. *)

\* The handlers that own their AcceptedConnection are those whose permit is held, and
\* never more than the limit, also when an embedder serves again beside the handlers
\* of an earlier call (BoundAsyncSingleListenerDaemon::serve_next_connection).
OwningHandlersWithinLimit ==
    /\ In(Port, {"handling"}) = {c \in Connections : phase[c] = "held"}
    /\ Cardinality(In(Port, {"handling"})) <= Limit

\* They hold in every state, on either transport and for any number of clients.
THEOREM OwningHandlersAreLimited == Spec => []OwningHandlersWithinLimit
  <1>1. GateInv /\ HandlerInv => OwningHandlersWithinLimit
    BY OnePort, OwnersAreLimited DEF OwningHandlersWithinLimit
  <1> QED
    BY <1>1, DaemonKeepsGate, LoopInvHolds, PTL

\* The daemon's own variables.
DaemonTypes ==
    /\ transport \in {"unix", "tcp"} /\ driver \in {"run", "embedder"}
    /\ daemon \in DaemonStates /\ stopper \in StopperStates
    /\ result \in {"none", "Bind", "Start", "Listener", "Stopped", "Dropped"}
    /\ socketFile \in BOOLEAN

\* Every step of the daemon keeps them.
LEMMA DaemonTypesStep == DaemonTypes /\ [Next]_vars => DaemonTypes'
  BY DEF DaemonTypes, DaemonStates, StopperStates, Next, Supervise, Bind, Start, StopGate, AwaitGate,
         RuntimeStops, Return, BindFails, StartFails, LoopStep, DropLoop, ServeAgain, DropAll,
         DropDaemon, vars, daemonVars

\* The gate, the loop and the daemon keep their types for any number of clients
\* (BoundAsyncSingleListenerDaemon, BoundTcpListenerDaemon).
THEOREM DaemonTypeCorrect == Spec => []SingleTypeOK
  <1>1. Init => DaemonTypes
    BY DEF Init, DaemonTypes, DaemonStates, StopperStates
  <1>2. GateInv /\ HandlerInv /\ DaemonTypes => SingleTypeOK
    BY DEF GateInv, HandlerInv, DaemonTypes, SingleTypeOK
  <1> QED
    BY <1>1, <1>2, DaemonTypesStep, DaemonKeepsGate, LoopInvHolds, PTL DEF Spec
================================================================================
