------------------------ MODULE AsyncMultiDaemonProofs ------------------------
(***************************************************************************)
(* Proofs about AsyncMultiDaemon for any listeners, clients and limit:     *)
(* the daemon only ever steps its gates as RequestGate allows, so what is  *)
(* proved of the gates holds in the daemon, and with it the bound on the   *)
(* handlers that own their connection.                                     *)
(***************************************************************************)
EXTENDS AsyncMultiDaemon, AsyncListenerProofs

\* The supervisor's index names a listener while it binds, serves and stops.
SupervisorInv ==
    /\ daemon \in DaemonStates
    /\ step \in 1..(ListenerCount + 1)
    /\ daemon \in {"binding", "bound", "serving", "stopping"} => step \in Listeners
    /\ daemon \in {"bound", "serving"} => step = 1

------------------------------------------------------------------------------
(* The daemon and its gates. *)

\* Listeners, handlers and clients do not move the supervisor.
LEMMA SupervisorStep == SupervisorInv /\ [Next]_vars => SupervisorInv'
  <1> SUFFICES ASSUME SupervisorInv, [Next]_vars PROVE SupervisorInv'
    OBVIOUS
  <1>1. ListenerCount \in Nat \ {0} /\ Listeners = 1..ListenerCount
    BY MultiAssumption
  <1>2. CASE BindNext
    BY <1>1, <1>2 DEF BindNext, SupervisorInv, DaemonStates
  <1>3. CASE StopNextGate
    BY <1>1, <1>3 DEF StopNextGate, SupervisorInv, DaemonStates
  <1>4. CASE Start \/ JoinFailure \/ AwaitGates \/ RuntimeStops \/ EmbedderStops
    BY <1>1, <1>4 DEF Start, JoinFailure, AwaitGates, RuntimeStops, EmbedderStops, Exit,
                      SupervisorInv, DaemonStates
  <1>5. CASE BindFails \/ ChmodFails \/ StartFails \/ DropBind \/ DropRun \/ EmbedderDrops
    BY <1>1, <1>5 DEF BindFails, ChmodFails, StartFails, DropBind, DropRun, EmbedderDrops, Exit,
                      SupervisorInv, DaemonStates
  <1>6. CASE UNCHANGED <<daemon, step>>
    BY <1>6 DEF SupervisorInv
  <1> QED
    BY <1>2, <1>3, <1>4, <1>5, <1>6
    DEF Next, Supervise, TaskStep, TaskPanics, Cancel, ServeAt, DropCall, vars, daemonVars

\* Every step of the daemon is a step of the gates or leaves them alone.
LEMMA DaemonStepsGates == SupervisorInv /\ [Next]_vars => [GateNext]_gateVars
  <1> SUFFICES ASSUME SupervisorInv, [Next]_vars PROVE [GateNext]_gateVars
    OBVIOUS
  <1>1. CASE Supervise
    <2>1. CASE StopNextGate
      <3>1. PICK g \in Gates : g = step
        BY <2>1 DEF StopNextGate, SupervisorInv, Listeners
      <3>2. StopGracefully(g)
        BY <2>1, <3>1 DEF StopNextGate, StopGracefully, InMailbox
      <3> QED
        BY <3>2 DEF GateNext
    <2> QED
      BY <1>1, <2>1 DEF Supervise, BindNext, Start, JoinFailure, AwaitGates, RuntimeStops
  <1>2. CASE BindFails \/ ChmodFails \/ StartFails \/ DropBind \/ DropRun \/ EmbedderStops \/ EmbedderDrops
    BY <1>2 DEF BindFails, ChmodFails, StartFails, DropBind, DropRun, EmbedderStops, EmbedderDrops
  <1>3. ASSUME NEW l \in Listeners, TaskStep(l) PROVE [GateNext]_gateVars
    BY <1>3, ListenerStepsGates DEF TaskStep
  <1>4. ASSUME NEW l \in Listeners, TaskPanics(l) PROVE [GateNext]_gateVars
    BY <1>4 DEF TaskPanics
  <1>5. ASSUME NEW l \in Listeners, Cancel(l) \/ DropCall(l) \/ ServeAt(l)
        PROVE  [GateNext]_gateVars
    <2>1. In(l, {"accepted"}) \subseteq Requests
      BY DEF In, Of, Connections
    <2> QED
      BY <1>5, <2>1 DEF Cancel, DropCall, ServeAt, CancelServe, GateNext
  <1>6. CASE UNCHANGED vars
    BY <1>6 DEF vars
  <1> QED
    BY <1>1, <1>2, <1>3, <1>4, <1>5, <1>6 DEF Next

\* The supervisor's invariant holds of every run of the daemon.
LEMMA SupervisorInvHolds == Spec => []SupervisorInv
  <1>1. Init => SupervisorInv
    BY MultiAssumption DEF Init, SupervisorInv, DaemonStates
  <1> QED
    BY <1>1, SupervisorStep, PTL DEF Spec

\* The daemon implements its gates: bind, serve, abort and stop never use a gate in
\* a way that RequestGate does not allow (AsyncListenerTask, stop).
THEOREM DaemonImplementsGates == Spec => ImplementsGates
  <1>1. Init => GateInit
    BY DEF Init
  <1> QED
    BY <1>1, SupervisorInvHolds, DaemonStepsGates, PTL DEF Spec, ImplementsGates, GateSpec

\* What is proved of the gates holds in the daemon.
THEOREM DaemonKeepsGateInv == Spec => []GateInv
  BY DaemonImplementsGates, GateInvHolds, PTL DEF ImplementsGates

\* No permit is made or lost in the daemon, through panics, aborts and the stop
\* (JoinSet::abort_all against RequestPermitPool).
THEOREM DaemonConservesPermits == Spec => []PermitConservation
  BY DaemonKeepsGateInv, PTL DEF GateInv

------------------------------------------------------------------------------
(* Handlers and permits. *)

\* All listeners are dropped at once: the same.
LEMMA DropListenersKeepsHandlers ==
    ASSUME HandlerInv, NEW left, DropListeners(left), UNCHANGED gateVars
    PROVE  HandlerInv'
  <1>1. /\ conn' \in [Connections -> ConnStates]
        /\ \A c \in Connections : conn'[c] = "handling" <=> conn[c] = "handling"
    BY HandlersSurvive DEF DropListeners, HandlerInv, ListenerTypeOK
  <1>2. /\ serve' \in [Listeners -> ServeStates] /\ open' \subseteq Listeners
        /\ owned' \subseteq Listeners
    BY DEF DropListeners, HandlerInv, ListenerTypeOK
  <1> QED
    BY <1>1, <1>2, OwnersAlone DEF HandlerInv, ListenerTypeOK, gateVars

\* Every step of the daemon keeps handlers and held permits together.
LEMMA DaemonKeepsHandlers ==
    ASSUME SupervisorInv, GateInv, HandlerInv, [Next]_vars
    PROVE  HandlerInv'
  <1>1. CASE BindNext
    <2>1. step \in Listeners
      BY <1>1 DEF BindNext, SupervisorInv
    <2> QED
      BY <1>1, <2>1 DEF BindNext, HandlerInv, ListenerTypeOK, OwnerInv, gateVars
  <1>2. CASE Start
    BY <1>2 DEF Start, HandlerInv, ListenerTypeOK, ServeStates, OwnerInv, gateVars
  <1>3. CASE StopNextGate
    BY <1>3 DEF StopNextGate, StopGracefully, HandlerInv, ListenerTypeOK, OwnerInv, listenerVars
  <1>4. CASE UNCHANGED <<gateVars, listenerVars>>
    BY <1>4 DEF HandlerInv, ListenerTypeOK, OwnerInv, listenerVars, gateVars
  <1>5. CASE BindFails \/ ChmodFails \/ StartFails \/ DropBind \/ DropRun \/ EmbedderDrops
    BY <1>4, <1>5, DropListenersKeepsHandlers
    DEF BindFails, ChmodFails, StartFails, DropBind, DropRun, EmbedderDrops
  <1>6. ASSUME NEW l \in Listeners, TaskStep(l) PROVE HandlerInv'
    BY <1>6, ListenerKeepsHandlers DEF TaskStep
  <1>7. ASSUME NEW l \in Listeners, TaskPanics(l) PROVE HandlerInv'
    BY <1>7, EndServeKeepsHandlers DEF TaskPanics, ServeStates, gateVars
  <1>8. ASSUME NEW l \in Listeners, Cancel(l) \/ DropCall(l) PROVE HandlerInv'
    <2>1. CASE EndServe(l, "cancelled", {}) /\ UNCHANGED gateVars
      BY <2>1, EndServeKeepsHandlers DEF ServeStates, gateVars
    <2>2. ASSUME NEW c \in In(l, {"accepted"}), EndServe(l, "cancelled", {c}), Abandon(c)
          PROVE  HandlerInv'
      <3>1. conn[c] # "handling"
        BY DEF In
      <3> QED
        BY <2>2, <3>1, EndServeKeepsHandlers DEF ServeStates, Abandon
    <2> QED
      BY <1>8, <2>1, <2>2 DEF Cancel, DropCall, CancelServe
  <1>9. ASSUME NEW l \in Listeners, ServeAt(l) PROVE HandlerInv'
    BY <1>9 DEF ServeAt, HandlerInv, ListenerTypeOK, ServeStates, OwnerInv, gateVars
  <1> QED
    BY <1>1, <1>2, <1>3, <1>4, <1>5, <1>6, <1>7, <1>8, <1>9
    DEF Next, Supervise, JoinFailure, AwaitGates, RuntimeStops, EmbedderStops, vars

\* The handlers' invariant holds of every run of the daemon.
THEOREM HandlerInvHolds == Spec => []HandlerInv
  <1>1. Init => HandlerInv
    BY GateOfType DEF Init, ListenerInit, GateInit, HandlerInv, ListenerTypeOK, ServeStates,
                      ConnStates, OwnerInv, Connections
  <1>2. SupervisorInv /\ GateInv /\ HandlerInv /\ [Next]_vars => HandlerInv'
    BY DaemonKeepsHandlers
  <1> QED
    BY <1>1, <1>2, SupervisorInvHolds, DaemonKeepsGateInv, PTL DEF Spec

\* In a daemon of any number of listeners and clients, the handlers that own their
\* AcceptedConnection are those whose permit is held, and a listener never has more
\* of them than its limit (AsyncListenerTask::spawn_connection).
THEOREM OwningHandlersAreLimited == Spec => []OwningHandlersWithinLimit
  <1>1. GateInv /\ HandlerInv => OwningHandlersWithinLimit
    BY OwnersAreLimited DEF OwningHandlersWithinLimit
  <1> QED
    BY <1>1, DaemonKeepsGateInv, HandlerInvHolds, PTL

------------------------------------------------------------------------------
(* The asks and the stop. *)

\* Before Start no loop has accepted anything.
UnstartedInv ==
    daemon = "binding" \/ (daemon = "bound" /\ driver = "run") =>
        \A l \in Listeners : serve[l] = "unstarted"

\* Nobody serves before the bind, and under run() nobody before the start.
LEMMA UnstartedStep ==
    ASSUME HandlerInv, UnstartedInv, [Next]_vars
    PROVE  UnstartedInv'
  <1>1. CASE \/ Supervise \/ BindFails \/ ChmodFails \/ StartFails \/ DropBind \/ DropRun
             \/ EmbedderStops \/ EmbedderDrops \/ UNCHANGED vars
    BY <1>1 DEF Supervise, BindNext, Start, JoinFailure, StopNextGate, AwaitGates, RuntimeStops,
                BindFails, ChmodFails, StartFails, DropBind, DropRun, EmbedderStops, EmbedderDrops,
                DropListeners, Exit, listenerVars, daemonVars, vars, UnstartedInv
  <1>2. ASSUME NEW l \in Listeners, TaskStep(l) \/ TaskPanics(l) \/ Cancel(l) \/ ServeAt(l) \/ DropCall(l),
               daemon = "binding" \/ (daemon = "bound" /\ driver = "run")
        PROVE  UNCHANGED serve
    <2>1. \A c \in Of(l) : GateOf[c] = l
      BY DEF Of
    <2>2. serve[l] = "unstarted"
      BY <1>2 DEF UnstartedInv
    <2>3. ListenerNext(l) => UNCHANGED serve
      BY <2>1, <2>2 DEF ListenerNext, GateInternal, listenerVars, ServeStep, AcceptNext, Admit,
                        AskFails, AcceptFails, ClientOrHandler, Connect, IntoParts, HandlerReturns
    <2> QED
      BY <1>2, <2>1, <2>2, <2>3 DEF TaskStep, ContextFails, TaskPanics, Cancel, CancelServe,
                                    ServeAt, DropCall, Embedded
  <1>3. ASSUME NEW l \in Listeners, TaskStep(l) \/ TaskPanics(l) \/ Cancel(l) \/ ServeAt(l) \/ DropCall(l)
        PROVE  UNCHANGED <<daemon, driver>>
    BY <1>3 DEF TaskStep, TaskPanics, Cancel, ServeAt, DropCall, daemonVars
  <1> QED
    BY <1>1, <1>2, <1>3 DEF Next, UnstartedInv

\* Dropping all the listeners drops no accepted stream.
LEMMA DropListenersKeepsAsks ==
    ASSUME AskInv, HandlerInv, NEW left, DropListeners(left), UNCHANGED gateVars
    PROVE  AskInv'
  <1>1. UNCHANGED <<serve, phase, abandoned>> /\ \A c \in Connections : Pending(c)' <=> Pending(c)
    BY DEF DropListeners, gateVars, Pending
  <1>2. \A c \in Connections : conn'[c] = "accepted" <=> conn[c] = "accepted"
    BY DEF DropListeners, ConnAfter, HandlerInv, ListenerTypeOK
  <1> QED
    BY <1>1, <1>2, AsksAlone

\* Every step of the daemon keeps the asks of a listener to the stream its loop holds.
LEMMA DaemonKeepsAsks ==
    ASSUME GateInv, HandlerInv, UnstartedInv, AskInv, [Next]_vars
    PROVE  AskInv'
  <1>1. CASE UNCHANGED <<conn, phase, abandoned>>
             /\ \A l \in Listeners : serve'[l] = "asking" <=> serve[l] = "asking"
    <2>1. \A c \in Connections : Pending(c)' <=> Pending(c)
      BY <1>1 DEF Pending
    <2> QED
      BY <1>1, <2>1, AsksAlone
  <1>2. CASE Start
    BY <1>1, <1>2 DEF Start, UnstartedInv, gateVars
  <1>3. CASE BindFails \/ ChmodFails \/ StartFails \/ DropBind \/ DropRun \/ EmbedderDrops
    BY <1>1, <1>3, DropListenersKeepsAsks
    DEF BindFails, ChmodFails, StartFails, DropBind, DropRun, EmbedderDrops, gateVars, listenerVars
  <1>4. CASE Supervise \/ EmbedderStops
    BY <1>1, <1>2, <1>4 DEF Supervise, BindNext, JoinFailure, StopNextGate, StopGracefully,
                             AwaitGates, RuntimeStops, EmbedderStops, gateVars, listenerVars
  <1>5. ASSUME NEW l \in Listeners, TaskStep(l) PROVE AskInv'
    BY <1>5, ListenerKeepsAsks DEF TaskStep
  <1>6. ASSUME NEW l \in Listeners, TaskPanics(l) PROVE AskInv'
    BY <1>6, EndAcceptKeepsAsks DEF TaskPanics, gateVars
  <1>7. ASSUME NEW l \in Listeners, Cancel(l) \/ DropCall(l) PROVE AskInv'
    BY <1>7, CancelServeKeeps DEF Cancel, DropCall
  <1>8. ASSUME NEW l \in Listeners, ServeAt(l) PROVE AskInv'
    <2>1. serve' = [serve EXCEPT ![l] = "accepting"] /\ serve[l] # "asking"
      BY <1>8 DEF ServeAt
    <2>2. \A k \in Listeners : serve'[k] = "asking" <=> serve[k] = "asking"
      BY <2>1 DEF HandlerInv, ListenerTypeOK
    <2> QED
      BY <1>1, <1>8, <2>2 DEF ServeAt, gateVars
  <1> QED
    BY <1>1, <1>3, <1>4, <1>5, <1>6, <1>7, <1>8 DEF Next, vars, gateVars, listenerVars

\* The asks' invariant holds of every run of the daemon.
LEMMA AskInvHolds == Spec => [](UnstartedInv /\ AskInv)
  <1>1. Init => UnstartedInv /\ AskInv
    BY GateOfType DEF Init, ListenerInit, GateInit, UnstartedInv, AskInv, AcceptedInv, AskingInv,
                      OneStreamInv, PendingInv, FreshInv, Pending, PendingPhases, Connections, Listeners
  <1>2. GateInv /\ HandlerInv /\ UnstartedInv /\ AskInv /\ [Next]_vars => UnstartedInv' /\ AskInv'
    BY UnstartedStep, DaemonKeepsAsks
  <1> QED
    BY <1>1, <1>2, DaemonKeepsGateInv, HandlerInvHolds, PTL DEF Spec

\* A listener never has a second ask at its gate, through failures, panics, aborts and
\* the stop: the clients it does not hold stay in the kernel's backlog
\* (AsyncListenerTask::accepted_connection).
THEOREM OneAskEach == Spec => []OneAskPerListener
  <1>1. AskInv => OneAskPerListener
    <2> SUFFICES ASSUME AskInv, NEW l \in Listeners
                 PROVE  /\ {c \in Of(l) : phase[c] \in {"queued", "spawned", "waiting", "granted"}}
                               \ abandoned \subseteq In(l, {"accepted"})
                        /\ Cardinality(In(l, {"accepted"})) <= 1
                        /\ In(l, {"accepted"}) # {} <=> serve[l] = "asking"
      BY DEF OneAskPerListener
    <2>1. {c \in Of(l) : phase[c] \in {"queued", "spawned", "waiting", "granted"}}
              = {c \in Of(l) : Pending(c) /\ phase[c] # "refused"}
      BY DEF Pending, PendingPhases
    <2>2. In(l, {"accepted"}) # {} <=> serve[l] = "asking"
      BY DEF AskInv, AcceptedInv, AskingInv, In, Of
    <2> QED
      BY <2>1, <2>2, AwaitedIsHeld
  <1> QED
    BY <1>1, AskInvHolds, PTL

\* Behind the wait for the gates each of them has stopped, and stays so.
StopInv ==
    /\ RuntimeStopped => \A g \in Gates : gateState[g] = "stopped"
    /\ daemon \in {"binding", "bound"} => result = "none"

\* Every step of the daemon keeps the gates stopped behind the wait.
LEMMA StopStep ==
    ASSUME SupervisorInv, GateInv, StoppedInv, StopInv, [Next]_vars
    PROVE  StopInv'
  <1>1. \A g \in Gates : gateState[g] = "stopped" => gateState'[g] = "stopped"
    BY StoppedStep, DaemonStepsGates
  <1>2. CASE \/ Supervise \/ BindFails \/ ChmodFails \/ StartFails \/ DropBind \/ DropRun
             \/ EmbedderStops \/ EmbedderDrops \/ UNCHANGED vars
    BY <1>1, <1>2 DEF Supervise, BindNext, Start, JoinFailure, StopNextGate, AwaitGates,
                RuntimeStops, BindFails, ChmodFails, StartFails, DropBind, DropRun, EmbedderStops,
                EmbedderDrops, Exit, daemonVars, vars, StopInv, RuntimeStopped, gateVars
  <1>3. ASSUME NEW l \in Listeners, TaskStep(l) \/ TaskPanics(l) \/ Cancel(l) \/ ServeAt(l) \/ DropCall(l)
        PROVE  UNCHANGED <<daemon, result>>
    BY <1>3 DEF TaskStep, TaskPanics, Cancel, ServeAt, DropCall, daemonVars
  <1> QED
    BY <1>1, <1>2, <1>3 DEF Next, StopInv, RuntimeStopped

\* Whatever connections, permits and aborted asks are in flight when the daemon goes
\* down, the component's runtime is told to stop only behind gates that have stopped,
\* and at most one connection of each listener can still reach a handler
\* (StoppedAsyncMultiListenerDaemon::stop).
THEOREM RuntimeStopsAfterGates == Spec => []RuntimeStopAfterGates
  <1>1. GateInit => StoppedInv
    BY DEF GateInit, StoppedInv
  <1>2. Init => StoppedInv /\ StopInv
    BY <1>1 DEF Init, StopInv, RuntimeStopped
  <1>3. SupervisorInv /\ GateInv /\ StoppedInv /\ StopInv /\ [Next]_vars => StoppedInv' /\ StopInv'
    BY StoppedStep, StopStep, DaemonStepsGates
  <1>4. AskInv /\ StoppedInv /\ StopInv => RuntimeStopAfterGates
    <2> SUFFICES ASSUME AskInv, StoppedInv, NEW l \in Listeners, \A g \in Gates : gateState[g] = "stopped"
                 PROVE  /\ gateState[l] = "stopped" /\ mailbox[l] = <<>>
                        /\ Cardinality({c \in Of(l) : phase[c] \in {"spawned", "waiting", "granted"}}
                                          \ abandoned) <= 1
      BY DEF RuntimeStopAfterGates, StopInv
    <2>1. gateState[l] = "stopped" /\ mailbox[l] = <<>>
      BY DEF StoppedInv, Listeners
    <2>2. {c \in Of(l) : phase[c] \in {"spawned", "waiting", "granted"}} \ abandoned
              \subseteq {c \in Of(l) : Pending(c) /\ phase[c] # "refused"} \ abandoned
      BY DEF Pending, PendingPhases
    <2> QED
      BY <2>1, <2>2, AwaitedIsHeld
  <1> QED
    BY <1>2, <1>3, <1>4, SupervisorInvHolds, DaemonKeepsGateInv, AskInvHolds, PTL DEF Spec

------------------------------------------------------------------------------
(* The types. *)

\* The supervisor's own variables.
SupervisorTypes ==
    /\ driver \in {"run", "embedder"} /\ aborting \in BOOLEAN
    /\ result \in Results /\ sockets \subseteq Listeners

\* Every step of the daemon keeps them.
LEMMA SupervisorTypesStep == SupervisorInv /\ SupervisorTypes /\ [Next]_vars => SupervisorTypes'
  <1> SUFFICES ASSUME SupervisorInv, SupervisorTypes, [Next]_vars PROVE SupervisorTypes'
    OBVIOUS
  <1>1. CASE Supervise
    BY <1>1 DEF Supervise, BindNext, Start, JoinFailure, StopNextGate, AwaitGates, RuntimeStops,
                Exit, SupervisorInv, SupervisorTypes, Results
  <1>2. CASE \/ BindFails \/ ChmodFails \/ StartFails \/ DropBind \/ DropRun
             \/ EmbedderStops \/ EmbedderDrops
    BY <1>2 DEF BindFails, ChmodFails, StartFails, DropBind, DropRun, EmbedderStops, EmbedderDrops,
                DropListeners, Exit, SupervisorInv, SupervisorTypes, Results
  <1>3. ASSUME NEW l \in Listeners, TaskStep(l) \/ TaskPanics(l) \/ Cancel(l) \/ ServeAt(l) \/ DropCall(l)
        PROVE  SupervisorTypes'
    BY <1>3 DEF TaskStep, TaskPanics, Cancel, ServeAt, DropCall, daemonVars, SupervisorTypes
  <1>4. CASE UNCHANGED vars
    BY <1>4 DEF vars, daemonVars, SupervisorTypes
  <1> QED
    BY <1>1, <1>2, <1>3, <1>4 DEF Next

\* The variables of the gates, the listeners and the supervisor keep their types for
\* any number of listeners and clients (AsyncMultiListenerDaemon::run).
THEOREM DaemonTypeCorrect == Spec => []MultiTypeOK
  <1>1. Init => SupervisorTypes
    BY DEF Init, SupervisorTypes, Results
  <1>2. GateInv /\ HandlerInv /\ SupervisorInv /\ SupervisorTypes => MultiTypeOK
    BY DEF GateInv, HandlerInv, SupervisorInv, SupervisorTypes, MultiTypeOK
  <1> QED
    BY <1>1, <1>2, SupervisorTypesStep, SupervisorInvHolds, DaemonKeepsGateInv, HandlerInvHolds,
       PTL DEF Spec
================================================================================
