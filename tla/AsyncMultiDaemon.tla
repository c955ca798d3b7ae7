--------------------------- MODULE AsyncMultiDaemon ---------------------------
(***************************************************************************)
(* src/async_runtime.rs: AsyncMultiListenerDaemon, the shell that binds a  *)
(* list of sockets.  run() moves each into an accept task of a JoinSet,    *)
(* and, when one of them fails, aborts the others, stops every gate and    *)
(* then the component's runtime.  An embedder may instead call start,      *)
(* serve_next_connection_at and stop of the bound daemon, which all take   *)
(* &self.  Listeners are numbered in the order of the list.                *)
(***************************************************************************)
EXTENDS AsyncListener

CONSTANTS ListenerCount,   \* how many listeners the daemon binds
          WithMode,        \* the listeners that have a socket mode to apply
          ClientsOf        \* bound: the clients that come under each driver

ASSUME MultiAssumption ==
    /\ ListenerCount \in Nat \ {0}
    /\ Listeners = 1..ListenerCount
    /\ WithMode \subseteq Listeners
    /\ ClientsOf \in [{"run", "embedder"} -> SUBSET Connections]

VARIABLES driver,     \* who calls the bound daemon: "run" or an "embedder"
          daemon,     \* how far run() or the embedder has come
          step,       \* the listener that bind or stop reaches next
          aborting,   \* abort_all() was called on the JoinSet
          result,     \* what run() returns, or how the embedder's daemon ended
          sockets     \* the listeners whose socket file exists

daemonVars == <<driver, daemon, step, aborting, result, sockets>>
vars == <<gateVars, listenerVars, daemonVars>>

DaemonStates == {"binding", "bound", "serving", "stopping", "awaiting", "stoppingRuntime",
                 "stopped", "exited"}
\* "Dropped" and "BindDropped" are returned to nobody.
Results == {"none", "Bind", "Start", "Listener", "ListenerTask", "Stopped", "Dropped", "BindDropped"}

MultiTypeOK ==
    /\ GateTypeOK
    /\ ListenerTypeOK
    /\ driver \in {"run", "embedder"}
    /\ daemon \in DaemonStates
    /\ step \in 1..(ListenerCount + 1)
    /\ aborting \in BOOLEAN
    /\ result \in Results
    /\ sockets \subseteq Listeners

Init ==
    /\ GateInit
    /\ ListenerInit
    /\ driver \in {"run", "embedder"}
    /\ daemon = "binding" /\ step = 1 /\ aborting = FALSE /\ result = "none"
    /\ sockets = {}

------------------------------------------------------------------------------
\* The bound listeners are dropped together: sockets closed, files removed.
DropListeners(left) ==
    /\ open' = {}
    /\ sockets' = left
    /\ conn' = ConnAfter({}, open)
    /\ UNCHANGED <<serve, owned>>

Exit(outcome) ==
    /\ daemon' = "exited"
    /\ result' = outcome
    /\ UNCHANGED <<driver, step, aborting>>

\* bind(): prepare the path, bind it, apply the mode, start the gate.
BindNext ==
    /\ daemon = "binding"
    /\ open' = open \cup {step}
    /\ sockets' = sockets \cup {step}
    /\ IF step = ListenerCount
       THEN daemon' = "bound" /\ step' = 1
       ELSE daemon' = "binding" /\ step' = step + 1
    /\ UNCHANGED <<gateVars, serve, conn, owned, driver, aborting, result>>

\* Preparing or binding fails: the listeners bound before are dropped.
BindFails ==
    /\ daemon = "binding"
    /\ DropListeners({})
    /\ Exit("Bind")
    /\ UNCHANGED gateVars

\* Applying the mode fails after the path was bound: no AsyncSocketFile owns the
\* new file yet, so it stays.
ChmodFails ==
    /\ daemon = "binding"
    /\ step \in WithMode
    /\ DropListeners({step})
    /\ Exit("Bind")
    /\ UNCHANGED gateVars

\* runtime.start() succeeds, and under run() every listener is moved into its accept
\* task ...
Start ==
    /\ daemon = "bound"
    /\ daemon' = "serving"
    /\ IF driver = "run"
       THEN serve' = [l \in Listeners |-> "accepting"] /\ owned' = Listeners
       ELSE UNCHANGED <<serve, owned>>
    /\ UNCHANGED <<gateVars, conn, open, driver, step, aborting, result, sockets>>

\* ... or fails, and run() returns without stopping anything.  An embedder still has
\* the daemon as it was.
StartFails ==
    /\ daemon = "bound" /\ driver = "run"
    /\ DropListeners({})
    /\ Exit("Start")
    /\ UNCHANGED gateVars

------------------------------------------------------------------------------
(* The accept tasks of run(), and an embedder's calls. *)

\* Their steps of AsyncListener; a task that ends removes its socket file.
TaskStep(l) ==
    /\ ListenerNext(l) \/ \E c \in Of(l) : ContextFails(c)
    /\ \A c \in Of(l) : conn'[c] = "backlog" => c \in ClientsOf[driver]
    /\ sockets' = IF l \in open \ open' THEN sockets \ {l} ELSE sockets
    /\ UNCHANGED <<driver, daemon, step, aborting, result>>

\* The task panics in component code (the clone of the listener's identity).
TaskPanics(l) ==
    /\ driver = "run" /\ serve[l] = "accepting"
    /\ EndServe(l, "panicked", {})
    /\ sockets' = sockets \ {l}
    /\ UNCHANGED <<gateVars, driver, daemon, step, aborting, result>>

\* An aborted task is dropped where it waits, and with it its socket file.
Cancel(l) ==
    /\ aborting
    /\ CancelServe(l)
    /\ sockets' = sockets \ {l}
    /\ UNCHANGED <<driver, daemon, step, aborting, result>>

\* The bound daemon of an embedder still exists.
Embedded == driver = "embedder" /\ daemon \notin {"binding", "exited"}

\* serve_next_connection_at(l), one call at a time for each listener, with or without
\* start() and also beside or after stop().  The call returns after each connection,
\* and what calls again at once is the same loop ...
ServeAt(l) ==
    /\ Embedded /\ serve[l] \in {"unstarted", "failed", "cancelled"}
    /\ serve' = [serve EXCEPT ![l] = "accepting"]
    /\ UNCHANGED <<gateVars, conn, open, owned, daemonVars>>

\* ... until it does not call again, or drops the future of a call.
DropCall(l) == Embedded /\ CancelServe(l) /\ UNCHANGED daemonVars

------------------------------------------------------------------------------
(* The supervisor: serve_connections() and stop(). *)

Failed(l) == serve[l] \in {"failed", "panicked"}

\* Mutant: the other tasks are left running.
BugNoAbort ==
    /\ daemon = "serving" /\ driver = "run"
    /\ \E l \in Listeners :
          Failed(l) /\ result' = IF serve[l] = "failed" THEN "Listener" ELSE "ListenerTask"
    /\ daemon' = "stopping"
    /\ UNCHANGED <<gateVars, listenerVars, driver, step, aborting, sockets>>

\* Mutant: a listener task that ends is only logged, like a request.
BugFailureLogged ==
    /\ daemon = "serving" /\ driver = "run"
    /\ \E l \in Listeners : serve[l] = "panicked" /\ result' = "ListenerTask"
    /\ aborting' = TRUE
    /\ daemon' = "stopping"
    /\ UNCHANGED <<gateVars, listenerVars, driver, step, sockets>>

\* join_next() yields a task that failed: abort the rest and leave the loop.
JoinFailure ==
    /\ daemon = "serving" /\ driver = "run"
    /\ \E l \in Listeners :
          Failed(l) /\ result' = IF serve[l] = "failed" THEN "Listener" ELSE "ListenerTask"
    /\ aborting' = TRUE
    /\ daemon' = "stopping"
    /\ UNCHANGED <<gateVars, listenerVars, driver, step, sockets>>

\* An embedder calls stop() whenever it likes, started or not.
EmbedderStops ==
    /\ driver = "embedder" /\ daemon \in {"bound", "serving"}
    /\ daemon' = "stopping"
    /\ UNCHANGED <<gateVars, listenerVars, driver, step, aborting, result, sockets>>

\* stop(), of either shell: ask each gate to stop, in order ...
StopNextGate ==
    /\ daemon = "stopping"
    /\ StopGracefully(step)
    /\ step' = step + 1
    /\ daemon' = IF step = ListenerCount THEN "awaiting" ELSE "stopping"
    /\ UNCHANGED <<listenerVars, driver, aborting, result, sockets>>

\* Mutant: the gates are asked to stop but not waited for.
BugNoWait ==
    /\ daemon = "awaiting"
    /\ daemon' = "stoppingRuntime"
    /\ UNCHANGED <<gateVars, listenerVars, driver, step, aborting, result, sockets>>

\* ... wait for each of them ...
AwaitGates ==
    /\ daemon = "awaiting"
    /\ \A g \in Gates : gateState[g] = "stopped"
    /\ daemon' = "stoppingRuntime"
    /\ UNCHANGED <<gateVars, listenerVars, driver, step, aborting, result, sockets>>

\* ... then stop the runtime; an error of it is masked by the listener's.
RuntimeStops ==
    /\ daemon = "stoppingRuntime"
    /\ IF driver = "run" THEN Exit(result)
       ELSE daemon' = "stopped" /\ UNCHANGED <<driver, step, aborting, result>>
    /\ UNCHANGED <<gateVars, listenerVars, sockets>>

\* The embedder drops the daemon, which no call borrows any more: with it go the
\* listeners, and a stop() where it has come.
EmbedderDrops ==
    /\ Embedded /\ \A l \in Listeners : serve[l] \notin {"accepting", "asking"}
    /\ DropListeners({})
    /\ Exit(IF daemon = "stopped" THEN "Stopped" ELSE "Dropped")
    /\ UNCHANGED gateVars

\* The future of run() is dropped at one of its awaits.  bind() awaits only the start
\* of a gate, when the file of its listener exists and has no owner yet; before the
\* first poll nothing is bound.
DropBind ==
    /\ daemon = "binding"
    /\ \/ DropListeners({step})
       \/ step = 1 /\ DropListeners({})
    /\ Exit("BindDropped")
    /\ UNCHANGED gateVars

\* Later the listeners go with the future, or with the tasks of its JoinSet, which
\* are aborted.  Neither the gates nor the runtime are told to stop.  A panic of the
\* component's start() or stop() unwinds run() to the same end.
DropRun ==
    /\ driver = "run" /\ daemon \notin {"binding", "exited"}
    /\ daemon' = "exited" /\ result' = "Dropped"
    /\ IF daemon = "bound" THEN DropListeners({}) /\ UNCHANGED aborting
       ELSE aborting' = TRUE /\ UNCHANGED <<listenerVars, sockets>>
    /\ UNCHANGED <<gateVars, driver, step>>

Supervise == BindNext \/ Start \/ JoinFailure \/ StopNextGate \/ AwaitGates \/ RuntimeStops

Next ==
    \/ Supervise \/ BindFails \/ ChmodFails \/ StartFails \/ DropBind \/ DropRun
    \/ EmbedderStops \/ EmbedderDrops
    \/ \E l \in Listeners : TaskStep(l) \/ TaskPanics(l) \/ Cancel(l) \/ ServeAt(l) \/ DropCall(l)

Spec == Init /\ [][Next]_vars

------------------------------------------------------------------------------
(* The executor runs every task that can run, and the component's start()    *)
(* and stop() return; handlers may take forever, and neither a client nor a  *)
(* failure has to come.                                                      *)
Progress(l) ==
    /\ GateInternal(l) \/ ServeStep(l)
    /\ sockets' = IF l \in open \ open' THEN sockets \ {l} ELSE sockets
    /\ UNCHANGED <<driver, daemon, step, aborting, result>>

Fairness ==
    /\ WF_vars(Supervise)
    /\ \A l \in Listeners : WF_vars(Progress(l)) /\ WF_vars(Cancel(l))

FairSpec == Spec /\ Fairness

------------------------------------------------------------------------------
(* Properties. *)

\* RequestConcurrencyLimit bounds the connections a listener handles at once
\* (BindingSurface::request_concurrency_limit: "the default preserves
\* single-request behavior").  A handler that called into_parts still handles.
HandlersWithinLimit ==
    \A l \in Listeners : Cardinality(In(l, {"handling", "detached"})) <= Limit

\* The bound holds for the handlers that still own their AcceptedConnection:
\* such a handler runs exactly as long as its permit is out
\* (AsyncListenerTask::spawn_connection, AcceptedConnection).
OwningHandlersWithinLimit ==
    \A l \in Listeners :
        /\ In(l, {"handling"}) = {c \in Of(l) : phase[c] = "held"}
        /\ Cardinality(In(l, {"handling"})) <= Limit

\* Backpressure stays in the kernel: a listener has at most one ask at its gate that
\* is awaited, that of the stream its loop holds, whatever the clients send.  Asks
\* that were abandoned with a dropped call may still be at the gate beside it
\* (AsyncListenerTask::accepted_connection).
OneAskPerListener ==
    \A l \in Listeners :
        LET awaited == {c \in Of(l) : phase[c] \in {"queued", "spawned", "waiting", "granted"}}
                           \ abandoned
        IN /\ awaited \subseteq In(l, {"accepted"})
           /\ Cardinality(In(l, {"accepted"})) <= 1
           /\ In(l, {"accepted"}) # {} <=> serve[l] = "asking"

\* runtime.stop() has been called.
RuntimeStopped ==
    \/ daemon \in {"stoppingRuntime", "stopped"}
    \/ daemon = "exited" /\ result \in {"Listener", "ListenerTask", "Stopped"}

\* Once the runtime is told to stop, no gate admits: each has stopped, its mailbox
\* is empty, and at most one connection of a listener, already past the gate's
\* actor, can still reach a handler
\* (stop of the stopped and of the bound daemon, wait_for_shutdown before runtime.stop).
RuntimeStopAfterGates ==
    RuntimeStopped =>
        \A l \in Listeners :
            /\ gateState[l] = "stopped" /\ mailbox[l] = <<>>
            /\ Cardinality({c \in Of(l) : phase[c] \in {"spawned", "waiting", "granted"}}
                              \ abandoned) <= 1

\* A listener whose handlers keep finishing serves every client in its backlog or
\* goes down with the daemon, however long the handlers of the other listeners
\* hold their permits (ARCHITECTURE: a slow ordinary request "cannot block meta
\* admission"; RequestGate::new in bind gives each listener its own pool).
ListenerIsolation ==
    \A l \in Listeners :
        []<>(In(l, {"handling"}) = {}) =>
            \A c \in Of(l) :
                (conn[c] = "backlog" /\ daemon = "serving" /\ driver = "run")
                    ~> (conn[c] \notin {"backlog", "accepted"})

\* A listener task that fails or panics takes the daemon down although every
\* handler may hold its permit forever, if the component's start() and stop() return
\* (serve_connections, abort_all, stop).
FailureIsFatal ==
    \A l \in Listeners : (driver = "run" /\ Failed(l)) ~> (daemon = "exited")

\* When run() returns, or it or the embedder's daemon is dropped, every socket closes
\* and every socket file goes, also those of tasks that were only aborted; but bind()
\* leaves the file it has not handed over yet when its chmod fails or its future is
\* dropped (AsyncSocketFile::drop, JoinSet::drop).
SocketsRemoved ==
    (daemon = "exited") ~>
        /\ open = {}
        /\ \/ sockets = {}
           \/ result = "Bind" /\ sockets \subseteq WithMode
           \/ result = "BindDropped" /\ sockets = {step}

\* After the daemon exits or its run() is dropped, the permits come home: an ask whose
\* task was aborted, even in the moment it was granted, does not keep its permit
\* (abort_all against RequestGate's delegated reply).
PermitsComeHome ==
    \A l \in Listeners :
        []<>(In(l, {"handling"}) = {}) => ((daemon = "exited") ~> (available[l] = Limit))

\* Every step of the daemon is a step of the gates or leaves them alone, so what
\* RequestGate promises holds in the daemon (RequestGate used by AsyncListenerTask).
ImplementsGates == GateSpec
==============================================================================
