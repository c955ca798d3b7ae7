-------------------------- MODULE AsyncSingleDaemon --------------------------
(***************************************************************************)
(* The shells of one listener: AsyncSingleListenerDaemon on a Unix socket  *)
(* (src/async_runtime.rs) and TcpListenerDaemon (src/tcp.rs).  The accept  *)
(* loop borrows the bound daemon, so the socket outlives the loop.         *)
(*                                                                         *)
(* start, serve_connections and stop are public and take &self: run()      *)
(* calls them one after the other, while an embedder may stop the daemon   *)
(* from one task as another still serves.                                  *)
(***************************************************************************)
EXTENDS AsyncListener

CONSTANT Port   \* the only listener

ASSUME SingleAssumption == Listeners = {Port}

VARIABLES transport,    \* "unix" or "tcp"
          driver,       \* who calls the bound daemon: "run" or an "embedder"
          daemon,       \* whether it is bound, started and dropped
          stopper,      \* how far the call of stop() has come
          result,       \* what bind, run or the embedder's loop reported
          socketFile    \* the socket file exists

daemonVars == <<transport, driver, daemon, stopper, result, socketFile>>
vars == <<gateVars, listenerVars, daemonVars>>

DaemonStates == {"unbound", "bound", "serving", "dropped"}
StopperStates == {"idle", "awaiting", "stoppingRuntime", "done"}

SingleTypeOK ==
    /\ GateTypeOK
    /\ ListenerTypeOK
    /\ transport \in {"unix", "tcp"}
    /\ driver \in {"run", "embedder"}
    /\ daemon \in DaemonStates
    /\ stopper \in StopperStates
    /\ result \in {"none", "Bind", "Start", "Listener", "Stopped", "Dropped"}
    /\ socketFile \in BOOLEAN

Init ==
    /\ GateInit
    /\ ListenerInit
    /\ transport \in {"unix", "tcp"}
    /\ driver \in {"run", "embedder"}
    /\ daemon = "unbound" /\ stopper = "idle" /\ result = "none"
    /\ socketFile = FALSE

------------------------------------------------------------------------------
\* bind(): only the Unix shell prepares a path and owns a file.
Bind ==
    /\ daemon = "unbound"
    /\ daemon' = "bound"
    /\ open' = {Port}
    /\ socketFile' = (transport = "unix")
    /\ UNCHANGED <<gateVars, serve, conn, owned, transport, driver, stopper, result>>

\* The address or path cannot be bound, or its mode cannot be applied, or the future
\* of bind() is dropped while the gate starts.  In the last two cases the file stays,
\* for no AsyncSocketFile owns it yet.
BindFails ==
    /\ daemon = "unbound"
    /\ daemon' = "dropped" /\ result' = "Bind"
    /\ socketFile' \in {FALSE, transport = "unix"}
    /\ UNCHANGED <<gateVars, listenerVars, transport, driver, stopper>>

\* The bound daemon is dropped: socket closed, backlog reset, file removed.
DropDaemon(outcome, lost) ==
    /\ daemon' = "dropped" /\ result' = outcome
    /\ open' = {}
    /\ conn' = ConnAfter(lost, {Port})
    /\ socketFile' = FALSE
    /\ UNCHANGED <<owned, transport, driver, stopper>>

Start ==
    /\ daemon = "bound" /\ stopper = "idle"
    /\ daemon' = "serving"
    /\ serve' = [serve EXCEPT ![Port] = "accepting"]
    /\ UNCHANGED <<gateVars, conn, open, owned, transport, driver, stopper, result, socketFile>>

StartFails ==
    /\ daemon = "bound" /\ stopper = "idle"
    /\ DropDaemon("Start", {})
    /\ UNCHANGED <<gateVars, serve>>

\* A step of the accept loop, of a handler, of a client or of the gate; only
\* a Unix stream has credentials to read.
LoopStep ==
    /\ \/ ListenerNext(Port)
       \/ transport = "unix" /\ \E c \in Connections : ContextFails(c)
    /\ UNCHANGED daemonVars

\* An embedder drops the future of serve_connections or serve_next_connection, or the
\* latter has returned ...
DropLoop ==
    /\ daemon = "serving" /\ driver = "embedder"
    /\ CancelServe(Port)
    /\ UNCHANGED daemonVars

\* ... and it serves again, also after an error.
ServeAgain ==
    /\ daemon = "serving" /\ driver = "embedder"
    /\ serve[Port] \in {"failed", "cancelled"}
    /\ serve' = [serve EXCEPT ![Port] = "accepting"]
    /\ UNCHANGED <<gateVars, conn, open, owned, daemonVars>>

\* stop() begins by asking the gate to stop.  run() gets there when its loop has
\* failed; an embedder calls it whenever it likes.
StopGate ==
    /\ daemon = "serving" /\ stopper = "idle"
    /\ driver = "embedder" \/ serve[Port] = "failed"
    /\ StopGracefully(Port)
    /\ stopper' = "awaiting"
    /\ UNCHANGED <<listenerVars, transport, driver, daemon, result, socketFile>>

\* Mutant: the runtime is stopped without waiting for the gate.
BugNoWait ==
    /\ stopper = "awaiting" /\ daemon = "serving"
    /\ stopper' = "stoppingRuntime"
    /\ UNCHANGED <<gateVars, listenerVars, transport, driver, daemon, result, socketFile>>

AwaitGate ==
    /\ stopper = "awaiting" /\ daemon = "serving"
    /\ gateState[Port] = "stopped"
    /\ stopper' = "stoppingRuntime"
    /\ UNCHANGED <<gateVars, listenerVars, transport, driver, daemon, result, socketFile>>

RuntimeStops ==
    /\ stopper = "stoppingRuntime" /\ daemon = "serving"
    /\ stopper' = "done"
    /\ UNCHANGED <<gateVars, listenerVars, transport, driver, daemon, result, socketFile>>

\* Mutant: run() returns through ? when its loop fails, without calling stop().
BugReturnEarly ==
    /\ daemon = "serving" /\ serve[Port] = "failed"
    /\ driver = "run"
    /\ DropDaemon("Listener", {})
    /\ UNCHANGED <<gateVars, serve>>

\* run() returns after stop() and drops the daemon with the loop's error; an
\* embedder drops it when stop() has returned and its loop has ended.
Return ==
    /\ daemon = "serving" /\ serve[Port] \in {"failed", "cancelled"}
    /\ stopper = "done"
    /\ DropDaemon(IF driver = "run" THEN "Listener" ELSE "Stopped", {})
    /\ UNCHANGED <<gateVars, serve>>

\* The future of run() is dropped at any await, or an embedder drops the daemon with
\* whatever calls borrow it: the loop ends where it waits, a stop() where it has come.
\* A panic of the component's start() or stop() unwinds run() to the same end.
DropAll ==
    /\ daemon \in {"bound", "serving"}
    /\ DropDaemon("Dropped", In(Port, {"accepted"}))
    /\ IF serve[Port] = "asking" THEN \E c \in In(Port, {"accepted"}) : Abandon(c)
       ELSE UNCHANGED gateVars
    /\ serve' = [serve EXCEPT ![Port] = IF @ \in {"accepting", "asking"} THEN "cancelled" ELSE @]

Supervise == Bind \/ Start \/ (driver = "run" /\ StopGate) \/ AwaitGate \/ RuntimeStops \/ Return

Next ==
    \/ Supervise \/ StopGate \/ BindFails \/ StartFails
    \/ LoopStep \/ DropLoop \/ ServeAgain \/ DropAll

Spec == Init /\ [][Next]_vars

LoopProgress ==
    /\ GateInternal(Port) \/ ServeStep(Port)
    /\ UNCHANGED daemonVars

\* The executor runs the loop, the gate and the caller of stop(), and the component's
\* start() and stop() return; clients, handlers and failures come when they like.
FairSpec == Spec /\ WF_vars(Supervise) /\ WF_vars(LoopProgress)

------------------------------------------------------------------------------
(* Properties. *)

\* The runtime is told to stop only behind a stopped gate: nothing is left in the
\* gate's mailbox, and one connection at most, already waiting for its permit, can
\* still start a handler (stop: stop_gracefully, wait_for_shutdown, runtime.stop).
RuntimeStopAfterGate ==
    stopper \in {"stoppingRuntime", "done"} =>
        /\ gateState[Port] = "stopped" /\ mailbox[Port] = <<>>
        /\ Cardinality({c \in Connections : phase[c] \in {"spawned", "waiting", "granted"}}
                          \ abandoned) <= 1

\* run() reports a failed loop only after the component's runtime was stopped, and
\* whatever ends the daemon, its socket is closed and its file gone, but for the
\* file of a bind whose chmod failed (run, stop, AsyncSocketFile::drop).
NothingLeftBehind ==
    daemon = "dropped" =>
        /\ open = {} /\ In(Port, {"backlog"}) = {}
        /\ result \in {"Listener", "Stopped"} => stopper = "done"
        /\ socketFile => result = "Bind" /\ transport = "unix"

\* Under run() a client in the backlog is served, or is reset when a failing daemon
\* has stopped, as long as handlers finish and start() and stop() return; also a
\* client that connects after the loop failed, while the socket still listens (run
\* keeps the listener through stop).
ClientAnswered ==
    []<>(In(Port, {"handling"}) = {}) =>
        \A c \in Connections :
            (conn[c] = "backlog" /\ driver = "run") ~> (conn[c] \notin {"backlog", "accepted"})

\* After an embedder's stop() the loop ends with the gate's error as soon as one
\* more client arrives, if it is not dropped before: no client is accepted for ever
\* into a stopped daemon (acquire_permit on a stopped RequestGate, serve_connections).
StoppedGateEndsLoop ==
    \A c \in Connections :
        (conn[c] = "backlog" /\ serve[Port] = "accepting" /\ gateState[Port] = "stopped")
            ~> (serve[Port] \in {"failed", "cancelled"})
==============================================================================
