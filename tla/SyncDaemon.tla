------------------------------ MODULE SyncDaemon ------------------------------
(***************************************************************************)
(* src/daemon.rs: the synchronous shells.  MultiListenerDaemon polls its   *)
(* nonblocking listeners in one thread, from the first to the last, and    *)
(* handles the one stream it finds before it polls again from the first;   *)
(* SingleListenerDaemon blocks in accept().  A component may raise a stop  *)
(* signal, which only should_continue() sees, and its code may panic,      *)
(* which unwinds run() past stop().  Clients come and come back.           *)
(***************************************************************************)
EXTENDS Integers, Sequences, SequencesExt

CONSTANTS Clients, ListenerCount, ListenerOf, WithMode

Listeners == 1..ListenerCount

ASSUME SyncAssumption ==
    /\ ListenerCount \in Nat \ {0}
    /\ ListenerOf \in [Clients -> Listeners]
    /\ WithMode \subseteq Listeners

VARIABLES shell,     \* "multi", or "single" on the first listener
          pc,        \* where the daemon's thread is
          index,     \* the listener that bind or the poll reaches next
          backlog,   \* the clients the kernel queues for each bound socket
          serving,   \* the clients whose stream is being handled: one or none
          files,     \* the listeners whose socket file exists
          stopSignal, \* the component of a polled shell wants its daemon to stop
          late,      \* streams handled since the signal was raised
          runtime    \* "new", "started" or "stopped"

syncVars == <<shell, pc, index, backlog, serving, files, stopSignal, late, runtime>>
threadVars == <<shell, files, stopSignal, runtime>>

\* The count of late streams stops at two, one more than the shell may handle.
LateMax == 2

LastListener == IF shell = "single" THEN 1 ELSE ListenerCount

\* A listener is bound from its turn in bind() to the drop of the daemon.
Bound == CASE pc = "binding" -> 1..(index - 1) [] pc \in {"dropped", "unwound"} -> {}
              [] OTHER -> 1..LastListener

SyncTypeOK ==
    /\ shell \in {"multi", "single"}
    /\ pc \in {"binding", "bound", "outer", "inner", "polling", "handling", "sleeping",
               "stopping", "stopped", "dropped", "unwound"}
    /\ index \in 1..ListenerCount
    /\ backlog \in [Listeners -> Seq(Clients)]
    /\ serving \subseteq Clients
    /\ files \subseteq Listeners
    /\ stopSignal \in BOOLEAN
    /\ late \in 0..LateMax
    /\ runtime \in {"new", "started", "stopped"}

SyncInit ==
    /\ shell \in {"multi", "single"}
    /\ pc = "binding" /\ index = 1
    /\ backlog = [l \in Listeners |-> <<>>]
    /\ serving = {} /\ files = {}
    /\ stopSignal = FALSE /\ late = 0
    /\ runtime = "new"

------------------------------------------------------------------------------
(* The world outside the daemon's thread. *)

Connect(c) ==
    LET l == ListenerOf[c] IN
    /\ l \in Bound
    /\ c \notin serving /\ ~Contains(backlog[l], c)
    /\ backlog' = [backlog EXCEPT ![l] = Append(@, c)]
    /\ UNCHANGED <<pc, index, serving, late, threadVars>>

RaiseStop ==
    /\ shell = "multi" /\ runtime = "started" /\ ~stopSignal
    /\ stopSignal' = TRUE
    /\ UNCHANGED <<shell, pc, index, backlog, serving, files, late, runtime>>

------------------------------------------------------------------------------
(* bind, start. *)

BindNext ==
    /\ pc = "binding"
    /\ files' = files \cup {index}
    /\ IF index = LastListener THEN pc' = "bound" /\ index' = 1
                               ELSE pc' = "binding" /\ index' = index + 1
    /\ UNCHANGED <<shell, backlog, serving, stopSignal, late, runtime>>

\* The daemon is dropped with its sockets, by a return or a panic; what they queued,
\* and a stream that was being handled, is reset.
DropDaemon(end, left) ==
    /\ pc' = end
    /\ files' = left
    /\ backlog' = [l \in Listeners |-> <<>>]
    /\ serving' = {}
    /\ UNCHANGED <<shell, index, stopSignal, late>>

\* Binding the next path fails, or the path was bound but its mode or, in the
\* polled shell, its nonblocking flag cannot be set: then no BoundSocketFile owns
\* the new file yet.
BindFails ==
    /\ pc = "binding"
    /\ \/ DropDaemon("dropped", {})
       \/ (shell = "multi" \/ index \in WithMode) /\ DropDaemon("dropped", {index})
    /\ UNCHANGED runtime

Start ==
    /\ pc = "bound"
    /\ pc' = "outer"
    /\ runtime' = "started"
    /\ UNCHANGED <<shell, index, backlog, serving, files, stopSignal, late>>

StartFails ==
    /\ pc = "bound"
    /\ DropDaemon("dropped", {})
    /\ UNCHANGED runtime

------------------------------------------------------------------------------
(* serve_streams and, for the polled shell, serve_next_stream inside it. *)

Goto(place) == pc' = place /\ UNCHANGED <<index, backlog, serving, late, threadVars>>

\* Mutant: the loop of serve_streams does not look at the signal.
BugIgnoresSignal ==
    \/ pc = "outer" /\ Goto("inner")
    \/ pc = "inner" /\ Goto("polling")

\* should_continue() is asked by the outer loop and again by the inner one; the
\* blocking shell never asks.
CheckContinue ==
    \/ /\ pc = "outer"
       /\ Goto(IF shell = "multi" /\ stopSignal THEN "stopping" ELSE "inner")
    \/ /\ pc = "inner"
       /\ Goto(IF shell = "multi" /\ stopSignal THEN "outer" ELSE "polling")

\* accept() yields the first client of the listener: its stream is handled now.
AcceptNext ==
    /\ pc = "polling"
    /\ backlog[index] # <<>>
    /\ serving' = {Head(backlog[index])}
    /\ backlog' = [backlog EXCEPT ![index] = Tail(@)]
    /\ late' = IF stopSignal /\ late < LateMax THEN late + 1 ELSE late
    /\ index' = 1
    /\ pc' = "handling"
    /\ UNCHANGED threadVars

\* Mutant: the poll stops at the first listener.
BugPollsFirstOnly ==
    /\ shell = "multi" /\ pc = "polling"
    /\ backlog[index] = <<>>
    /\ Goto("sleeping")

\* WouldBlock: the next listener, or, after the last one, the poll interval.
PollNext ==
    /\ shell = "multi" /\ pc = "polling"
    /\ backlog[index] = <<>>
    /\ IF index < ListenerCount THEN index' = index + 1 /\ pc' = "polling"
                                ELSE index' = 1 /\ pc' = "sleeping"
    /\ UNCHANGED <<backlog, serving, late, threadVars>>

Wake == pc = "sleeping" /\ Goto("inner")

\* Mutant: the poll goes on, without asking, while streams come.
BugDrainFirst ==
    /\ pc = "handling"
    /\ serving' = {}
    /\ pc' = "polling"
    /\ UNCHANGED <<index, backlog, late, threadVars>>

\* handle_stream returns, with an error or not: an error is logged, no more.
HandlerReturns ==
    /\ pc = "handling"
    /\ serving' = {}
    /\ pc' = IF shell = "multi" THEN "outer" ELSE "polling"
    /\ UNCHANGED <<index, backlog, late, threadVars>>

\* Any other error of accept() ends the loop.
AcceptFails == pc = "polling" /\ Goto("stopping")

\* Mutant: the loop's error is returned before stop() is called.
BugNoStop ==
    /\ pc = "stopping"
    /\ DropDaemon("dropped", {})
    /\ UNCHANGED runtime

\* stop() is called once, whatever ended the loop; then the daemon is dropped.
Stop ==
    /\ pc = "stopping"
    /\ pc' = "stopped"
    /\ runtime' = "stopped"
    /\ UNCHANGED <<shell, index, backlog, serving, files, stopSignal, late>>

Return ==
    /\ pc = "stopped"
    /\ DropDaemon("dropped", {})
    /\ UNCHANGED runtime

\* A panic of the component in start(), should_continue(), handle_stream() or stop()
\* is caught nowhere: it unwinds run(), which drops the daemon with its sockets but
\* does not call stop().
Unwinds ==
    /\ \/ pc \in {"bound", "handling"} /\ UNCHANGED runtime
       \/ shell = "multi" /\ pc \in {"outer", "inner"} /\ UNCHANGED runtime
       \/ pc = "stopping" /\ runtime' = "stopped"
    /\ DropDaemon("unwound", {})

Thread == BindNext \/ Start \/ CheckContinue \/ AcceptNext \/ PollNext \/ Wake \/ Stop \/ Return

SyncNext ==
    \/ Thread \/ BindFails \/ StartFails \/ HandlerReturns \/ AcceptFails \/ Unwinds \/ RaiseStop
    \/ \E c \in Clients : Connect(c)

SyncSpec == SyncInit /\ [][SyncNext]_syncVars

\* The thread runs whenever it is not inside the component's handler; start(), stop()
\* and should_continue() are assumed to return or to panic.
SyncFairSpec == SyncSpec /\ WF_syncVars(Thread)

------------------------------------------------------------------------------
\* After the stop signal the polled shell handles at most the one stream its poll
\* was already past the check for (MultiListenerRuntime::should_continue,
\* serve_streams, serve_next_stream).
AtMostOneAfterStop == late <= 1

\* A component that raises its stop signal gets stop() called and the sockets
\* removed, if its handlers return, even while clients keep connecting; only a
\* panic of its own keeps stop() from it, and the sockets are removed then too
\* (ARCHITECTURE: should_continue "causing the shared stream loop to exit cleanly
\* before stop is called").
StopSignalObeyed ==
    []<>(pc # "handling") =>
        stopSignal ~> (files = {} /\ (pc = "unwound" \/ (pc = "dropped" /\ runtime = "stopped")))

\* A client is served once the clients of the listeners polled before its own
\* leave the daemon alone; a poll restarted from the first listener after every
\* stream promises no more than that (try_serve_next_stream).
ServedWhenEarlierQuiet ==
    \A c \in Clients :
        (/\ []<>(pc # "handling")
         /\ <>[](\A l \in 1..(ListenerOf[c] - 1) : backlog[l] = <<>>))
        => (Contains(backlog[ListenerOf[c]], c) ~> ~Contains(backlog[ListenerOf[c]], c))

\* The runtime's stop() follows its start() unless a panic unwinds the shell, the
\* sockets outlive the runtime, and a file stays behind only when bind failed at it,
\* never that of a listener bound before nor after a panic (run: serve_streams, stop,
\* then the drop of the bound daemon).
OrderlyEnd ==
    /\ pc = "stopping" => runtime = "started" /\ files = Bound
    /\ pc = "dropped" => runtime # "started"
    /\ pc \in {"dropped", "unwound"} /\ files # {} =>
        pc = "dropped" /\ runtime = "new" /\ files = {index}
==============================================================================
