------------------------------ MODULE SocketFile ------------------------------
(***************************************************************************)
(* src/process.rs RuntimeSocketFile and its users AsyncSocketPath,         *)
(* AsyncSocketFile (src/async_runtime.rs), BoundSocketPath and             *)
(* BoundSocketFile (src/daemon.rs): how successive runs of a daemon take   *)
(* over one Unix socket path.  Looking at the path, removing what it names *)
(* and binding it are separate system calls; a run may be killed between   *)
(* any two of them, and another program may create, remove or replace the  *)
(* file at the path between any two of them.                               *)
(***************************************************************************)
EXTENDS Integers, FiniteSets

CONSTANTS Runs,        \* the runs of the daemon, each with a socket of its own
          Absent,      \* the path names nothing
          Foreign      \* the path names a file that is not a socket

ASSUME SocketFileAssumption ==
    /\ Absent \notin Runs /\ Foreign \notin Runs /\ Absent # Foreign

VARIABLES exclusive,  \* the operator starts a run only when the one before has ended
          path,       \* what the path names: nothing, a foreign file, a run's socket
          run,        \* where each run is
          listening,  \* the runs whose socket is open
          overtaken   \* the runs since whose last look at the path, or bind, another
                      \* program has changed it (history)

vars == <<exclusive, path, run, listening, overtaken>>

Active == {"preparing", "removing", "clear", "bound", "serving", "dropping", "unlinking"}
Over == {"refused", "inUse", "raced", "chmodFailed", "ended", "crashed"}

TypeOK ==
    /\ exclusive \in BOOLEAN
    /\ path \in Runs \cup {Absent, Foreign}
    /\ run \in [Runs -> {"new"} \cup Active \cup Over]
    /\ listening = {i \in Runs : run[i] \in {"bound", "serving", "dropping", "unlinking"}}
    /\ overtaken \subseteq Runs

Init ==
    /\ exclusive \in BOOLEAN
    /\ path = Absent
    /\ run = [i \in Runs |-> "new"]
    /\ listening = {}
    /\ overtaken = {}

Goto(i, place) == run' = [run EXCEPT ![i] = place] /\ UNCHANGED exclusive

Step(i, from, to) == run[i] = from /\ Goto(i, to)

\* The run knows what the path names now.
Knows(i) == overtaken' = overtaken \ {i}

Begin(i) ==
    /\ exclusive => \A j \in Runs : run[j] \notin Active
    /\ Step(i, "new", "preparing")
    /\ UNCHANGED <<path, listening, overtaken>>

------------------------------------------------------------------------------
(* prepare(): symlink_metadata, then remove_file on a socket. *)

\* Mutant: a path that is not a socket is removed like one.
BugRemovesAny(i) ==
    /\ Step(i, "preparing", IF path = Absent THEN "clear" ELSE "removing")
    /\ Knows(i)
    /\ UNCHANGED <<path, listening>>

\* Mutant: an existing path is left for bind to deal with.
BugNoRemoval(i) ==
    /\ Step(i, "preparing", "clear")
    /\ Knows(i)
    /\ UNCHANGED <<path, listening>>

LookAtPath(i) ==
    /\ Step(i, "preparing", CASE path = Absent -> "clear"
                              [] path = Foreign -> "refused"
                              [] OTHER -> "removing")
    /\ Knows(i)
    /\ UNCHANGED <<path, listening>>

\* remove_file removes whatever the path names by now, and fails, which ends the run,
\* if that is nothing or cannot be removed as a file is (a directory).
RemoveStale(i) ==
    /\ \/ /\ path # Absent
          /\ Step(i, "removing", "clear")
          /\ path' = Absent
       \/ /\ path \notin Runs
          /\ Step(i, "removing", "raced")
          /\ UNCHANGED path
    /\ UNCHANGED <<listening, overtaken>>

\* bind(2) creates the socket file and listens, or finds the address in use.
BindPath(i) ==
    \/ /\ path = Absent
       /\ Step(i, "clear", "bound")
       /\ path' = i
       /\ listening' = listening \cup {i}
       /\ Knows(i)
    \/ /\ path # Absent
       /\ Step(i, "clear", "inUse")
       /\ UNCHANGED <<path, listening, overtaken>>

\* The mode is applied (or none is wanted), and the run owns its socket file ...
ApplyMode(i) ==
    /\ Step(i, "bound", "serving")
    /\ UNCHANGED <<path, listening, overtaken>>

\* ... or cannot be: the listener is dropped and nothing removes the file.
ApplyModeFails(i) ==
    /\ Step(i, "bound", "chmodFailed")
    /\ listening' = listening \ {i}
    /\ UNCHANGED <<path, overtaken>>

------------------------------------------------------------------------------
(* The end of a run. *)

BeginDrop(i) ==
    /\ Step(i, "serving", "dropping")
    /\ UNCHANGED <<path, listening, overtaken>>

\* Mutant: the socket file is left to the next run.
BugKeepsFile(i) ==
    /\ Step(i, "dropping", "ended")
    /\ listening' = listening \ {i}
    /\ Knows(i)
    /\ UNCHANGED path

\* remove_socket_if_current(): any socket at the path counts as the current one.
LookBeforeUnlink(i) ==
    /\ Knows(i)
    /\ UNCHANGED path
    /\ \/ /\ path \in Runs
          /\ Step(i, "dropping", "unlinking")
          /\ UNCHANGED listening
       \/ /\ path \notin Runs
          /\ Step(i, "dropping", "ended")
          /\ listening' = listening \ {i}

\* remove_file removes whatever the path names by now, or fails at what is no socket,
\* which is ignored; the listener is closed after it.
Unlink(i) ==
    /\ Step(i, "unlinking", "ended")
    /\ path' = Absent \/ (path = Foreign /\ path' = path)
    /\ listening' = listening \ {i}
    /\ UNCHANGED overtaken

\* The process is killed: its socket closes, its file stays.
Crash(i) ==
    /\ run[i] \in Active
    /\ Goto(i, "crashed")
    /\ listening' = listening \ {i}
    /\ UNCHANGED <<path, overtaken>>

\* Another program creates or removes a file at the path, or replaces the one that is
\* there, a run's socket too, by a file of its own.
ForeignFile ==
    /\ path' \in {Absent, Foreign} \ {path}
    /\ overtaken' = overtaken \cup {i \in Runs : run[i] \in Active}
    /\ UNCHANGED <<exclusive, run, listening>>

Next ==
    \/ ForeignFile
    \/ \E i \in Runs :
        \/ Begin(i) \/ LookAtPath(i) \/ RemoveStale(i) \/ BindPath(i) \/ ApplyMode(i)
        \/ ApplyModeFails(i) \/ BeginDrop(i) \/ LookBeforeUnlink(i) \/ Unlink(i) \/ Crash(i)

Spec == Init /\ [][Next]_vars

------------------------------------------------------------------------------
\* Of runs that do not overlap, one that serves is the one clients reach by the
\* path unless another program has changed the path under it, and nothing of it is
\* left when it has ended in order, whatever runs before it crashed and whatever
\* was done to the path (RuntimeSocketFile::prepare, remove_socket_if_current).
ServingReachable ==
    exclusive => \A i \in Runs :
        /\ run[i] = "serving" => i \in listening /\ (path = i \/ i \in overtaken)
        /\ run[i] = "ended" => path # i /\ i \notin listening

\* A socket left by a crash or a failed chmod never keeps the next run from
\* binding: bind fails, and so does the removal, only if another program changed the
\* path since prepare looked (RuntimeSocketFile::remove_stale_socket).
StaleSocketNeverBlocks ==
    [][exclusive => \A i \in Runs : run[i] # run'[i] =>
            /\ run'[i] = "inUse" => path = Foreign /\ i \in overtaken
            /\ run'[i] = "raced" => i \in overtaken]_vars

\* No run, of those that overlap either, removes a file that is not a socket, but one
\* that was put there between its look at the path and its removal: nothing between
\* the two calls keeps that one safe (ExistingRuntimePathKind::is_socket in
\* remove_stale_socket and remove_socket_if_current).
ForeignFileKept ==
    [][path = Foreign /\ path' # Foreign => \A i \in Runs : run[i] # run'[i] => i \in overtaken]_vars

\* prepare "removes any stale socket file" (ARCHITECTURE, Daemon Runtime): what it
\* removes at the path is never a socket that another run still listens on.
OnlyStaleRemoved ==
    [][\A i, j \in Runs : (run[i] = "removing" /\ run'[i] = "clear" /\ path = j) => j \notin listening]_vars
==============================================================================
