-------------------------------- MODULE Trace --------------------------------
(***************************************************************************)
(* src/trace.rs: TraceLog::record, which gives each event a connection of  *)
(* its own, and TraceSocketListener, which collects them until a deadline  *)
(* or a count.  Recorders are the threads of daemons, each recording one   *)
(* event after the other.  Listeners are clients that take over the same   *)
(* path, one after the other or at once.  System calls are steps of their  *)
(* own; any process may be killed between two of them.                     *)
(***************************************************************************)
EXTENDS Integers, Sequences, FiniteSets

CONSTANTS Recorders,   \* threads that record
          Listeners,   \* clients that listen on the one trace path
          EventMax,    \* bound on the events of a recorder
          Backlog,     \* connections the kernel holds for a listener
          BigEvents,   \* events whose frame does not fit the socket's buffer
          Goals,       \* the counts given to collect_until_count
          CallMax,     \* bound on the collect calls of a client
          Workloads,   \* who takes part, and how much each does
          NoFile,      \* the trace path names nothing
          OtherFile,   \* it names something that nobody listens on
          NoGoal,      \* collect_for, which counts nothing
          None

Events == Recorders \X (1..EventMax)
LateMax == 2  \* bound on the history count of late events

ASSUME TraceAssumption ==
    /\ EventMax \in Nat /\ Backlog \in Nat /\ CallMax \in Nat
    /\ Workloads \subseteq [events : [Recorders -> 0..EventMax], clients : SUBSET Listeners,
                             calls : 0..CallMax]
    /\ BigEvents \subseteq Events
    /\ Goals \subseteq Nat /\ NoGoal \notin Goals
    /\ Listeners \cap {NoFile, OtherFile, None} = {} /\ NoFile # OtherFile
    /\ None \notin Events

VARIABLES workload,     \* the one of Workloads this behaviour has
          destination,  \* where the log sends its events
          memory,       \* the shared vector of TraceLog::recording
          poisoned,     \* the mutex of that vector is poisoned
          path,         \* what the trace path names
          at, sent,     \* where each recorder is, and how many events it has begun
          event,        \* what record_result returned for each event, the listener its
                        \* connection goes to, and whether its frame is on the wire
          client,       \* each listener: its place, its collect call, what it collected
          backlog       \* the connections the kernel holds for each listener

logVars == <<workload, destination, memory, poisoned>>
recorderVars == <<at, sent, event>>
vars == <<logVars, path, recorderVars, client, backlog>>

\* "resolving" has called connect, "waiting" waits for a place in the backlog,
\* "encoding" is connected, "writing" has a frame to write.
RecorderPlaces == {"idle", "resolving", "waiting", "encoding", "writing", "dead"}

\* A frame is "open" while any byte of it is missing.
EventState == [outcome : {"none", "ok", "error"}, to : Listeners \cup {None},
               wire : {"none", "open", "whole"}]

\* "checking" is at the head of the collect loop, "closing" has removed its path.
Collecting == {"checking", "accepting", "reading", "sleeping"}
ListenerPlaces == {"absent", "binding", "bound", "closing", "gone"} \cup Collecting

\* collected are the events of this call, given those of calls that have returned;
\* failed and late record that a call failed and what it accepted too late.
ClientState ==
    [at : ListenerPlaces, calls : 0..CallMax, goal : Goals \cup {NoGoal}, expired : BOOLEAN,
     reading : Events \cup {None}, collected : Seq(Events), given : Seq(Events),
     failed : BOOLEAN, late : 0..LateMax]

TypeOK ==
    /\ workload \in Workloads /\ destination \in {"disabled", "recording", "socket"}
    /\ memory \in Seq(Events) /\ poisoned \in BOOLEAN
    /\ path \in Listeners \cup {NoFile, OtherFile}
    /\ at \in [Recorders -> RecorderPlaces] /\ sent \in [Recorders -> 0..EventMax]
    /\ event \in [Events -> EventState]
    /\ client \in [Listeners -> ClientState]
    /\ backlog \in [Listeners -> Seq(Events)]

NewClient(place) ==
    [at |-> place, calls |-> 0, goal |-> NoGoal, expired |-> FALSE, reading |-> None,
     collected |-> <<>>, given |-> <<>>, failed |-> FALSE, late |-> 0]

Init ==
    /\ workload \in Workloads /\ destination \in {"disabled", "recording", "socket"}
    /\ memory = <<>> /\ poisoned = FALSE
    /\ path \in {NoFile, OtherFile}
    /\ at = [r \in Recorders |-> "idle"] /\ sent = [r \in Recorders |-> 0]
    /\ event = [e \in Events |-> [outcome |-> "none", to |-> None, wire |-> "none"]]
    /\ client = [l \in Listeners |-> NewClient("absent")]
    /\ backlog = [l \in Listeners |-> <<>>]

------------------------------------------------------------------------------
\* The event a recorder is at; its reader gone; its writer gone.
Current(r) == <<r, sent[r]>>
Reset(e) == event[e].to # None /\ client[event[e].to].at = "gone"
Closed(e) == ~(at[e[1]] \in {"encoding", "writing"} /\ Current(e[1]) = e)

Moves(r, place) == at' = [at EXCEPT ![r] = place]

\* record_result returns; record() looks at no result.
Ends(r, result) == Moves(r, "idle") /\ event' = [event EXCEPT ![Current(r)].outcome = result]

\* Beginning to record the next event, if the workload has one.
Begins(r, where) ==
    /\ destination = where /\ at[r] = "idle" /\ sent[r] < workload.events[r]
    /\ sent' = [sent EXCEPT ![r] = @ + 1]
    /\ UNCHANGED <<workload, destination, poisoned, path, client, backlog>>

\* Under the mutex.  A poisoned mutex makes record() panic.
RecordInMemory(r) ==
    /\ Begins(r, "recording")
    /\ \/ /\ ~poisoned
          /\ memory' = Append(memory, <<r, sent[r] + 1>>)
          /\ event' = [event EXCEPT ![<<r, sent[r] + 1>>].outcome = "ok"]
          /\ UNCHANGED at
       \/ poisoned /\ Moves(r, "dead") /\ UNCHANGED <<memory, event>>

\* events() clones the vector with the lock held, and a clone may panic.
SnapshotPanics ==
    /\ destination = "recording" /\ memory # <<>>
    /\ poisoned' = TRUE
    /\ UNCHANGED <<workload, destination, memory, path, recorderVars, client, backlog>>

RecordDisabled(r) ==
    /\ Begins(r, "disabled")
    /\ event' = [event EXCEPT ![<<r, sent[r] + 1>>].outcome = "ok"]
    /\ UNCHANGED <<memory, at>>

Record(r) == Begins(r, "socket") /\ Moves(r, "resolving") /\ UNCHANGED <<memory, event>>

Found(r) == Moves(r, "waiting") /\ event' = [event EXCEPT ![Current(r)].to = path]

\* Mutant: record() connects again until somebody listens.
BugRetries(r) ==
    /\ at[r] = "resolving" /\ path \in Listeners /\ Found(r)
    /\ UNCHANGED <<logVars, path, sent, client, backlog>>

\* connect(2) finds who listens at the path, or fails at once.
Resolve(r) ==
    /\ at[r] = "resolving"
    /\ \/ path \in Listeners /\ Found(r)
       \/ path \notin Listeners /\ Ends(r, "error")
    /\ UNCHANGED <<logVars, path, sent, client, backlog>>

\* It waits, without a timeout, while that listener's backlog is full.
Connect(r) ==
    LET e == Current(r)  l == event[e].to
    IN  /\ at[r] = "waiting"
        /\ \/ /\ ~Reset(e) /\ Len(backlog[l]) < Backlog
              /\ backlog' = [backlog EXCEPT ![l] = Append(@, e)]
              /\ event' = [event EXCEPT ![e].wire = "open"]
              /\ Moves(r, "encoding")
           \/ Reset(e) /\ Ends(r, "error") /\ UNCHANGED backlog
        /\ UNCHANGED <<logVars, path, sent, client>>

\* The archive is made after the connection; if that fails, the stream is closed
\* with nothing written.
Encode(r) ==
    /\ at[r] = "encoding"
    /\ \/ Moves(r, "writing") /\ UNCHANGED event
       \/ Ends(r, "error")
    /\ UNCHANGED <<logVars, path, sent, client, backlog>>

\* The rest of a big frame fits only when the client reads; a write to a client
\* that is gone fails.
Write(r) ==
    LET e == Current(r)
    IN  /\ at[r] = "writing" /\ event[e].wire = "open"
        /\ \/ /\ ~Reset(e) /\ (e \in BigEvents => client[event[e].to].reading = e)
              /\ event' = [event EXCEPT ![e].wire = "whole"]
              /\ UNCHANGED at
           \/ Reset(e) /\ Ends(r, "error")
        /\ UNCHANGED <<logVars, path, sent, client, backlog>>

Finish(r) ==
    /\ at[r] = "writing" /\ event[Current(r)].wire = "whole" /\ Ends(r, "ok")
    /\ UNCHANGED <<logVars, path, sent, client, backlog>>

Kill(r) ==
    /\ at[r] \notin {"idle", "dead"} /\ Moves(r, "dead")
    /\ UNCHANGED <<logVars, path, sent, event, client, backlog>>

------------------------------------------------------------------------------
\* bind removes whatever is at the path, also another client's socket, or fails.
RemoveOld(l) ==
    /\ client[l].at = "absent" /\ l \in workload.clients
    /\ \/ path' = NoFile /\ client' = [client EXCEPT ![l].at = "binding"]
       \/ path # NoFile /\ UNCHANGED path /\ client' = [client EXCEPT ![l].at = "gone"]
    /\ UNCHANGED <<logVars, recorderVars, backlog>>

\* bind(2) fails if another client has come in between; when the listener cannot be
\* made non-blocking, it is closed and its socket file stays.
BindPath(l) ==
    /\ client[l].at = "binding"
    /\ \/ /\ path = NoFile /\ path' = l
          /\ \E place \in {"bound", "gone"} : client' = [client EXCEPT ![l].at = place]
       \/ path # NoFile /\ UNCHANGED path /\ client' = [client EXCEPT ![l].at = "gone"]
    /\ UNCHANGED <<logVars, recorderVars, backlog>>

Calls(l, goal, events) ==
    /\ client[l].at = "bound" /\ client[l].calls < workload.calls
    /\ client' = [client EXCEPT ![l].at = "checking", ![l].calls = @ + 1, ![l].goal = goal,
                                ![l].collected = events]
    /\ UNCHANGED <<logVars, path, recorderVars, backlog>>

\* Mutant: the events are kept in the listener from one call to the next.
BugKeepsEvents(l) == \E goal \in Goals \cup {NoGoal} : Calls(l, goal, client[l].given)

\* collect_for, or collect_until_count with a count.
Collect(l) == \E goal \in Goals \cup {NoGoal} : Calls(l, goal, <<>>)

\* The clock passes the deadline of a call.
Deadline(l) ==
    /\ client[l].at \in Collecting /\ ~client[l].expired
    /\ client' = [client EXCEPT ![l].expired = TRUE]
    /\ UNCHANGED <<logVars, path, recorderVars, backlog>>

Counted(c) == c.goal # NoGoal /\ Len(c.collected) >= c.goal

\* Mutant: the deadline is looked at only when there is nothing to accept.
BugDrainsFirst(l) == Counted(client[l]) \/ (client[l].expired /\ backlog[l] = <<>>)

Enough(l) == Counted(client[l]) \/ client[l].expired

\* The call returns or fails, and its own variables are gone.
CallOver(c) == [c EXCEPT !.at = "bound", !.goal = NoGoal, !.expired = FALSE, !.late = 0,
                         !.reading = None, !.collected = <<>>]

\* The head of the loop: return the events, or look for one more.
Check(l) ==
    LET c == client[l]
    IN  /\ c.at = "checking"
        /\ client' = [client EXCEPT ![l] =
               IF Enough(l) THEN [CallOver(c) EXCEPT !.given = @ \o c.collected]
               ELSE [c EXCEPT !.at = "accepting"]]
        /\ UNCHANGED <<logVars, path, recorderVars, backlog>>

TakeNext(l) ==
    LET c == client[l]
    IN  /\ backlog[l] # <<>>
        /\ backlog' = [backlog EXCEPT ![l] = Tail(@)]
        /\ client' = [client EXCEPT ![l].at = "reading", ![l].reading = Head(backlog[l]),
               ![l].late = IF c.expired /\ @ < LateMax THEN @ + 1 ELSE @]

Sleep(l) == /\ backlog[l] = <<>> /\ UNCHANGED backlog
            /\ client' = [client EXCEPT ![l].at = "sleeping"]

\* Mutant: the listener blocks in accept().
BugBlockingAccept(l) ==
    client[l].at = "accepting" /\ TakeNext(l) /\ UNCHANGED <<logVars, path, recorderVars>>

\* Mutant: a connection accepted after the deadline is dropped unread.
BugDropsLate(l) ==
    /\ client[l].at = "accepting"
    /\ \/ ~client[l].expired /\ TakeNext(l)
       \/ /\ client[l].expired /\ backlog[l] # <<>>
          /\ backlog' = [backlog EXCEPT ![l] = Tail(@)]
          /\ client' = [client EXCEPT ![l].at = "checking"]
       \/ Sleep(l)
    /\ UNCHANGED <<logVars, path, recorderVars>>

\* A non-blocking accept(): a connection, or nothing yet and a short sleep.
Accept(l) ==
    /\ client[l].at = "accepting"
    /\ TakeNext(l) \/ Sleep(l)
    /\ UNCHANGED <<logVars, path, recorderVars>>

Wake(l) ==
    /\ client[l].at = "sleeping"
    /\ client' = [client EXCEPT ![l].at = "checking"]
    /\ UNCHANGED <<logVars, path, recorderVars, backlog>>

\* The accepted stream blocks until the frame is whole, then is dropped.
Read(l) ==
    LET e == client[l].reading
    IN  /\ client[l].at = "reading" /\ event[e].wire = "whole"
        /\ client' = [client EXCEPT ![l].at = "checking", ![l].reading = None,
                                    ![l].collected = Append(@, e)]
        /\ UNCHANGED <<logVars, path, recorderVars, backlog>>

\* A frame cut short, or one that does not decode.
BadFrame(l) ==
    /\ client[l].at = "reading"
    /\ event[client[l].reading].wire = "whole" \/ Closed(client[l].reading)

\* That, or a failed accept(), ends the call with an error; the events it has
\* collected are dropped with it.
CollectFails(l) ==
    /\ client[l].at = "accepting" \/ BadFrame(l)
    /\ client' = [client EXCEPT ![l] = [CallOver(@) EXCEPT !.failed = TRUE]]
    /\ UNCHANGED <<logVars, path, recorderVars, backlog>>

\* Drop removes the path, whoever's socket it names, then closes the listener and
\* with it the connections in its backlog.
RemovePath(l) ==
    /\ client[l].at = "bound"
    /\ client' = [client EXCEPT ![l].at = "closing"]
    /\ path' = NoFile
    /\ UNCHANGED <<logVars, recorderVars, backlog>>

\* What a client process had in memory goes with it.
ClientGone(l) ==
    /\ client' = [client EXCEPT ![l] = NewClient("gone")]
    /\ backlog' = [backlog EXCEPT ![l] = <<>>]
    /\ UNCHANGED <<logVars, path, recorderVars>>

Close(l) == client[l].at = "closing" /\ ClientGone(l)

\* The client is killed: its socket file stays.
Crash(l) == client[l].at \notin {"absent", "gone"} /\ ClientGone(l)

Next ==
    \/ \E r \in Recorders :
          \/ RecordInMemory(r) \/ RecordDisabled(r) \/ Record(r)
          \/ Resolve(r) \/ Connect(r) \/ Encode(r) \/ Write(r) \/ Finish(r) \/ Kill(r)
    \/ SnapshotPanics
    \/ \E l \in Listeners :
          \/ RemoveOld(l) \/ BindPath(l) \/ Collect(l) \/ Deadline(l)
          \/ Check(l) \/ Accept(l) \/ Wake(l) \/ Read(l) \/ CollectFails(l)
          \/ RemovePath(l) \/ Close(l) \/ Crash(l)

Spec == Init /\ [][Next]_vars

\* Running threads and the clock go on.  A recorder that waits for a place in the
\* backlog is served when places keep coming: the kernel wakes them in order.
FairSpec ==
    /\ Spec
    /\ \A r \in Recorders :
          WF_vars(Resolve(r) \/ Encode(r) \/ Write(r) \/ Finish(r)) /\ SF_vars(Connect(r))
    /\ \A l \in Listeners :
          /\ WF_vars(Check(l) \/ Accept(l) \/ Wake(l) \/ Read(l) \/ (BadFrame(l) /\ CollectFails(l)))
          /\ WF_vars(Deadline(l))

------------------------------------------------------------------------------
\* The events a client has been given, with those of a call that still runs.
Given(l) == client[l].given \o client[l].collected

InSeq(e, s) == \E i \in DOMAIN s : s[i] = e

\* What a client collects is what was recorded: whole frames, each once, those of
\* one recorder in its order, over all its collect calls (collect_for,
\* collect_until_count, collect_available_event).
CollectedInOrder ==
    \A l \in Listeners : \A i \in 1..Len(Given(l)) :
        /\ event[Given(l)[i]].wire = "whole" /\ event[Given(l)[i]].to = l
        /\ \A j \in 1..(i - 1) :
              Given(l)[j][1] = Given(l)[i][1] => Given(l)[j][2] < Given(l)[i][2]

\* An event that record_result reported as written is never lost in silence: it
\* waits for a client or has been collected, unless that client is gone or one of
\* its collect calls has failed (write_event, collect_available_event).
OkEventsKept ==
    destination = "socket" =>
        \A e \in Events : event[e].outcome = "ok" =>
            LET l == event[e].to
            IN  \/ client[l].at = "gone" \/ client[l].failed
                \/ InSeq(e, backlog[l]) \/ client[l].reading = e \/ InSeq(e, Given(l))

\* A call looks at its deadline between any two events, so at most one connection
\* is accepted after it, however fast the recorders are (collect_for,
\* collect_until_count).
AtMostOneLate == \A l \in Listeners : client[l].late <= 1

\* record() returns, with or without a client, if a client that listens keeps
\* emptying its backlog or leaves; no client at all never holds a daemon up
\* (TraceLog::record, write_event).
RecordEnds ==
    (\A l \in Listeners : []<>(backlog[l] = <<>> /\ client[l].reading = None)) =>
        \A r \in Recorders : (at[r] # "idle") ~> (at[r] \in {"idle", "dead"})

\* A collect call returns when its deadline has passed, also when nobody records,
\* since recorders that are alive finish their frames and dead ones close their
\* streams (the WouldBlock arm of collect_available_event).
CollectEnds ==
    \A l \in Listeners : (client[l].at \in Collecting) ~> (client[l].at \notin Collecting)
==============================================================================
