# Verification of triad-runtime

TLA+ models of the runtime library in `src/`, TLC runs that check them on small
instances, and TLAPS proofs of their most important safety properties for every
value of the constants. `PROJECT.json` lists components, runs, mutants, hazards
and theorems, and maps every definition to the lines it stands for.

Paths below are relative to the crate: `async_runtime.rs` is
`src/src/async_runtime.rs` of the repository tree, and so on.

## 1. The system and its parts

triad-runtime is the library every component daemon is built on. It binds
sockets, admits connections under a concurrency limit, runs one handler for each
admitted connection, drives the component's decision loop under a budget and
takes the daemon down in order. Components supply the handlers, the decisions
and `start`/`stop`.

    clients -> kernel backlog -> accept loop --ask--> RequestGate --> semaphore
                                    |  ^                  (actor)   (delegated wait)
                                    |  '----- permit (reply channel) ----'
                                    v
                              handler task --> Runner::drive --> SemaWrite / SemaRead /
                              (owns permit)    (budget)          RunEffect planes
    supervisor: bind -> start -> join accept tasks -> abort -> stop gates -> stop runtime
    socket file: prepare -> bind -> chmod -> serve -> drop (unlink)
    startup: one argument classified, socket path selected -> prepare
    trace: record -> connect -> archive -> write | accept -> read -> collect : client
    frame: body -> prefix and body on a byte stream -> body, or a refusal

| Part | State it keeps | Operations | Talks to |
|---|---|---|---|
| Request gate (`async_runtime.rs` `RequestGate`, `RequestPermitPool`, `RequestPermit`) | actor mailbox, request count, free permits, waiters | ask for a permit, ask for the status, graceful stop, drop of a permit or of an ask | the accept loop asks; a spawned task waits on the semaphore |
| Async accept loop (`AsyncListenerTask`, `BoundAsyncSingleListenerDaemon`, `BoundTcpListenerDaemon`) | the listener, the stream in hand | accept, read the peer, ask, spawn the handler, end on the first error | kernel, gate, handlers |
| Async multi-listener daemon (`AsyncMultiListenerDaemon`) | bound listeners, a `JoinSet` of accept tasks, gates, runtime | bind, start, join, abort all, stop each gate, wait, stop the runtime; serve one connection at a listener | accept tasks, gates, component; also called piecewise by an embedder |
| Async single-listener and TCP daemons (`BoundAsyncSingleListenerDaemon`, `tcp.rs`) | one listener, one gate | bind, start, serve, stop, run | as above; also called piecewise by an embedder |
| Synchronous daemons (`daemon.rs`) | non-blocking or blocking listeners, a stop signal of the component | bind, start, poll, handle inline, stop | kernel, component |
| Runtime socket file (`process.rs` `RuntimeSocketFile`, with the four path/file types of the daemons) | what the path names | look, remove a stale socket, bind, chmod, unlink on drop | other runs, other programs |
| Bounded workers (`workers.rs`) | a permit count under a mutex, a condition variable | dispatch, acquire, task end, permit drop | threads of the caller and of the tasks |
| Runner and budget (`runner.rs`, `reaction.rs`) | completed steps of a drive | decide, spend, dispatch a plane, reply, report exhaustion | the component's engines |
| Frame codec (`frame.rs`) | none; a write and a read in progress keep what is left of their frame | encode, write, read, refuse a length | the component's streams |
| Trace log, listener, client (`trace.rs`) | recorded events in memory, a listening socket, the events of a collect call | record (nowhere, in memory, over a connection of its own), bind, collect until a deadline or a count, drop | threads of daemons, clients, the kernel's backlog, the file system |
| Runtime path selection (`process.rs`) and command arguments (`argument.rs`) | none | classify one argument, select a default or a runtime directory, override it, check the path | environment, file system |
| Peer identity, exit report, request error log, role traits | none | carry values, print | not modelled; see section 8 |

What makes it hard:

- *An ask is in five places.* Mailbox, actor handler, delegated task, reply
  channel, asker. The asker may be aborted (`abort_all`) in any of them, even
  when the permit is already in the reply channel.
- *The actor stops while delegated tasks still wait* on a semaphore that
  outlives it, so "gate stopped" does not mean "nobody is admitted any more".
- *Supervision.* Accept tasks fail, panic or are aborted in any order; the
  supervisor sees one of them and must take the rest, every gate, the runtime
  and every socket file with it, although handlers may never finish.
- *Borrowed and owned listeners.* An accept task of the multi daemon's `run()` owns
  its socket; the single daemon's loop, and every call of an embedder, borrows it:
  the backlog is reset at different moments.
- *Dropped futures.* `bind()`, `run()` and the public serve calls may be dropped
  at any await; what they hold goes, what they started (a gate, an ask in its
  mailbox, a handler) stays.
- *Check, act and crash on a path in the file system*, in separate system calls, with
  other programs at work on the same path.
- *A panic in a handler of the polling thread* unwinds the shell past `stop()`.
- *A trace event is a connection.* `connect` waits without a timeout when the
  backlog is full, the stream is read without a timeout once accepted, and the
  deadline is looked at only between events.
- *A byte stream has no frames.* A read or a write given up between two bytes, or
  a refused length, leaves the two ends out of step.
- *A condition variable with barging and spurious wakeups.*
- *Counters at their end*: limit zero, capacity zero, `u32::MAX` steps.
- *A poll loop that starts again at its first listener* after each stream.

For each part, what makes it correct:

- gate: permits are conserved through every drop, refusal and stop; none lies
  idle while a task waits; a full gate still answers and stops;
- accept loop and daemons: handlers that own a permit stay within the limit, a
  busy listener does not hold up another, a failed listener ends the daemon in
  order (tasks, gates, runtime, sockets), and the permits come home;
- workers: capacity is never passed, no wakeup is lost, no waiting call is forgotten;
- runner: no drive passes its budget, the report is exact, a drive ends;
- synchronous shells: the stop signal is obeyed within one stream, and no way out keeps
  sockets or files but the one at which bind failed;
- socket file: the run that serves is reachable by its path, a crash never
  blocks a restart, a foreign file that is there when a run looks survives;
- trace: what is collected is in order and whole, what was reported as written is
  not lost in silence, a collect call ends;
- frame: bodies come whole and in order however the bytes come, and without a
  deadlock;
- startup: a socket stays inside the runtime directory, a variable that is set
  decides or fails.

## 2. Modules

    BoundedAdmission            abstract: clients enter and leave pools of Limit slots,
                                those in Returning again and again
      ^ refined by                        ^ refined by
    RequestGate                         BoundedWorkers
      ^ extended by
    AsyncListener               the gate composed with an accept loop and its handlers
      ^ extended by    ^ extended by
    AsyncMultiDaemon   AsyncSingleDaemon

    Runner   SyncDaemon   SocketFile   Trace   Frame   Startup      each on its own

    MC<Module>.tla, .cfg        an instance of the module for TLC
    RequestGateProofs           theorems about RequestGate
    AsyncListenerProofs         the lemmas both daemons use
    AsyncMultiDaemonProofs, AsyncSingleDaemonProofs, TraceProofs
    ThreadProofs                BoundedWorkers and SyncDaemon, which wait by blocking threads
    ConnectionProofs            Frame and Runner, what one connection goes through
    RuntimePathProofs           Startup and SocketFile, the path of the socket

| Module | Variables and the code they stand for | Actions |
|---|---|---|
| `RequestGate` | `mailbox`, `gateState`: the Kameo actor; `accepted`: `accepted_request_count`; `available`, `queue`: the Tokio semaphore; `phase`, `abandoned`: where each ask is and whether its future still exists; `snapshot`: the status an observer got | `Ask`, `StopGracefully`, `Abandon`; `HandleAcquire`, `HandleStatus`, `HandleStop` (the actor, in mailbox order); `AcquirePermit`, `Deliver`, `DropReply`, `Release` (delegated task, reply channel, holder) |
| `AsyncListener` | `serve`: the accept loop; `conn`: each client's connection; `open`: listening sockets; `owned`: the listeners moved into their accept task | `Connect`, `AcceptNext`, `ContextFails`, `AcceptFails`, `AskFails`, `CancelServe` (the loop's future dropped), `Admit`, `IntoParts`, `HandlerReturns` |
| `AsyncMultiDaemon` | `driver` (`run()` or an embedder), chosen at the start; `daemon`, `step`: how far it has come; `aborting`; `result`; `sockets`: the files | `BindNext`, `BindFails`, `ChmodFails`, `Start`, `StartFails`, `TaskStep`, `TaskPanics`, `Cancel`, `JoinFailure`, `StopNextGate`, `AwaitGates`, `RuntimeStops`, `DropBind`, `DropRun` (its futures dropped); `ServeAt`, `DropCall`, `EmbedderStops`, `EmbedderDrops` (an embedder's calls, in any order) |
| `AsyncSingleDaemon` | the same for one listener that the loop borrows; `transport` (Unix or TCP) and `driver` (`run()` or an embedder) are chosen at the start | `Bind`, `BindFails`, `Start`, `StartFails`, `LoopStep`, `StopGate`, `AwaitGate`, `RuntimeStops`, `Return`; `DropLoop`, `ServeAgain` (an embedder drops its serve call and serves again), `DropAll` (the daemon goes with the calls that borrow it) |
| `BoundedWorkers` | `available`: the count under the mutex; `task`: where each call of `dispatch`, then its task, is; one that is over comes again | `Dispatch`, `Acquire`, `SpuriousWakeup`, `Spawn`, `Finish`, `DropPermit` |
| `Runner` | `at`, `completed`, `exhausted`: a drive, its budget, its report; `performed`: a history count of the steps really started | `Continue`, `Dispatch`, `PlaneAnswers`, `Reply`, `Exhaust`, `DropDrive` |
| `SyncDaemon` | `shell`, `pc`, `index`: the one thread; `backlog`, `serving`, `files`; `stopSignal`; `late`: a history count of the streams taken after the signal; `runtime` | `Connect`, `RaiseStop`, `BindNext`, `BindFails`, `Start`, `StartFails`, `CheckContinue`, `AcceptNext`, `PollNext`, `Wake`, `HandlerReturns`, `AcceptFails`, `Stop`, `Return`, `Unwinds` (a panic of the component) |
| `SocketFile` | `path`: what it names; `run`, `listening`: each run; `exclusive`: whether the operator waits for the run before; `overtaken`: a history set of the runs since whose last look, or bind, another program has changed the path | `Begin`, `LookAtPath`, `RemoveStale`, `BindPath`, `ApplyMode`, `ApplyModeFails`, `BeginDrop`, `LookBeforeUnlink`, `Unlink`, `Crash`; `ForeignFile` (another program creates, removes or replaces what is at the path) |
| `Trace` | `destination`, `memory`, `poisoned`: the `TraceLog`; `at`, `sent`: each recording thread; `event`: what `record_result` returned, where its connection goes, what of its frame is on the wire; `path`: what the trace path names; `client`: each `TraceSocketListener` and its collect call; `backlog`: the kernel's queue; `workload`: who takes part | `RecordDisabled`, `RecordInMemory`, `SnapshotPanics`; `Record`, `Resolve`, `Connect`, `Encode`, `Write`, `Finish`, `Kill` (a recorder); `RemoveOld`, `BindPath`, `Collect`, `Deadline`, `Check`, `Accept`, `Wake`, `Read`, `CollectFails`, `RemovePath`, `Close`, `Crash` (a client) |
| `Frame` | `limit`: both ends' codecs; `out`: what `write_all` has left; `stream`; `reader`, `length`, `got`: the `read_exact` under way; `sent`, `received`, `cut`, `disturbed`: history | `WriteBody`, `WriteByte`, `DropWrite`, `CloseWriter`; `ReadBody`, `ReadByte`, `PrefixRead`, `BodyRead`, `EndOfStream`, `DropRead` |
| `Startup` | `invocation`: arguments, environment, what the component asks for; `files`: which operands name a file now; `argument`, `selection`: the results; `at` | `Classify`, `SelectBase`, `SelectOverride`, `Prepare`; `FileChanges` |

What is one step and why:

- a Kameo handler runs to its end before the next message, and neither
  `AcquireRequestPermit` nor the status handler awaits: one action each. The
  wait of the permit is a step of a spawned task (`Context::spawn`);
- the Tokio semaphore hands a returned permit to the first waiter in the same
  critical section, and only then adds to the free count: `ReturnPermit`;
- between the reply that carries the permit and `tokio::spawn` of the handler
  there is no await, so delivery, spawn and the return to `accept()` are `Admit`;
- what is done under the mutex of `workers.rs` is one step, and `Condvar::wait`
  releases it in the step that falls asleep; a notification and the woken
  caller's next lock are two steps, so that a new caller may barge in;
- a dropped future ends where it waits. `bind()` of the async shells awaits only
  the start of a gate, when the socket file exists and `AsyncSocketFile` does not
  own it yet, so that file stays;
- each system call of `trace.rs` is a step, and a connect is two: it finds who
  listens at the path, then gets a place in that backlog. A frame is "open" until
  its last byte; only a big one needs the reader's help for that;
- each byte is a step in `Frame`. The blocking and the async methods of the codec
  do the same steps; only an async call can be dropped, or a blocking one time out;
- each file-system call is a step of its own in `SocketFile`, and another program may
  change the path between any two. In the daemon modules the same file is a set of
  names that exist, because those modules are about when files are created and dropped;
- a panic is caught nowhere in the synchronous shells: `Unwinds` drops the daemon with
  its sockets and does not call `stop()`. In the async shells a panic of an accept task
  is `TaskPanics`, one of a detached handler is the end of that handler, and one of
  `start()` or `stop()` unwinds `run()` as if its future were dropped;
- Kameo, Tokio, the kernel and the standard library are modelled from how the
  crate uses them and are marked external in the map.

The `Bug...` operators in the modules are never used by a specification. Each is
a plausible mistake in the operation below it; it replaces the operation in a
mutated run, which must then break the property it is listed with. A property
that no such mistake can break would say nothing about the code.

## 3. Runs

| Run | Module, cfg | Instance | Distinct states | What it shows |
|---|---|---|---|---|
| `gate` | `MCRequestGate` | 1 gate of 2 permits, 3 requests, 1 observer | 32 585 | `PermitConservation`, `NoIdlePermit`, `StatusConsistent`; the gate implements `BoundedAdmission`; `MailboxStaysResponsive`, `AskSettled` |
| `multi_daemon` | `MCAsyncMultiDaemon` | 2 listeners, configured limit 0 (so 1), both drivers; 2 + 1 clients under `run()`, one of them split by `into_parts`, 2 under an embedder | 53 951 | `OwningHandlersWithinLimit`, `OneAskPerListener`, `RuntimeStopAfterGates`; `ListenerIsolation`, `FailureIsFatal`, `SocketsRemoved`, `PermitsComeHome`; every step is a step of the gates (`ImplementsGates`) |
| `into_parts` | `MCAsyncMultiDaemon`, `MCIntoParts.cfg` | the same | violation | finding 1 |
| `single_daemon` | `MCAsyncSingleDaemon` | 1 listener of 1 permit, 3 clients, both transports, both drivers | 57 068 | `RuntimeStopAfterGate`, `NothingLeftBehind`; `ClientAnswered`, `StoppedGateEndsLoop` |
| `runner` | `MCRunner` | drives with limits 0, 2 and the largest count, which is 3 | 945 | `BudgetRespected`, `ReportExact`; `DriveEnds` |
| `workers` | `MCBoundedWorkers` | 2 permits, 4 calls of `dispatch` that come again and again | 1 152 | `PermitsConserved`, `NoLostWakeup`; `DispatchReturns`; the workers implement `BoundedAdmission` |
| `sync_daemons` | `MCSyncDaemon` | 3 listeners, 4 clients that reconnect, both shells | 749 | `AtMostOneAfterStop`, `OrderlyEnd`; `StopSignalObeyed`, `ServedWhenEarlierQuiet` |
| `socket_file` | `MCSocketFile` | 3 runs, one after the other or overlapping, and another program that changes the path at any time | 35 397 | `ServingReachable`; `StaleSocketNeverBlocks`, `ForeignFileKept` |
| `trace` | `MCTrace` | 2 recorders of 2 + 1 events and a client that collects twice, or 1 recorder of 2 events and 2 clients on the same path | 194 706 | `CollectedInOrder`, `OkEventsKept`, `AtMostOneLate`; `RecordEnds`, `CollectEnds` |
| `frame` | `MCFrame` | 5 bodies, limits 1, 3, 4 at either end, 2 frames over a stream of 3 bytes | 83 503 | `BodiesInOrder`; `EveryBodyArrives` |
| `startup` | `MCStartup` | 6 command lines, 6 paths in every role, 2 operands | 98 672 | `SelectionSound` |
| `live_socket` | `MCSocketFile`, `MCSocketOverlap.cfg` | the same | violation | finding 2 |

Deadlock checking is off in every run, because each of these systems may really
stop: a daemon that has exited, drives and dispatches that are over, runs used up,
a closed stream, a process that has started.

The type invariants (`TypeOK` and the like) are no properties of the runs: they are
part of the inductive invariants and proved with them. Only `StartupTypeOK` is not,
see section 7.

### Why the bounds are enough

- *gate.* Three requests on two permits give every situation of the semaphore:
  a free permit, the last one, a waiter, a hand-over to a waiter whose asker is
  gone. `CountMax` is 2, so that the third request meets the saturated counter.
  One gate suffices here; pools of different gates meet in `multi_daemon`.
- *multi_daemon.* Two listeners are the least for isolation, abort of a sibling
  and a stop in order. Two clients on a listener of one permit make the second
  ask wait. The configured limit is 0 to exercise `RequestConcurrencyLimit::new`.
  `ClientsOf` leaves an embedder the two clients of the first listener, whose calls
  can come at any moment and in any order; the second listener is served, stopped
  and dropped without a client.
- *single_daemon.* One permit and three clients: one handled, one whose ask
  waits, one in the backlog, when the loop fails or the gate stops.
- *runner.* `U32Max` is 3. Limits 0, an ordinary 2 and `U32Max` itself are the
  three cases of `spend_next_step`; the counter never passes its limit.
- *workers.* With two permits and four calls two callers can sleep while two
  permits come back, which is what loses a wakeup if anything does, and the other two
  can take those permits first, again and again.
- *sync_daemons.* Three listeners are the least for a poll that starts again
  before it has reached the last. `LateMax` caps the history count at 2, one
  more than the property allows.
- *socket_file.* Three runs: one leaves a stale socket, one takes it over, one
  takes over after that. The other program may act between any two of their steps, and
  as often as it likes: its changes need no bound, because the state keeps only whether
  a run has been overtaken.
- *trace.* The backlog holds one connection, so the second recorder waits. One
  frame does not fit the socket's buffer: its recorder waits for the reader. A
  client that collects twice shows what carries over from call to call; two
  clients take the path from each other, one after the other or at once. The count
  goal is 1, so both ends of the loop occur. `LateMax` caps the history count at 2,
  one more than the property allows.
- *frame.* `Base` 2 and `PrefixDigits` 2 stand for 256 and 4: the largest length is
  3, and one body is longer. Limits 1, 3 and 4 are below, at and above it. The
  stream holds 3 bytes, less than the longest frame. Two frames are enough for the
  second to be taken for the rest of the first.
- *startup.* The six paths are the empty one, a relative, an absolute, one that
  climbs out, one that climbs from the root and one that is not UTF-8, each as
  directory, as part inside it and as override; an unset variable is the seventh.
  `Parts` are the parts these paths are made of and what replaces the one that is
  not UTF-8.

### Fairness, and what justifies it

The executor (or the kernel's scheduler) runs whatever can run: the actor's
mailbox loop, the delegated tasks, accept loops that have a client or an answer,
the supervisor, aborted tasks, awake threads. These have weak fairness. None is
assumed for

- clients: nobody has to connect;
- failures: accept errors, panics, refused spawns, raised stop signals;
- handlers, worker tasks and awaited planes: nothing in this crate makes them
  return. A liveness property that needs them says so in its own antecedent,
  `[]<>(no handler of this listener runs)`, so the reader sees which listener's
  handlers it depends on. `MailboxStaysResponsive` and `FailureIsFatal` need
  none, and that is their point;
- dropped futures and killed processes, which come when they like;
- the order of callers at the mutex and condition variable of `workers.rs`: neither
  keeps one. Calls that come again can find every free permit before a woken one does,
  for ever. `DispatchReturns` therefore speaks of a call that is not overtaken for
  ever (`<>[][~Overtaken(t)]_vars`); without that premise TLC finds the starvation.

What the component supplies beside its handlers (`start()`, `stop()`,
`should_continue()`) is assumed to return, with an error or not, or to panic: nothing
in the crate could go on otherwise, and every property about the end of a daemon
(`FailureIsFatal`, `ClientAnswered`, `StopSignalObeyed`) rests on it.

In both async daemons the call of `stop()` is fair only for `run()`; an embedder
may never call it, and need not serve again. Its `stop()`, once called, goes on.
So `ListenerIsolation` and `FailureIsFatal` speak of `run()`; an embedder's loops
are its own to keep alive. `RuntimeStopAfterGates`, `SocketsRemoved` and
`PermitsComeHome` hold for both.

In `Trace` a recorder that has begun, a collect call and the clock go on. The
place in a backlog has strong fairness: the kernel wakes connecting threads in
order, so one that waits is served if places keep coming. In `Frame` both ends go
on with what they have begun; nobody has to offer a frame. `Startup` has no
liveness property and no fairness.

## 4. Properties worth knowing about

- `MailboxStaysResponsive` is what ARCHITECTURE calls "load-bearing": with the
  wait done in the handler itself (`BugHandlesWhenFree`) a full gate neither
  answers a status nor stops.
- `PermitsComeHome` is the abort race: a task aborted just when its permit was
  granted gives the permit back, through the reply channel's drop.
- `RuntimeStopAfterGates` is as strong as the code allows: a stopped gate's
  delegated task may still be granted a permit afterwards, so one connection for
  each listener can reach a handler when the runtime has been told to stop. Under an
  embedder this holds although serve calls may begin beside and after `stop()`: they
  accept a stream, and the stopped gate refuses it.
- `StoppedGateEndsLoop`: nothing wakes an accept loop whose gate was stopped by
  an embedder. It ends with the next client, and the property says just that.
- `ServedWhenEarlierQuiet`: the polled shell promises service only while earlier
  listeners are quiet. The unconditional form does not hold; the shell is
  documented as legacy in `NON_IDEAL_AGENTS.md`.
- `SocketsRemoved` and `NothingLeftBehind` name the files that may stay: the one of
  a `bind()` whose chmod failed or whose future was dropped while its gate started.
  Every other way out, dropped futures included, removes them.
- `OkEventsKept`: an `Ok` from `record_result` means the event is on its way to a
  client or collected, and it can be lost only visibly: the client ended, or one of
  its calls returned an error. A call that accepts after its deadline and drops
  what it accepted (`BugDropsLate`) would break it.
- `RecordEnds` says what `record()` needs from a client, and so what it lacks: a
  client that neither empties its backlog nor leaves holds the daemon up, because
  `connect` has no timeout. Its antecedent is that weakness, stated.
- `BodiesInOrder` holds up to the first refused length or dropped call with bytes
  consumed; after that the stream is out of step for good, and the codec has no way
  to tell.
- `StaysInside` (in `SelectionSound`) resolves `..` as the kernel would and compares
  with the directory as it was used, so it checks the textual test of
  `AbsoluteRuntimePath::try_new` against what that test is for.
- `NoLostWakeup` relates sleepers, awake callers and free permits, the invariant
  behind `notify_one` for each permit.
- `OrderlyEnd` says what each way out of a synchronous shell leaves behind. `stop()`
  follows every start but for a panic: then the runtime stays started, as nothing in
  `daemon.rs` catches it, and still no file stays. `handle_stream` panics, for one,
  when `dispatch` cannot start a thread.
- `ForeignFileKept` is exact about a gap the code leaves open: `symlink_metadata` and
  `remove_file` are two calls, and what another program puts at the path between them
  is removed, by one run alone too. The property says that a foreign file is lost in
  no other way. `ServingReachable` and `StaleSocketNeverBlocks` except another
  program's changes in the same manner, each only since the run last looked.
- `OneAskPerListener` counts the asks somebody still awaits. With an embedder that
  drops calls, an abandoned ask may still lie in the mailbox beside the live one.

## 5. Findings

1. **`into_parts` gives up the permit** (`into_parts` run,
   `async_runtime.rs:358`). `AcceptedConnection::into_parts` moves out the stream
   and the context and drops the permit, while the handler goes on. With a limit
   of one a listener then handles two connections. ARCHITECTURE.md:52 says a
   permit holds its slot "until the request driver drops it", and
   `process.rs:627` that the default preserves single-request behaviour. What
   does hold is `OwningHandlersWithinLimit`, proved below.
2. **A live socket is removed as if it were stale** (`live_socket` run,
   `process.rs:590`). `remove_stale_socket` asks whether the path names a socket,
   not whether anybody listens. A second run takes the path of the first, which
   goes on listening where no client reaches it. ARCHITECTURE.md:201 speaks of
   removing "any stale socket file". `ServingReachable` and `StaleSocketNeverBlocks` are
   therefore stated for runs that do not overlap (`exclusive`); `ForeignFileKept` is
   for all.

## 6. What is proved

Every safety property that a passing run checks is a theorem, for every value of the
constants. Eight modules hold the proofs; `AsyncListenerProofs` has the lemmas the two
daemons share. The constants are arbitrary but for these assumptions, which TLC evaluates in the runs: `GateAssumption` (finitely many
requests, distinct message kinds, natural limits), `ListenerAssumption`
(no status observers), `MultiAssumption` (listeners are numbered), `SingleAssumption`
(there is one), `WorkersAssumption`, `RunnerAssumption` (limits are counts of that
width), `SyncAssumption` (at least one listener), `FrameAssumption` (a prefix has at
least one digit; the code's has 4 of base 256), `StartupAssumption` (a path is a sequence
of parts; what stands in for bytes that are not UTF-8 is a part of its own and not
`..`), `SocketFileAssumption` and `TraceAssumption` (what a path names is
distinguishable).

| Theorem | Says |
|---|---|
| `RequestGateProofs`: `GateTypeCorrect`, `PermitsAreConserved`, `PermitsAreNotIdle` | types, `PermitConservation` and `NoIdlePermit` for any gates, asks and limit |
| `StatusesAreConsistent` | `StatusConsistent`, also when the count saturates |
| `GateImplementsAdmission` | `GateSpec => ImplementsAdmission` |
| `AsyncMultiDaemonProofs`: `DaemonImplementsGates` | every step of the daemon is a step of its gates or leaves them alone |
| `DaemonConservesPermits` | `PermitConservation` inside the daemon |
| `OwningHandlersAreLimited` | handlers that own their connection are the permit holders and within the limit |
| `OneAskEach`, `RuntimeStopsAfterGates`, `DaemonTypeCorrect` | `OneAskPerListener`, `RuntimeStopAfterGates`, `MultiTypeOK` for any listeners and clients, through panics, aborts and dropped futures, under `run()` and under an embedder |
| `AsyncSingleDaemonProofs`: `RuntimeStopsAfterGate`, `LeavesNothingBehind` | `RuntimeStopAfterGate` and `NothingLeftBehind` on both transports, under `run()` and under an embedder |
| `DaemonImplementsGate`, `OwningHandlersAreLimited`, `DaemonTypeCorrect` | for the single-listener shells too: each step is a step of the gate or leaves it alone, handlers that own their connection are within the limit, `SingleTypeOK` |
| `TraceProofs`: `CollectionIsOrdered`, `OkEventsAreKept`, `OneLateAtMost` | `CollectedInOrder`, `OkEventsKept`, `AtMostOneLate` for any recorders, clients, backlog and workloads |
| `ThreadProofs`: `PermitsAreConserved`, `NoWakeupIsLost`, `WorkersImplementAdmission` | the same three questions for the workers, for callers that come again |
| `OneStreamAfterStop`, `ShellsEndInOrder`, `SyncTypeCorrect` | `AtMostOneAfterStop`, `OrderlyEnd`, `SyncTypeOK` for any number of listeners and clients, through panics of the component |
| `ConnectionProofs`: `FramesArriveInOrder`, `FrameTypeCorrect` | `BodiesInOrder`, `FrameTypeOK` for any bodies and limits, any capacity of the stream, any base and width of the prefix |
| `ValueOfDigits` | a length that fits its prefix is read back from it |
| `NothingIsRefused` | `NeverRefuses`: in a stream in step, a reader that accepts as much as its writer refuses no length |
| `BudgetIsRespected`, `ReportIsExact` | `BudgetRespected`, `ReportExact` for any limits and any decisions |
| `RuntimePathProofs`: `SelectionIsSound` | `SelectionSound` for any paths, directories and overrides |
| `ServingIsReachable`, `StaleSocketsNeverBlock`, `ForeignFilesAreKept` | `ServingReachable`, `StaleSocketNeverBlocks`, `ForeignFileKept` for any number of runs, whatever another program does to the path and when; the last also for runs that overlap |

The arguments:

- **Gate.** `PermitConservation` alone is not inductive. A returned permit goes
  to the head of the queue without changing the free count, which is right only
  if that head does not own a permit already, and is in the queue once. So
  `GateInv` is `GateTypeOK /\ MailboxInv /\ QueueInv /\ PermitConservation`.
  `QueueInv` says that the queue holds exactly the waiting tasks of its pool,
  each once, and that it is empty while permits are free (`NoIdlePermit` is read
  off from that). `MailboxInv` says that the mailbox holds exactly queued asks,
  each once: without it a handler could move an ask that owns a permit. The
  sequence lemmas `PutLast`, `TakeFirst`, `JoinQueue` and `LeaveQueue` carry both
  through `Append` and `Tail`; one lemma for each group of actions does the rest.
- **Gate refines the pool.** Under `live` = owners, `gone` = released, a grant is
  `Enter`, a return is `Leave` or, with a waiter, `Handover`, all else stutters.
  The bound of `Enter` is `PermitConservation` with a free permit.
- **Status.** A status relates the actor's count to permits other tasks move.
  `CountInv` counts the requests a gate has handled: no more than its counter
  shows, unless that is at its end, which is no less than the limit. Owners are
  handled requests, so conservation gives the bound at the moment of the answer,
  and the counter only grows after it.
- **Daemon.** `SupervisorInv` keeps the supervisor's index inside the list, so
  each `StopNextGate` names a real gate and every step is a `GateNext` step or a
  stutter. That yields `DaemonImplementsGates`, and with it all of `GateInv`
  inside the daemon, without redoing the gate's proof. `OwnerInv` (a connection
  is handled exactly while its permit is held) then turns the count of owners
  into a bound on handlers.
- **Asks and the stop.** `AskInv` ties loop, connections and asks: a loop asks
  exactly while a stream of its listener is accepted, there is one such stream,
  every ask that is still awaited is that stream's, and an ask not yet made was not
  dropped. It needs `Abandon` to go with every stream a cancelled loop loses, which
  is why `CancelServe` and `DropAll` are one step each. With `StoppedInv` (a stopped
  gate's mailbox is empty and stays so) and `StopInv` (behind the wait every gate
  has stopped) it gives the two `RuntimeStop...` theorems. `RemainsInv` of the
  single daemon follows socket, backlog and file to the end.
- **Trace.** Per listener, `PlaceInv` says which fields of a collect call are set
  where, `LateInv` that a late connection leads back to the deadline check,
  `SourceInv` that what is in the backlog, in the hand or collected was sent here
  and is whole once collected, `KeptInv` that an event with an open connection is
  in one of these places, and `OrderInv` that for each recorder the
  collected events come before the one in hand, and that one before those in the
  backlog. `RecorderInv` says that a recorder's earlier events are over and the later
  ones nowhere yet, so a new one is later than all of them.
- **Workers.** The invariant is type, conservation and `NoLostWakeup` together: a
  caller that falls asleep needs `available = 0`, and one that is woken must be
  counted as awake. `OneMoreAwake`, `OneLessAwake` and `DropEndsOwnership` say
  how each step moves the two cardinalities.
- **Runner.** The invariant adds that an exhausted drive has no budget left and
  that its report was taken from the budget then.
- **Synchronous shells.** `AtMostOneAfterStop` is not inductive: from a poll with one
  late stream behind it a second could be taken. `LateInv` excludes that poll. Late
  streams need a signal, only the polled shell has one, and behind a late stream the
  thread is on its way to the check of the outer loop, which ends it. `ThreadInv` says
  for each place of the thread, the one a panic leads to included, which files exist and
  how far the runtime is; `OrderlyEnd` is read off from it. `DropKeeps` is the common
  part of all the ways in which the daemon is dropped.
- **Frame.** `ChannelInv` says what the bytes between the ends are until something
  disturbs them: the whole frames that follow the bodies received, one after another,
  and of the last body sent what has been written of its frame (`Carries`). A body
  whose prefix has been read still counts with that prefix. The lemmas `CarriesByte`, `CarriesFrame`,
  `CarriesDrop`, `CarriesStop`, `CarriesPrefix` and `CarriesBody` are the steps of the
  two ends. `CarriesBody` is the heart: the prefix that was read is the prefix of the next
  frame, so by `ValueOfDigits` the length is that body's, and the bytes read are
  the body. `LimitInv` adds that every body sent passed the writer's limit, which gives
  `NeverRefuses`.
- **Digits.** That a prefix determines its length is an induction over the digits. The
  library's induction theorems take an operator, which the provers cannot
  instantiate; `LeastNumber` (a non-empty set of numbers has a least one) and `UpTo` (a
  set with 0 and with the successor of each of its members below a bound has them all) say the same of
  sets, and `IterationExists` gives from them that a recursive function is defined.
- **Startup.** `SelectionInv` says that a path in use passed `Valid`, and that one from
  the directory is the join of directory and part. `ResolvedPlain` says that parts
  without `..` resolve to themselves, so the joined path begins with the directory;
  its proof looks at the least number of parts for which it would fail.
- **Socket file.** `GapInv` holds for any runs: one that has looked and is about to
  remove still sees a socket at the path, or nothing because another run removed it,
  unless another program has changed it since. `ForeignFileKept` is read off from it.
  `ExclusiveInv` says what the path can name in each state of the one active run, up to
  such a change. `EveryStep` reduces each action to "one run moves, the others stay" or
  "another program acts and overtakes every active run".

## 7. What is only model-checked

- every liveness property: they rest on fairness and `ENABLED`, which the prover
  does not handle;
- `StartupTypeOK` is not proved, only what the theorem needs of it: the parser filters
  a sequence of arguments (`SelectSeq`), for which the library has no theorem;
- the two violations, which are findings.

## 8. What is not modelled, and why

- *Several serve calls of an embedder at once* on one listener. Each has its own
  stream and ask; the gate keeps its promises for any number of asks, but
  `OneAskPerListener` and the "one connection" of the two `RuntimeStop...` properties
  are for one call at a time. Nor does an embedder of the model call `stop()` twice,
  or hand the daemon to `run()` after calls of its own.
- *An empty listener list*: `serve_connections` returns at once.
- *A gate whose last reference is dropped* ends its actor. Nothing can be observed
  of it then; permits that are out live in the semaphore.
- *What detached handlers do after `run()` has returned.* They may still use the
  runtime; a component that minds has to drain them.
- *The gates of a daemon that is still binding* run from the first state on;
  nobody can ask them before their listener is bound.
- *The capacity of the Kameo mailbox* (64). `OneAskPerListener` shows that a gate
  gets one ask at a time from its loop, so under `run()` its mailbox never fills. An
  embedder that drops its calls may leave abandoned asks there; the gate handles them
  as fast as it is scheduled, and a full mailbox would only delay the next ask.
- *`RequestPermitError::GateClosed`* cannot happen: nothing closes the semaphore.
- *An error of the runtime's `stop()`* changes only what `run()` reports, and only
  when the listener reported nothing.
- *A path that `prepare` rejects* (not absolute) *or whose parent directory cannot
  be created*: the bind fails before the path is looked at, as in `BindFails`.
- *Another program at the path of a daemon* is in `SocketFile` only. In the daemon
  modules nobody else touches the files, so `SocketsRemoved`, `NothingLeftBehind` and
  `OrderlyEnd` are about the files the daemon itself created.
- *Fairness between callers of `dispatch`*: the code has none, see section 3.
- *What an argument's file holds when it is opened.* Whether an operand is a file is
  asked once (`argument.rs:161`); opening it is the component's affair, and
  `FileChanges` shows only that the classification may be stale by then.
- *`TraceClient` and printing.* A disabled client does nothing; an enabled one is
  a listener. The bytes of an archive are not modelled: a frame decodes or not.
- *What no property depends on* is modelled where it is an operation of the component:
  the classification of the argument in `Startup` and the log in memory of `Trace`,
  with a lock poisoned by a panic. They are there so that every state change of these
  components is an action; what they do is stated by their definitions alone.
- *Lossy paths.* A value of the environment that is not UTF-8 is changed by
  `to_string_lossy` before it is checked and used (`process.rs:437`). The model does
  the same, so `SelectionSound` speaks of the changed value.
- *Peer identity, exit report, request error log, role traits*: they carry or print
  values. A peer that cannot be read is `ContextFails`.

## 9. Plan

Done, in this order: `RequestGate` and `BoundedAdmission`; `AsyncListener` and
`AsyncMultiDaemon`; `AsyncSingleDaemon`; `Runner`; `BoundedWorkers`; `SyncDaemon`;
`SocketFile`; `Trace`; `Frame`; `Startup`; dropped futures in both async daemons;
the embedder's calls of the multi-listener daemon; the proofs of section 6, first
of the gate, the daemons and the workers, then of the shells, the frame and the startup.

Left, in this order:

1. Several serve calls at once on one listener, with the bounds of
   `OneAskPerListener` and of the `RuntimeStop...` properties raised to their number.
