----------------------------- MODULE RequestGate -----------------------------
(***************************************************************************)
(* src/async_runtime.rs: RequestGate, the Kameo actor that admits the      *)
(* requests of one listener, its RequestPermitPool (a tokio semaphore) and *)
(* the RequestPermit a request holds.  A daemon starts one gate for each   *)
(* listener; the module models a set of them.                              *)
(*                                                                         *)
(* An ask crosses five places: the actor's mailbox, the handler (which     *)
(* only counts it and spawns a task), the spawned task (which waits on the *)
(* semaphore), the reply channel, and the asker.  The asker's future may   *)
(* be dropped in any of them.                                              *)
(***************************************************************************)
EXTENDS Integers, Sequences, FiniteSets

CONSTANTS Gates,            \* the gates, one for each listener
          Requests,         \* the AcquireRequestPermit asks
          Observers,        \* the RequestGateStatusRequest asks
          GateOf,           \* the gate each of them asks
          StopSignal,       \* the mailbox entry that stop_gracefully sends
          ConfiguredLimit,  \* the count given to RequestConcurrencyLimit::new
          CountMax          \* the largest accepted_request_count (u64::MAX)

\* RequestConcurrencyLimit::new turns a limit of zero into one.
Limit == IF ConfiguredLimit = 0 THEN 1 ELSE ConfiguredLimit

\* Mutant: one pool for all the gates.
BugSharedPool(r) == CHOOSE g \in Gates : TRUE

\* Each RequestGate::new builds a pool of its own.
PoolOf(r) == GateOf[r]

Askers == Requests \cup Observers

ASSUME GateAssumption ==
    /\ IsFiniteSet(Requests)
    /\ Requests \cap Observers = {}
    /\ StopSignal \notin Askers
    /\ GateOf \in [Askers -> Gates]
    /\ ConfiguredLimit \in Nat
    /\ CountMax \in Nat /\ Limit <= CountMax

VARIABLES mailbox,    \* what each actor has still to handle
          gateState,  \* "running" or "stopped"
          accepted,   \* accepted_request_count of each gate
          available,  \* free permits of each pool's semaphore
          queue,      \* the tasks waiting on each semaphore, first in first out
          phase,      \* where each ask is
          abandoned,  \* asks whose future was dropped before the answer came
          snapshot    \* the RequestGateStatus each observer was given

gateVars == <<mailbox, gateState, accepted, available, queue, phase, abandoned, snapshot>>

Phases == {"idle", "queued", "spawned", "waiting", "granted", "held", "released",
           "refused", "answered"}

Status == [available : Nat, accepted : Nat]

GateTypeOK ==
    /\ mailbox \in [Gates -> Seq(Askers \cup {StopSignal})]
    /\ gateState \in [Gates -> {"running", "stopped"}]
    /\ accepted \in [Gates -> 0..CountMax]
    /\ available \in [Gates -> 0..Limit]
    /\ queue \in [Gates -> Seq(Requests)]
    /\ phase \in [Askers -> Phases]
    /\ abandoned \subseteq Requests
    /\ snapshot \in [Observers -> Status]

GateInit ==
    /\ mailbox = [g \in Gates |-> <<>>]
    /\ gateState = [g \in Gates |-> "running"]
    /\ accepted = [g \in Gates |-> 0]
    /\ available = [g \in Gates |-> Limit]
    /\ queue = [g \in Gates |-> <<>>]
    /\ phase = [a \in Askers |-> "idle"]
    /\ abandoned = {}
    /\ snapshot = [o \in Observers |-> [available |-> Limit, accepted |-> 0]]

InMailbox(g, m) == \E i \in 1..Len(mailbox[g]) : mailbox[g][i] = m

\* Mutant: wrapping_add in place of saturating_add.
BugWrapped(n) == IF n < CountMax THEN n + 1 ELSE 0

Saturated(n) == IF n < CountMax THEN n + 1 ELSE n

------------------------------------------------------------------------------
(* The callers of the gate. *)

\* ask() puts the message in the mailbox, or fails at once on a stopped actor.
Ask(a) ==
    /\ phase[a] = "idle"
    /\ \/ /\ gateState[GateOf[a]] = "running"
          /\ mailbox' = [mailbox EXCEPT ![GateOf[a]] = Append(@, a)]
          /\ phase' = [phase EXCEPT ![a] = "queued"]
       \/ /\ gateState[GateOf[a]] = "stopped"
          /\ phase' = [phase EXCEPT ![a] = "refused"]
          /\ UNCHANGED mailbox
    /\ UNCHANGED <<gateState, accepted, available, queue, abandoned, snapshot>>

\* stop_gracefully() queues the stop behind the messages already there.
StopGracefully(g) ==
    /\ gateState[g] = "running"
    /\ ~InMailbox(g, StopSignal)
    /\ mailbox' = [mailbox EXCEPT ![g] = Append(@, StopSignal)]
    /\ UNCHANGED <<gateState, accepted, available, queue, phase, abandoned, snapshot>>

\* The asker's task is aborted, or its future dropped, while it waits.
Abandon(r) ==
    /\ r \notin abandoned
    /\ phase[r] \in {"queued", "spawned", "waiting", "granted", "refused"}
    /\ abandoned' = abandoned \cup {r}
    /\ UNCHANGED <<mailbox, gateState, accepted, available, queue, phase, snapshot>>

------------------------------------------------------------------------------
(* The actor: it handles its mailbox in order, and its handlers never wait. *)

\* Mutant: the handler awaits a permit itself instead of delegating the wait.
BugHandlesWhenFree(g, m) ==
    /\ gateState[g] = "running"
    /\ mailbox[g] # <<>>
    /\ Head(mailbox[g]) = m
    /\ available[g] > 0

Handles(g, m) ==
    /\ gateState[g] = "running"
    /\ mailbox[g] # <<>>
    /\ Head(mailbox[g]) = m

\* Count the request, then leave the wait to a spawned task.
HandleAcquire(r) ==
    LET g == GateOf[r] IN
    /\ Handles(g, r)
    /\ mailbox' = [mailbox EXCEPT ![g] = Tail(@)]
    /\ accepted' = [accepted EXCEPT ![g] = Saturated(@)]
    /\ phase' = [phase EXCEPT ![r] = "spawned"]
    /\ UNCHANGED <<gateState, available, queue, abandoned, snapshot>>

HandleStatus(o) ==
    LET g == GateOf[o] IN
    /\ Handles(g, o)
    /\ mailbox' = [mailbox EXCEPT ![g] = Tail(@)]
    /\ phase' = [phase EXCEPT ![o] = "answered"]
    /\ snapshot' = [snapshot EXCEPT ![o] = [available |-> available[g], accepted |-> accepted[g]]]
    /\ UNCHANGED <<gateState, accepted, available, queue, abandoned>>

\* The actor ends; what is still in its mailbox is answered with an error.
HandleStop(g) ==
    /\ Handles(g, StopSignal)
    /\ gateState' = [gateState EXCEPT ![g] = "stopped"]
    /\ mailbox' = [mailbox EXCEPT ![g] = <<>>]
    /\ phase' = [a \in Askers |-> IF InMailbox(g, a) THEN "refused" ELSE phase[a]]
    /\ UNCHANGED <<accepted, available, queue, abandoned, snapshot>>

------------------------------------------------------------------------------
(* The spawned tasks and the semaphore: they outlive the actor. *)

\* Mutant: a permit is made without asking the semaphore.
BugUnchecked(r) ==
    /\ phase[r] = "spawned"
    /\ phase' = [phase EXCEPT ![r] = "granted"]
    /\ available' = [available EXCEPT ![PoolOf(r)] = IF @ > 0 THEN @ - 1 ELSE 0]
    /\ UNCHANGED <<mailbox, gateState, accepted, queue, abandoned, snapshot>>

\* The delegated task calls acquire_owned(): a free permit, or the queue's end.
AcquirePermit(r) ==
    LET p == PoolOf(r) IN
    /\ phase[r] = "spawned"
    /\ \/ /\ available[p] > 0
          /\ available' = [available EXCEPT ![p] = @ - 1]
          /\ phase' = [phase EXCEPT ![r] = "granted"]
          /\ UNCHANGED queue
       \/ /\ available[p] = 0
          /\ queue' = [queue EXCEPT ![p] = Append(@, r)]
          /\ phase' = [phase EXCEPT ![r] = "waiting"]
          /\ UNCHANGED available
    /\ UNCHANGED <<mailbox, gateState, accepted, abandoned, snapshot>>

\* Mutant: the permit goes back, but no waiter is told.
BugLostWakeup(r) ==
    /\ available' = [available EXCEPT ![PoolOf(r)] = @ + 1]
    /\ phase' = [phase EXCEPT ![r] = "released"]
    /\ UNCHANGED <<mailbox, gateState, accepted, queue, abandoned, snapshot>>

\* Dropping a permit: the semaphore gives it to the first waiter, if any.
ReturnPermit(r) ==
    LET p == PoolOf(r) IN
    /\ \/ /\ queue[p] = <<>>
          /\ available' = [available EXCEPT ![p] = @ + 1]
          /\ phase' = [phase EXCEPT ![r] = "released"]
          /\ UNCHANGED queue
       \/ /\ queue[p] # <<>>
          /\ queue' = [queue EXCEPT ![p] = Tail(@)]
          /\ phase' = [phase EXCEPT ![r] = "released", ![Head(queue[p])] = "granted"]
          /\ UNCHANGED available
    /\ UNCHANGED <<mailbox, gateState, accepted, abandoned, snapshot>>

\* The permit reaches the asker ...
Deliver(r) ==
    /\ phase[r] = "granted"
    /\ r \notin abandoned
    /\ phase' = [phase EXCEPT ![r] = "held"]
    /\ UNCHANGED <<mailbox, gateState, accepted, available, queue, abandoned, snapshot>>

\* Mutant: a reply that cannot be delivered takes its permit with it.
BugLeakedReply(r) ==
    /\ phase[r] = "granted"
    /\ r \in abandoned
    /\ phase' = [phase EXCEPT ![r] = "released"]
    /\ UNCHANGED <<mailbox, gateState, accepted, available, queue, abandoned, snapshot>>

\* ... or a reply channel nobody listens to, which drops it.
DropReply(r) ==
    /\ phase[r] = "granted"
    /\ r \in abandoned
    /\ ReturnPermit(r)

\* The holder drops its RequestPermit.
Release(r) ==
    /\ phase[r] = "held"
    /\ ReturnPermit(r)

------------------------------------------------------------------------------
GateNext ==
    \/ \E a \in Askers : Ask(a)
    \/ \E g \in Gates : StopGracefully(g) \/ HandleStop(g)
    \/ \E o \in Observers : HandleStatus(o)
    \/ \E r \in Requests :
          \/ Abandon(r) \/ HandleAcquire(r) \/ AcquirePermit(r)
          \/ Deliver(r) \/ DropReply(r) \/ Release(r)

GateSpec == GateInit /\ [][GateNext]_gateVars

HandleNext(g) ==
    \/ HandleStop(g)
    \/ \E o \in Observers : GateOf[o] = g /\ HandleStatus(o)
    \/ \E r \in Requests : GateOf[r] = g /\ HandleAcquire(r)

\* The executor runs the actors and the delegated tasks, and an asker that is not
\* aborted receives its answer.  Nothing in the crate makes a holder finish.
GateFairness ==
    /\ \A g \in Gates : WF_gateVars(HandleNext(g))
    /\ \A r \in Requests : WF_gateVars(AcquirePermit(r) \/ DropReply(r))

AskerFairness == \A r \in Requests : WF_gateVars(Deliver(r))

GateFairSpec == GateSpec /\ GateFairness /\ AskerFairness

------------------------------------------------------------------------------
(* Properties. *)

\* Requests that own a permit: in the reply channel, or with the asker.
Owners(p) == {r \in Requests : PoolOf(r) = p /\ phase[r] \in {"granted", "held"}}

\* RequestPermitPool never creates or loses a permit: whatever asks are dropped,
\* refused or handed over, free permits and owned permits add up to the limit
\* (async_runtime.rs RequestPermitPool::acquire, RequestPermit drop).
PermitConservation == \A p \in Gates : available[p] + Cardinality(Owners(p)) = Limit

\* No permit lies idle: a delegated task waits only while its pool has none free,
\* through every handover, dropped reply and stop (RequestPermitPool::acquire
\* against the drops of RequestPermit; tokio's first-in first-out semaphore).
NoIdlePermit == \A r \in Requests : phase[r] = "waiting" => available[PoolOf(r)] = 0

\* A RequestGateStatus is consistent although the permits move while the actor
\* handles messages: the permits that are out never exceed the requests counted,
\* and an earlier status never shows a count above the gate's
\* (RequestGate::status, RequestGate::accept_request).
StatusConsistent ==
    \A o \in Observers : phase[o] = "answered" =>
        /\ Limit - snapshot[o].available <= snapshot[o].accepted
        /\ snapshot[o].accepted <= accepted[GateOf[o]]

\* A full gate still answers status and still stops: the wait is delegated, so
\* no holder has to finish for the mailbox to drain (ARCHITECTURE: "the
\* delegated wait is load-bearing"; RequestGate's AcquireRequestPermit handler).
MailboxStaysResponsive ==
    /\ \A o \in Observers : (phase[o] = "queued") ~> (phase[o] \in {"answered", "refused"})
    /\ \A g \in Gates : InMailbox(g, StopSignal) ~> (gateState[g] = "stopped")

\* If the holders of a pool give their permits back, every ask of that pool is
\* settled: held, given back after its asker went away, or refused by the stop.
\* Holders of other pools need not finish (RequestPermitPool, one for each gate).
AskSettled ==
    \A g \in Gates :
        []<>(\A s \in Requests : GateOf[s] = g => phase[s] # "held") =>
            \A r \in Requests : GateOf[r] = g =>
                ((phase[r] = "queued") ~> (phase[r] \in {"held", "released", "refused"}))

\* The gate implements the abstract pool: clients are live from the grant to the
\* drop of the permit (RequestPermitPool::acquire, RequestPermit).
Admission == INSTANCE BoundedAdmission WITH
    Clients <- Requests, Pools <- Gates, Pool <- PoolOf, Limit <- Limit,
    Returning <- {}, live <- {r \in Requests : phase[r] \in {"granted", "held"}},
    gone <- {r \in Requests : phase[r] = "released"}

ImplementsAdmission == Admission!Spec
==============================================================================
