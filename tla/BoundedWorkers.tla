---------------------------- MODULE BoundedWorkers ----------------------------
(***************************************************************************)
(* src/workers.rs: BoundedWorkers::dispatch, which takes one of a fixed    *)
(* number of permits, blocking its caller while there is none, and runs    *)
(* the task on a thread of its own that gives the permit back.  What is    *)
(* done under the mutex is one step; between two of those the threads      *)
(* interleave, a sleeping caller may wake spuriously, and a new caller may *)
(* take the permit a woken one was told of.                                *)
(***************************************************************************)
EXTENDS Integers, FiniteSets

CONSTANTS Tasks,              \* the calls of dispatch that can be under way at a time,
                              \* each with its task: a call that is over comes again
          ConfiguredCapacity  \* the capacity given to BoundedWorkers::new

ASSUME WorkersAssumption == IsFiniteSet(Tasks) /\ ConfiguredCapacity \in Nat

\* A capacity of zero is clamped to one.
Capacity == IF ConfiguredCapacity = 0 THEN 1 ELSE ConfiguredCapacity

VARIABLES available,  \* the count behind the mutex
          task        \* where each call of dispatch, then its task, is

vars == <<available, task>>

\* "trying" is awake and about to lock the mutex, "asleep" waits on the condition
\* variable, "admitted" owns a permit but has no thread yet, "ending" and
\* "unwinding" are about to drop the permit.
Places == {"idle", "trying", "asleep", "admitted", "running", "ending", "unwinding"}

TypeOK == available \in 0..Capacity /\ task \in [Tasks -> Places]

Init == available = Capacity /\ task = [t \in Tasks |-> "idle"]

At(place) == {t \in Tasks : task[t] = place}

Dispatch(t) ==
    /\ task[t] = "idle"
    /\ task' = [task EXCEPT ![t] = "trying"]
    /\ UNCHANGED available

\* Mutant: the count is checked once, before the first wait, not in a loop.
BugNoRecheck(t) ==
    /\ task[t] = "trying"
    /\ available' = IF available > 0 THEN available - 1 ELSE 0
    /\ task' = [task EXCEPT ![t] = "admitted"]

\* Under the mutex: take a permit, or release the mutex and sleep in one step.
Acquire(t) ==
    /\ task[t] = "trying"
    /\ \/ /\ available > 0
          /\ available' = available - 1
          /\ task' = [task EXCEPT ![t] = "admitted"]
       \/ /\ available = 0
          /\ task' = [task EXCEPT ![t] = "asleep"]
          /\ UNCHANGED available

\* Condvar::wait may return without a notification; the loop checks again.
SpuriousWakeup(t) ==
    /\ task[t] = "asleep"
    /\ task' = [task EXCEPT ![t] = "trying"]
    /\ UNCHANGED available

\* thread::spawn moves the permit to the task's thread, or panics and unwinds.
Spawn(t) ==
    /\ task[t] = "admitted"
    /\ \E next \in {"running", "unwinding"} : task' = [task EXCEPT ![t] = next]
    /\ UNCHANGED available

\* The task returns or panics.
Finish(t) ==
    /\ task[t] = "running"
    /\ task' = [task EXCEPT ![t] = "ending"]
    /\ UNCHANGED available

\* Mutant: no caller is notified.
BugNoNotify(t) ==
    /\ task[t] \in {"ending", "unwinding"}
    /\ available' = available + 1
    /\ task' = [task EXCEPT ![t] = "idle"]

\* Mutant: the permit of a task whose thread could not start is given back twice.
BugDoubleDrop(t) ==
    /\ task[t] \in {"ending", "unwinding"}
    /\ available' = IF task[t] = "ending" THEN available + 1 ELSE available + 2
    /\ task' = [task EXCEPT ![t] = "idle"]

\* Dropping the permit: add one under the mutex and wake one sleeper, if any.
DropPermit(t) ==
    /\ task[t] \in {"ending", "unwinding"}
    /\ available' = available + 1
    /\ \/ At("asleep") = {} /\ task' = [task EXCEPT ![t] = "idle"]
       \/ \E s \in At("asleep") : task' = [task EXCEPT ![t] = "idle", ![s] = "trying"]

Next ==
    \E t \in Tasks :
        \/ Dispatch(t) \/ Acquire(t) \/ SpuriousWakeup(t)
        \/ Spawn(t) \/ Finish(t) \/ DropPermit(t)

Spec == Init /\ [][Next]_vars

\* Awake threads run; a task may never finish and a sleeper needs a notification.
FairSpec == Spec /\ \A t \in Tasks : WF_vars(Acquire(t) \/ Spawn(t) \/ DropPermit(t))

------------------------------------------------------------------------------
\* Tasks that own a permit.
Admitted == UNION {At(p) : p \in {"admitted", "running", "ending", "unwinding"}}

\* Free and owned permits add up to the capacity, also when a thread cannot be
\* started or a task panics, so at most `capacity` tasks run
\* (WorkerPermit::acquire, WorkerPermit::drop).
PermitsConserved == available + Cardinality(Admitted) = Capacity

\* No wakeup is lost: while callers sleep, each free permit has an awake caller on
\* its way to it, although a notification may reach a caller that finds the permit
\* gone (WorkerPermit::drop notifies one for each permit).
NoLostWakeup == At("asleep") # {} => Cardinality(At("trying")) >= available

\* Another call than t takes a permit.
Overtaken(t) == \E u \in Tasks \ {t} : task[u] # "admitted" /\ task'[u] = "admitted"

\* If tasks keep finishing, a call of dispatch returns or unwinds unless other calls
\* take permits for ever: no waiting call is forgotten, but neither the mutex nor the
\* condition variable keeps an order, and calls that come again and again may find
\* every free permit first (WorkerPermit::acquire, the loop around Condvar::wait).
DispatchReturns ==
    []<>(At("running") = {}) =>
        \A t \in Tasks :
            <>[][~Overtaken(t)]_vars => ((task[t] = "trying") ~> (task[t] \in {"running", "unwinding"}))

\* The workers implement the abstract pool (workers.rs: "capped at `capacity`
\* concurrent tasks").
ThePool(t) == "workers"

Admission == INSTANCE BoundedAdmission WITH
    Clients <- Tasks, Pools <- {"workers"}, Pool <- ThePool, Limit <- Capacity,
    Returning <- Tasks, live <- Admitted, gone <- {}

ImplementsAdmission == Admission!Spec
==============================================================================
