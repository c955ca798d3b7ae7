---------------------------- MODULE ThreadProofs -----------------------------
(***************************************************************************)
(* The parts that run on threads of the operating system.  BoundedWorkers, *)
(* for any calls of dispatch and any capacity: permits are conserved, no   *)
(* wakeup is lost, and the workers implement BoundedAdmission.  For any    *)
(* clients and listeners of SyncDaemon a stop lets one stream through at   *)
(* most, and the shells leave nothing behind.                              *)
(***************************************************************************)
EXTENDS BoundedWorkers, SyncDaemon, FiniteSetTheorems, SequenceTheorems, TLAPS

Owning == {"admitted", "running", "ending", "unwinding"}

Inv == TypeOK /\ PermitsConserved /\ NoLostWakeup

------------------------------------------------------------------------------
(* Counting callers and owners. *)

\* A capacity of zero is clamped (BoundedWorkers::new).
LEMMA CapacityPositive == Capacity \in Nat \ {0}
  BY WorkersAssumption DEF Capacity

\* The owners are the tasks between the grant and the drop of their permit.
LEMMA AdmittedAre == Admitted = {t \in Tasks : task[t] \in Owning}
  <1>1. ASSUME NEW t PROVE t \in Admitted <=> \E p \in Owning : t \in At(p)
    BY Zenon DEF Admitted, Owning
  <1> QED
    BY <1>1 DEF At, Owning

\* The same after a step.
LEMMA AdmittedBecome == Admitted' = {t \in Tasks : task'[t] \in Owning}
  <1>1. ASSUME NEW t PROVE t \in Admitted' <=> \E p \in Owning : t \in At(p)'
    BY Zenon DEF Admitted, Owning
  <1> QED
    BY <1>1 DEF At, Owning

\* Callers and owners are finitely many.
LEMMA Counts ==
    /\ IsFiniteSet(Admitted) /\ Cardinality(Admitted) \in Nat
    /\ IsFiniteSet(At("trying")) /\ Cardinality(At("trying")) \in Nat
  <1>1. Admitted \in SUBSET Tasks /\ At("trying") \in SUBSET Tasks
    BY AdmittedAre DEF At
  <1> QED
    BY <1>1, FS_Subset, FS_CardinalityType, WorkersAssumption

\* A step that moves nobody in or out of ownership, and no permit.
LEMMA OwnersAlone ==
    ASSUME PermitsConserved, UNCHANGED available,
           \A t \in Tasks : task'[t] \in Owning <=> task[t] \in Owning
    PROVE  PermitsConserved'
  <1>1. Admitted' = Admitted
    BY AdmittedAre DEF Owning, Admitted, At
  <1> QED
    BY <1>1 DEF PermitsConserved

\* A step that moves no caller to or from the condition variable, and no permit.
LEMMA CallersAlone ==
    ASSUME NoLostWakeup, UNCHANGED available,
           \A t \in Tasks : /\ task'[t] = "trying" <=> task[t] = "trying"
                            /\ task'[t] = "asleep" <=> task[t] = "asleep"
    PROVE  NoLostWakeup'
  <1>1. At("trying")' = At("trying") /\ At("asleep")' = At("asleep")
    BY DEF At
  <1> QED
    BY <1>1 DEF NoLostWakeup

\* One more caller is awake.
LEMMA OneMoreAwake ==
    ASSUME TypeOK, NEW t \in Tasks, task[t] # "trying",
           \A u \in Tasks : task'[u] = "trying" <=> (task[u] = "trying" \/ u = t)
    PROVE  Cardinality(At("trying")') = Cardinality(At("trying")) + 1
  <1>1. At("trying")' = At("trying") \cup {t} /\ t \notin At("trying")
    BY DEF At
  <1> QED
    BY <1>1, Counts, FS_AddElement

\* One caller is no longer awake.
LEMMA OneLessAwake ==
    ASSUME TypeOK, NEW t \in Tasks, task[t] = "trying",
           \A u \in Tasks : task'[u] = "trying" <=> (task[u] = "trying" /\ u # t)
    PROVE  Cardinality(At("trying")') = Cardinality(At("trying")) - 1
  <1>1. At("trying")' = At("trying") \ {t} /\ t \in At("trying")
    BY DEF At
  <1> QED
    BY <1>1, Counts, FS_RemoveElement

------------------------------------------------------------------------------
(* The steps. *)

\* Dispatching and waking spuriously only add awake callers.
LEMMA WakingKeepsInv ==
    ASSUME Inv, NEW t \in Tasks, Dispatch(t) \/ SpuriousWakeup(t)
    PROVE  Inv'
  <1>1. /\ task \in [Tasks -> Places] /\ task[t] \in {"idle", "asleep"}
        /\ task' = [task EXCEPT ![t] = "trying"] /\ UNCHANGED available
    BY DEF Inv, TypeOK, Dispatch, SpuriousWakeup
  <1>2. TypeOK'
    BY <1>1 DEF Inv, TypeOK, Places
  <1>3. PermitsConserved'
    BY <1>1, OwnersAlone DEF Inv, Owning
  <1>4. NoLostWakeup'
    <2> DEFINE awake == Cardinality(At("trying"))
    <2>1. Cardinality(At("trying")') = awake + 1
      BY <1>1, OneMoreAwake DEF Inv
    <2>2. At("asleep")' \subseteq At("asleep")
      BY <1>1 DEF At
    <2>3. awake \in Nat /\ available \in Nat /\ (At("asleep") # {} => awake >= available)
      BY Counts, CapacityPositive DEF Inv, TypeOK, NoLostWakeup
    <2> HIDE DEF awake
    <2>4. At("asleep")' # {} => awake + 1 >= available
      BY <2>2, <2>3
    <2> QED
      BY <1>1, <2>1, <2>4 DEF NoLostWakeup
  <1> QED
    BY <1>2, <1>3, <1>4 DEF Inv

\* A caller takes a permit or sleeps because there is none (WorkerPermit::acquire).
LEMMA AcquireKeepsInv ==
    ASSUME Inv, NEW t \in Tasks, Acquire(t)
    PROVE  Inv'
  <1> DEFINE awake == Cardinality(At("trying"))
             owned == Cardinality(Admitted)
  <1>1. /\ task \in [Tasks -> Places] /\ task[t] = "trying"
        /\ available \in 0..Capacity /\ Capacity \in Nat
    BY CapacityPositive DEF Inv, TypeOK, Acquire
  <1>2. /\ awake \in Nat /\ owned \in Nat /\ available + owned = Capacity
        /\ At("asleep") # {} => awake >= available
    BY Counts DEF Inv, NoLostWakeup, PermitsConserved
  <1>3. CASE /\ available > 0 /\ available' = available - 1
             /\ task' = [task EXCEPT ![t] = "admitted"]
    <2>1. Cardinality(Admitted') = owned + 1
      <3>1. Admitted' = Admitted \cup {t} /\ t \notin Admitted
        BY <1>1, <1>3, AdmittedAre, AdmittedBecome DEF Owning
      <3> QED
        BY <3>1, Counts, FS_AddElement
    <2>2. Cardinality(At("trying")') = awake - 1
      BY <1>1, <1>3, OneLessAwake DEF Inv
    <2>3. At("asleep")' = At("asleep")
      BY <1>1, <1>3 DEF At
    <2> HIDE DEF awake, owned
    <2>4. /\ (available - 1) + (owned + 1) = Capacity
          /\ At("asleep")' # {} => awake - 1 >= available - 1
          /\ available - 1 \in 0..Capacity
      BY <1>1, <1>2, <1>3, <2>3
    <2>5. TypeOK'
      BY <1>1, <1>3, <2>4 DEF TypeOK, Places
    <2>6. PermitsConserved' /\ NoLostWakeup'
      BY <1>3, <2>1, <2>2, <2>4 DEF PermitsConserved, NoLostWakeup
    <2> QED
      BY <2>5, <2>6 DEF Inv
  <1>4. CASE /\ available = 0 /\ task' = [task EXCEPT ![t] = "asleep"] /\ UNCHANGED available
    <2>1. TypeOK'
      BY <1>1, <1>4 DEF TypeOK, Places
    <2>2. PermitsConserved'
      BY <1>1, <1>4, OwnersAlone DEF Inv, Owning
    <2>3. At("trying")' \subseteq Tasks
      BY DEF At
    <2>4. Cardinality(At("trying")') >= 0
      BY <2>3, FS_Subset, FS_CardinalityType, WorkersAssumption
    <2> QED
      BY <1>4, <2>1, <2>2, <2>4 DEF Inv, NoLostWakeup
  <1> QED
    BY <1>3, <1>4 DEF Acquire

\* Starting a thread, or failing to, and the end of the task move no permit
\* (BoundedWorkers::dispatch, thread::spawn).
LEMMA TaskKeepsInv ==
    ASSUME Inv, NEW t \in Tasks, Spawn(t) \/ Finish(t)
    PROVE  Inv'
  <1>1. /\ task \in [Tasks -> Places] /\ task[t] \in {"admitted", "running"} /\ UNCHANGED available
        /\ \E p \in {"running", "unwinding", "ending"} : task' = [task EXCEPT ![t] = p]
    BY DEF Inv, TypeOK, Spawn, Finish
  <1>2. TypeOK'
    BY <1>1 DEF Inv, TypeOK, Places
  <1>3. PermitsConserved'
    BY <1>1, OwnersAlone DEF Inv, Owning
  <1>4. NoLostWakeup'
    BY <1>1, CallersAlone DEF Inv
  <1> QED
    BY <1>2, <1>3, <1>4 DEF Inv

\* What the drop of a permit does to the owners (WorkerPermit::drop).
LEMMA DropEndsOwnership ==
    ASSUME TypeOK, NEW t \in Tasks, DropPermit(t)
    PROVE  /\ task[t] \in Owning
           /\ Admitted' = Admitted \ {t}
           /\ task' \in [Tasks -> Places]
  <1>1. task \in [Tasks -> Places] /\ task[t] \in {"ending", "unwinding"}
    BY DEF TypeOK, DropPermit
  <1>2. Admitted' = {u \in Tasks : task'[u] \in Owning}
    BY AdmittedBecome
  <1>3. CASE task' = [task EXCEPT ![t] = "idle"]
    BY <1>1, <1>2, <1>3, AdmittedAre DEF Owning, Places
  <1>4. ASSUME NEW s \in At("asleep"), task' = [task EXCEPT ![t] = "idle", ![s] = "trying"]
        PROVE  Admitted' = Admitted \ {t} /\ task' \in [Tasks -> Places]
    <2>1. s \in Tasks /\ task[s] = "asleep"
      BY DEF At
    <2> QED
      BY <1>1, <1>2, <1>4, <2>1, AdmittedAre DEF Owning, Places
  <1> QED
    BY <1>1, <1>3, <1>4 DEF DropPermit, Owning

\* A dropped permit is free again, and one sleeper, if any, is told.
LEMMA DropKeepsInv ==
    ASSUME Inv, NEW t \in Tasks, DropPermit(t)
    PROVE  Inv'
  <1> DEFINE awake == Cardinality(At("trying"))
             owned == Cardinality(Admitted)
  <1>1. /\ task \in [Tasks -> Places] /\ task[t] \in {"ending", "unwinding"}
        /\ available \in 0..Capacity /\ Capacity \in Nat /\ available' = available + 1
    BY CapacityPositive DEF Inv, TypeOK, DropPermit
  <1>2. /\ awake \in Nat /\ owned \in Nat /\ available + owned = Capacity
        /\ At("asleep") # {} => awake >= available
    BY Counts DEF Inv, NoLostWakeup, PermitsConserved
  <1>3. Cardinality(Admitted') = owned - 1 /\ owned - 1 \in Nat
    <2>1. t \in Admitted /\ Admitted' = Admitted \ {t}
      BY DropEndsOwnership, AdmittedAre DEF Inv
    <2>2. Cardinality(Admitted \ {t}) = owned - 1 /\ Cardinality(Admitted \ {t}) \in Nat
      BY <2>1, Counts, FS_RemoveElement, FS_CardinalityType
    <2> QED
      BY <2>1, <2>2
  <1>4. TypeOK' /\ PermitsConserved'
    <2> HIDE DEF awake, owned
    <2>1. available + 1 \in 0..Capacity /\ (available + 1) + (owned - 1) = Capacity
      BY <1>1, <1>2, <1>3
    <2> QED
      BY <1>1, <1>3, <2>1, DropEndsOwnership DEF Inv, TypeOK, PermitsConserved
  <1>5. NoLostWakeup'
    <2>1. CASE At("asleep") = {} /\ task' = [task EXCEPT ![t] = "idle"]
      <3>1. At("asleep")' = {}
        BY <1>1, <2>1 DEF At
      <3> QED
        BY <3>1 DEF NoLostWakeup
    <2>2. ASSUME NEW s \in At("asleep"), task' = [task EXCEPT ![t] = "idle", ![s] = "trying"]
          PROVE  NoLostWakeup'
      <3>1. s \in Tasks /\ task[s] = "asleep"
        BY DEF At
      <3>2. Cardinality(At("trying")') = awake + 1
        BY <1>1, <2>2, <3>1, OneMoreAwake DEF Inv
      <3>3. awake >= available
        BY <1>2, <2>2
      <3> HIDE DEF awake
      <3>4. awake + 1 >= available + 1
        BY <1>1, <1>2, <3>3
      <3> QED
        BY <1>1, <3>2, <3>4 DEF NoLostWakeup
    <2> QED
      BY <2>1, <2>2 DEF DropPermit
  <1> QED
    BY <1>4, <1>5 DEF Inv

------------------------------------------------------------------------------
(* The theorems. *)

\* The strengthened invariant holds of every run of the workers.
THEOREM InvHolds == Spec => []Inv
  <1>1. Init => Inv
    <2> SUFFICES ASSUME Init PROVE Inv
      OBVIOUS
    <2>1. Admitted = {} /\ At("asleep") = {}
      BY AdmittedAre DEF Init, Owning, At
    <2>2. Cardinality(Admitted) = 0
      BY <2>1, FS_EmptySet
    <2> QED
      BY <2>1, <2>2, CapacityPositive DEF Init, Inv, TypeOK, Places, PermitsConserved, NoLostWakeup
  <1>2. Inv /\ [Next]_vars => Inv'
    <2> SUFFICES ASSUME Inv, [Next]_vars PROVE Inv'
      OBVIOUS
    <2>1. CASE UNCHANGED vars
      BY <2>1 DEF vars, Inv, TypeOK, PermitsConserved, NoLostWakeup, Admitted, At
    <2> QED
      BY <2>1, WakingKeepsInv, AcquireKeepsInv, TaskKeepsInv, DropKeepsInv DEF Next
  <1> QED
    BY <1>1, <1>2, PTL DEF Spec

\* Free and owned permits always add up to the capacity, through panics of tasks and
\* failures of thread::spawn (WorkerPermit).
THEOREM PermitsAreConserved == Spec => []PermitsConserved
  BY InvHolds, PTL DEF Inv

\* While callers sleep, each free permit has an awake caller on its way to it
\* (WorkerPermit::drop, notify_one).
THEOREM NoWakeupIsLost == Spec => []NoLostWakeup
  BY InvHolds, PTL DEF Inv

------------------------------------------------------------------------------
(* The workers implement the abstract pool. *)

\* The instance counts as FiniteSets does, and its only pool has all the owners.
LEMMA AdmissionCounts ==
    /\ \A S : Admission!Cardinality(S) = Cardinality(S)
    /\ Admission!LiveIn("workers") = Admitted
  BY DEF Admission!Cardinality, Cardinality, Admission!LiveIn, ThePool

\* A step that moves nobody in or out of ownership is a stutter of the pool.
LEMMA StutterOfPool ==
    ASSUME \A t \in Tasks : task'[t] \in Owning <=> task[t] \in Owning
    PROVE  UNCHANGED Admission!vars
  <1>1. Admitted' = Admitted
    BY AdmittedAre, AdmittedBecome
  <1> QED
    BY <1>1 DEF Admission!vars

\* Taking a permit under the mutex enters the pool (WorkerPermit::acquire).
LEMMA AcquireEnters ==
    ASSUME Inv, NEW t \in Tasks, Acquire(t)
    PROVE  [Admission!Next]_Admission!vars
  <1> DEFINE owned == Cardinality(Admitted)
  <1>1. task \in [Tasks -> Places] /\ task[t] = "trying"
    BY DEF Inv, TypeOK, Acquire
  <1>2. CASE available > 0 /\ task' = [task EXCEPT ![t] = "admitted"]
    <2>1. Admitted' = Admitted \cup {t} /\ t \notin Admitted
      BY <1>1, <1>2, AdmittedAre, AdmittedBecome DEF Owning
    <2>2. available + owned = Capacity /\ available \in Nat /\ owned \in Nat /\ Capacity \in Nat
      BY Counts, CapacityPositive DEF Inv, TypeOK, PermitsConserved
    <2>3. owned < Capacity
      <3> HIDE DEF owned
      <3> QED
        BY <1>2, <2>2
    <2>4. Admission!Cardinality(Admission!LiveIn(ThePool(t))) < Capacity
      BY <2>3, AdmissionCounts DEF ThePool
    <2>5. Admission!Enter(t)
      BY <2>1, <2>4 DEF Admission!Enter
    <2> QED
      BY <2>5 DEF Admission!Next
  <1>3. CASE task' = [task EXCEPT ![t] = "asleep"]
    BY <1>1, <1>3, StutterOfPool DEF Owning
  <1> QED
    BY <1>2, <1>3 DEF Acquire

\* Dropping the permit leaves the pool: the slot is free for whoever comes first,
\* not handed to the sleeper that is told (WorkerPermit::drop).
LEMMA DropLeaves ==
    ASSUME Inv, NEW t \in Tasks, DropPermit(t)
    PROVE  Admission!Next
  <1>1. task[t] \in Owning /\ Admitted' = Admitted \ {t}
    BY DropEndsOwnership DEF Inv
  <1>2. t \in Admitted
    BY <1>1, AdmittedAre
  <1>3. Admission!Leave(t)
    BY <1>1, <1>2 DEF Admission!Leave
  <1> QED
    BY <1>3 DEF Admission!Next

\* The workers implement the abstract admission pool, although a woken caller can
\* find its permit taken (BoundedWorkers: "capped at `capacity` concurrent tasks").
THEOREM WorkersImplementAdmission == Spec => ImplementsAdmission
  <1>1. Init => Admission!Init
    BY AdmittedAre DEF Init, Admission!Init, Owning
  <1>2. Inv /\ [Next]_vars => [Admission!Next]_Admission!vars
    <2> SUFFICES ASSUME Inv, [Next]_vars PROVE [Admission!Next]_Admission!vars
      OBVIOUS
    <2>1. CASE UNCHANGED vars
      BY <2>1, StutterOfPool DEF vars
    <2>2. ASSUME NEW t \in Tasks, Dispatch(t) \/ SpuriousWakeup(t) \/ Spawn(t) \/ Finish(t)
          PROVE  UNCHANGED Admission!vars
      <3>1. task \in [Tasks -> Places]
        BY DEF Inv, TypeOK
      <3> QED
        BY <2>2, <3>1, StutterOfPool DEF Dispatch, SpuriousWakeup, Spawn, Finish, Owning
    <2> QED
      BY <2>1, <2>2, AcquireEnters, DropLeaves DEF Next
  <1> QED
    BY <1>1, <1>2, InvHolds, PTL DEF Spec, ImplementsAdmission, Admission!Spec

------------------------------------------------------------------------------
(* The synchronous shells. *)

InLoop == {"outer", "inner", "polling", "handling", "sleeping"}

\* Late streams need a signal, only the polled shell has one, and behind a late stream
\* the loop meets the check of the outer loop before it polls again.
LateInv ==
    /\ ~stopSignal => late = 0
    /\ stopSignal => shell = "multi"
    /\ late > 0 => pc \notin {"binding", "bound", "inner", "polling", "sleeping"}
    /\ late <= 1

\* How far the thread has come decides which files exist and how far the runtime
\* is.
ThreadInv ==
    /\ pc = "binding" => index \in 1..LastListener /\ files = 1..(index - 1) /\ runtime = "new"
    /\ pc = "bound" => files = 1..LastListener /\ runtime = "new"
    /\ pc \in InLoop \cup {"stopping"} => files = 1..LastListener /\ runtime = "started"
    /\ pc = "stopped" => runtime = "stopped"
    /\ pc = "dropped" => /\ runtime # "started"
                         /\ files # {} => runtime = "new" /\ files = {index}
    /\ pc = "unwound" => files = {}

SyncInv == SyncTypeOK /\ LateInv /\ ThreadInv

\* The listeners of a shell are listeners.
LEMMA LastListenerType ==
    ASSUME SyncTypeOK
    PROVE  /\ LastListener \in Listeners /\ ListenerCount \in Nat \ {0}
           /\ LastListener \in Nat /\ LastListener <= ListenerCount
           /\ shell' = shell => LastListener' = LastListener
  BY SyncAssumption DEF SyncTypeOK, LastListener, Listeners

\* Dropping the daemon leaves nothing queued and moves only what it drops.
LEMMA DropKeeps ==
    ASSUME SyncInv, NEW left \in SUBSET Listeners, NEW end, DropDaemon(end, left),
           runtime' \in {"new", "started", "stopped"},
           \/ /\ end = "dropped" /\ runtime' # "started"
              /\ left # {} => runtime' = "new" /\ left = {index}
           \/ end = "unwound" /\ left = {}
    PROVE  SyncInv'
  <1>1. backlog' \in [Listeners -> Seq(Clients)]
    BY DEF DropDaemon
  <1> QED
    BY <1>1 DEF DropDaemon, SyncInv, SyncTypeOK, LateInv, ThreadInv, InLoop

\* A step that only moves the thread.
LEMMA GotoKeeps ==
    ASSUME SyncInv, NEW place, Goto(place), pc \in InLoop, pc # "handling",
           place \in InLoop \cup {"stopping"},
           late > 0 => place \in {"outer", "stopping"}
    PROVE  SyncInv'
  BY DEF Goto, threadVars, SyncInv, SyncTypeOK, LateInv, ThreadInv, InLoop, LastListener

\* Every state of a synchronous shell satisfies the invariant.
THEOREM SyncInvHolds == SyncSpec => []SyncInv
  <1>1. SyncInit => SyncInv
    <2> SUFFICES ASSUME SyncInit PROVE SyncInv
      OBVIOUS
    <2>1. SyncTypeOK
      <3>1. backlog \in [Listeners -> Seq(Clients)]
        BY EmptySeq DEF SyncInit
      <3>2. index \in 1..ListenerCount
        BY SyncAssumption DEF SyncInit
      <3>3. shell \in {"multi", "single"} /\ pc = "binding" /\ runtime = "new"
        BY DEF SyncInit
      <3>4. serving \subseteq Clients /\ files \subseteq Listeners
        BY DEF SyncInit
      <3>5. stopSignal \in BOOLEAN
        BY Zenon DEF SyncInit
      <3>6. late \in 0..LateMax
        BY DEF SyncInit, LateMax
      <3> QED
        BY <3>1, <3>2, <3>3, <3>4, <3>5, <3>6 DEF SyncTypeOK
    <2> QED
      BY <2>1, LastListenerType DEF SyncInit, SyncInv, LateInv, ThreadInv, InLoop
  <1>2. SyncInv /\ [SyncNext]_syncVars => SyncInv'
    <2> SUFFICES ASSUME SyncInv, [SyncNext]_syncVars PROVE SyncInv'
      OBVIOUS
    <2> USE DEF InLoop
    <2>1. ASSUME BindNext PROVE SyncInv'
      <3>1. index \in 1..LastListener /\ index \in Listeners /\ index \in Nat
        BY <2>1, LastListenerType DEF BindNext, SyncInv, ThreadInv, SyncTypeOK, Listeners
      <3>2. files' = 1..index
        BY <2>1, <3>1 DEF BindNext, SyncInv, ThreadInv
      <3>3. CASE index = LastListener
        BY <2>1, <3>1, <3>2, <3>3, LastListenerType
           DEF BindNext, SyncInv, SyncTypeOK, LateInv, ThreadInv, Listeners
      <3>4. CASE index # LastListener
        BY <2>1, <3>1, <3>2, <3>4, LastListenerType
           DEF BindNext, SyncInv, SyncTypeOK, LateInv, ThreadInv, Listeners
      <3> QED
        BY <3>3, <3>4
    <2>2. ASSUME BindFails PROVE SyncInv'
      <3>1. runtime' = runtime /\ runtime = "new" /\ pc = "binding" /\ {index} \in SUBSET Listeners
        BY <2>2, SyncAssumption DEF BindFails, SyncInv, ThreadInv, SyncTypeOK, Listeners
      <3>2. CASE DropDaemon("dropped", {})
        BY <3>1, <3>2, DropKeeps
      <3>3. CASE DropDaemon("dropped", {index})
        BY <3>1, <3>3, DropKeeps
      <3> QED
        BY <2>2, <3>2, <3>3 DEF BindFails
    <2>3. ASSUME Start PROVE SyncInv'
      BY <2>3 DEF Start, SyncInv, SyncTypeOK, LateInv, ThreadInv, LastListener
    <2>4. ASSUME StartFails PROVE SyncInv'
      BY <2>4, DropKeeps DEF StartFails, SyncInv, ThreadInv
    <2>5. ASSUME CheckContinue PROVE SyncInv'
      BY <2>5, GotoKeeps DEF CheckContinue, SyncInv, LateInv, SyncTypeOK, LateMax
    <2>6. ASSUME AcceptNext PROVE SyncInv'
      <3>1. /\ index \in Listeners /\ backlog[index] \in Seq(Clients) /\ backlog[index] # <<>>
            /\ pc = "polling"
        BY <2>6 DEF AcceptNext, SyncInv, SyncTypeOK, Listeners
      <3>2. Head(backlog[index]) \in Clients /\ Tail(backlog[index]) \in Seq(Clients)
        BY <3>1, HeadTailProperties
      <3>3. late = 0
        BY <3>1 DEF SyncInv, LateInv, SyncTypeOK, LateMax
      <3>4. late' = IF stopSignal THEN 1 ELSE 0
        BY <2>6, <3>3 DEF AcceptNext, LateMax
      <3> QED
        BY <2>6, <3>1, <3>2, <3>3, <3>4, LastListenerType
           DEF AcceptNext, threadVars, SyncInv, SyncTypeOK, LateInv, ThreadInv, Listeners, LateMax,
               LastListener
    <2>7. ASSUME PollNext PROVE SyncInv'
      <3>1. /\ index' \in 1..ListenerCount /\ pc' \in {"polling", "sleeping"}
            /\ pc = "polling" /\ UNCHANGED <<shell, backlog, serving, files, stopSignal, late, runtime>>
        BY <2>7, SyncAssumption DEF PollNext, threadVars, SyncInv, SyncTypeOK
      <3> QED
        BY <3>1 DEF SyncInv, SyncTypeOK, LateInv, ThreadInv, LastListener
    <2>8. ASSUME Wake PROVE SyncInv'
      BY <2>8, GotoKeeps DEF Wake, SyncInv, LateInv
    <2>9. ASSUME Stop PROVE SyncInv'
      BY <2>9 DEF Stop, SyncInv, SyncTypeOK, LateInv, ThreadInv
    <2>10. ASSUME Return PROVE SyncInv'
      BY <2>10, DropKeeps DEF Return, SyncInv, ThreadInv
    <2>11. ASSUME HandlerReturns PROVE SyncInv'
      BY <2>11 DEF HandlerReturns, threadVars, SyncInv, SyncTypeOK, LateInv, ThreadInv, LastListener
    <2>12. ASSUME AcceptFails PROVE SyncInv'
      BY <2>12, GotoKeeps DEF AcceptFails
    <2>13. ASSUME RaiseStop PROVE SyncInv'
      BY <2>13 DEF RaiseStop, SyncInv, SyncTypeOK, LateInv, ThreadInv, LastListener
    <2>14. ASSUME NEW c \in Clients, Connect(c) PROVE SyncInv'
      <3>1. backlog' \in [Listeners -> Seq(Clients)]
        BY <2>14, SyncAssumption, AppendProperties DEF Connect, SyncInv, SyncTypeOK
      <3> QED
        BY <2>14, <3>1 DEF Connect, threadVars, SyncInv, SyncTypeOK, LateInv, ThreadInv, LastListener
    <2>15. ASSUME UNCHANGED syncVars PROVE SyncInv'
      BY <2>15 DEF syncVars, SyncInv, SyncTypeOK, LateInv, ThreadInv, LastListener
    <2>16. ASSUME Unwinds PROVE SyncInv'
      <3>1. DropDaemon("unwound", {}) /\ (runtime' = runtime \/ runtime' = "stopped")
        BY <2>16 DEF Unwinds
      <3>2. runtime' \in {"new", "started", "stopped"}
        BY <3>1 DEF SyncInv, SyncTypeOK
      <3> QED
        BY <3>1, <3>2, DropKeeps
    <2> QED
      BY <2>1, <2>2, <2>3, <2>4, <2>5, <2>6, <2>7, <2>8, <2>9, <2>10, <2>11, <2>12, <2>13, <2>14,
         <2>15, <2>16 DEF SyncNext, Thread
  <1> QED
    BY <1>1, <1>2, PTL DEF SyncSpec

\* The shells stay well typed, whatever clients and components do.
THEOREM SyncTypeCorrect == SyncSpec => []SyncTypeOK
  BY SyncInvHolds, PTL DEF SyncInv

\* However many listeners and clients there are, the polled shell handles at most one
\* stream after its stop signal (BoundMultiListenerDaemon::serve_streams).
THEOREM OneStreamAfterStop == SyncSpec => []AtMostOneAfterStop
  BY SyncInvHolds, PTL DEF SyncInv, LateInv, AtMostOneAfterStop

\* However a shell ends, its runtime was stopped if it was started, unless a panic of
\* the component unwound it, the sockets stay until then, and only a file whose own
\* bind failed remains (run, BoundSocketFile).
THEOREM ShellsEndInOrder == SyncSpec => []OrderlyEnd
  <1>1. SyncInv => OrderlyEnd
    BY DEF SyncInv, ThreadInv, OrderlyEnd, Bound
  <1> QED
    BY <1>1, SyncInvHolds, PTL
==============================================================================
