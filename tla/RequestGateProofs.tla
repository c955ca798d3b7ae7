--------------------------- MODULE RequestGateProofs ---------------------------
(***************************************************************************)
(* Proofs about RequestGate for any gates, asks and limit: permits are     *)
(* neither made nor lost, none lies idle while a task waits, and the gate  *)
(* implements BoundedAdmission.                                            *)
(***************************************************************************)
EXTENDS RequestGate, SequenceTheorems, FiniteSetTheorems, TLAPS

\* An ask is in the mailbox of its own gate, once, exactly while it is "queued".
MailboxInv ==
    \A g \in Gates : \A i \in 1..Len(mailbox[g]) : mailbox[g][i] \in Askers =>
        /\ GateOf[mailbox[g][i]] = g /\ phase[mailbox[g][i]] = "queued"
        /\ \A j \in 1..Len(mailbox[g]) : mailbox[g][j] = mailbox[g][i] => j = i

\* A task is in the queue of its own pool, once, exactly while it waits, and the
\* queue is empty while permits are free.
QueueInv ==
    \A g \in Gates :
        /\ \A i \in 1..Len(queue[g]) :
              /\ GateOf[queue[g][i]] = g /\ phase[queue[g][i]] = "waiting"
              /\ \A j \in 1..Len(queue[g]) : queue[g][j] = queue[g][i] => j = i
        /\ queue[g] # <<>> => available[g] = 0
        /\ \A r \in Requests : GateOf[r] = g /\ phase[r] = "waiting" =>
              \E i \in 1..Len(queue[g]) : queue[g][i] = r

GateInv == GateTypeOK /\ MailboxInv /\ QueueInv /\ PermitConservation

------------------------------------------------------------------------------
(* The limit, the askers and the owners. *)

\* RequestConcurrencyLimit::new never yields zero.
LEMMA LimitPositive == Limit \in Nat \ {0}
  BY GateAssumption DEF Limit

\* Each ask has a gate, and that gate's pool is the one it takes its permit from.
LEMMA GateOfType ==
    /\ \A a \in Askers : GateOf[a] \in Gates
    /\ Requests \subseteq Askers /\ Observers \subseteq Askers
    /\ StopSignal \notin Askers
    /\ \A r \in Requests : PoolOf(r) = GateOf[r]
  BY GateAssumption DEF Askers, PoolOf

\* The owners of a pool's permits are finitely many requests.
LEMMA OwnersFinite ==
    ASSUME NEW g \in Gates
    PROVE  IsFiniteSet(Owners(g)) /\ Cardinality(Owners(g)) \in Nat
  <1>1. Owners(g) \in SUBSET Requests
    BY DEF Owners
  <1> QED
    BY <1>1, FS_Subset, FS_CardinalityType, GateAssumption

\* A step that leaves the free permits and the set of owners alone conserves permits.
LEMMA OwnersUntouched ==
    ASSUME PermitConservation, UNCHANGED available,
           \A r \in Requests : phase'[r] \in {"granted", "held"} <=> phase[r] \in {"granted", "held"}
    PROVE  PermitConservation'
  <1>1. \A g \in Gates : Owners(g)' = Owners(g)
    BY DEF Owners, PoolOf
  <1> QED
    BY <1>1 DEF PermitConservation

\* A step that leaves the mailboxes and the queued asks alone keeps MailboxInv.
LEMMA MailboxUntouched ==
    ASSUME MailboxInv, UNCHANGED mailbox,
           \A a \in Askers : phase[a] = "queued" => phase'[a] = "queued"
    PROVE  MailboxInv'
  BY DEF MailboxInv

\* A step that leaves the semaphores and the waiting tasks alone keeps QueueInv.
LEMMA QueueUntouched ==
    ASSUME GateTypeOK, QueueInv, UNCHANGED <<queue, available>>,
           \A r \in Requests : phase'[r] = "waiting" <=> phase[r] = "waiting"
    PROVE  QueueInv'
  <1>1. \A g \in Gates : \A i \in 1..Len(queue[g]) : queue[g][i] \in Requests
    BY ElementOfSeq DEF GateTypeOK
  <1> QED
    BY <1>1 DEF QueueInv

------------------------------------------------------------------------------
(* The mailbox. *)

\* The entries behind the first one move up by one place.
LEMMA TailEntries ==
    ASSUME NEW S, NEW q \in Seq(S), q # <<>>
    PROVE  /\ Tail(q) \in Seq(S)
           /\ Head(q) \in S /\ Head(q) = q[1] /\ 1 \in 1..Len(q)
           /\ \A i \in 1..Len(Tail(q)) :
                 i + 1 \in 1..Len(q) /\ i + 1 # 1 /\ Tail(q)[i] = q[i+1]
           /\ \A i \in 1..Len(Tail(q)), j \in 1..Len(Tail(q)) : i + 1 = j + 1 => i = j
           /\ \A i \in 1..Len(q) : i # 1 =>
                 i - 1 \in 1..Len(Tail(q)) /\ Tail(q)[i-1] = q[i]
  <1>1. /\ Head(q) \in S /\ Tail(q) \in Seq(S)
        /\ Len(q) \in Nat \ {0} /\ Len(Tail(q)) = Len(q) - 1
        /\ \A i \in 1..Len(Tail(q)) : Tail(q)[i] = q[i+1]
    BY HeadTailProperties, EmptySeq
  <1>2. Head(q) = q[1] /\ 1 \in 1..Len(q)
    BY <1>1
  <1>3. \A i \in 1..Len(Tail(q)) : i + 1 \in 1..Len(q) /\ i + 1 # 1
    BY <1>1
  <1>4. \A i \in 1..Len(Tail(q)), j \in 1..Len(Tail(q)) : i + 1 = j + 1 => i = j
    BY <1>1
  <1>5. ASSUME NEW i \in 1..Len(q), i # 1
        PROVE  i - 1 \in 1..Len(Tail(q)) /\ Tail(q)[i-1] = q[i]
    <2>1. i - 1 \in 1..Len(Tail(q)) /\ (i - 1) + 1 = i
      BY <1>1, <1>5
    <2> QED
      BY <1>1, <2>1
  <1> QED
    BY <1>1, <1>2, <1>3, <1>4, <1>5

\* Putting an entry that is not there at the end of a mailbox.
LEMMA PutLast ==
    ASSUME GateTypeOK, MailboxInv, NEW g \in Gates, NEW m \in Askers \cup {StopSignal},
           mailbox' = [mailbox EXCEPT ![g] = Append(@, m)],
           \/ m = StopSignal /\ UNCHANGED phase
           \/ /\ m \in Askers /\ GateOf[m] = g /\ phase[m] = "idle"
              /\ phase' = [phase EXCEPT ![m] = "queued"]
    PROVE  /\ mailbox' \in [Gates -> Seq(Askers \cup {StopSignal})]
           /\ MailboxInv'
  <1> DEFINE S == Askers \cup {StopSignal}
  <1>1. mailbox \in [Gates -> Seq(S)] /\ phase \in [Askers -> Phases]
    BY DEF GateTypeOK
  <1>2. /\ Append(mailbox[g], m) \in Seq(S)
        /\ Len(Append(mailbox[g], m)) = Len(mailbox[g]) + 1
        /\ Len(mailbox[g]) \in Nat
        /\ \A i \in 1..Len(mailbox[g]) : Append(mailbox[g], m)[i] = mailbox[g][i]
        /\ Append(mailbox[g], m)[Len(mailbox[g]) + 1] = m
    <2>1. mailbox[g] \in Seq(S)
      BY <1>1
    <2> QED
      BY <2>1, AppendProperties, LenProperties
  <1>3. mailbox'[g] = Append(mailbox[g], m) /\ \A h \in Gates \ {g} : mailbox'[h] = mailbox[h]
    BY <1>1
  <1>4. mailbox' \in [Gates -> Seq(S)]
    BY <1>1, <1>2
  <1>5. \A h \in Gates : \A i \in 1..Len(mailbox[h]) :
            mailbox[h][i] \in Askers => mailbox[h][i] # m /\ phase'[mailbox[h][i]] = "queued"
    BY <1>1, GateOfType DEF MailboxInv
  <1>6. SUFFICES ASSUME NEW h \in Gates, NEW i \in 1..Len(mailbox'[h]), mailbox'[h][i] \in Askers
                 PROVE  /\ GateOf[mailbox'[h][i]] = h /\ phase'[mailbox'[h][i]] = "queued"
                        /\ \A j \in 1..Len(mailbox'[h]) : mailbox'[h][j] = mailbox'[h][i] => j = i
    BY <1>4 DEF MailboxInv
  <1>7. CASE h # g
    BY <1>3, <1>5, <1>6, <1>7 DEF MailboxInv
  <1>8. CASE h = g /\ i \in 1..Len(mailbox[g])
    <2>1. mailbox'[h][i] = mailbox[g][i]
      BY <1>2, <1>3, <1>8
    <2>2. GateOf[mailbox[g][i]] = g /\ phase'[mailbox[g][i]] = "queued" /\ mailbox[g][i] # m
      BY <1>5, <1>6, <1>8, <2>1 DEF MailboxInv
    <2>3. ASSUME NEW j \in 1..Len(mailbox'[h]), mailbox'[h][j] = mailbox'[h][i] PROVE j = i
      <3>1. j # Len(mailbox[g]) + 1
        BY <1>2, <1>3, <1>8, <2>1, <2>2, <2>3
      <3>2. j \in 1..Len(mailbox[g]) /\ mailbox[g][j] = mailbox[g][i]
        BY <1>2, <1>3, <1>8, <2>1, <2>3, <3>1
      <3> QED
        BY <3>2, <1>6, <1>8, <2>1 DEF MailboxInv
    <2> QED
      BY <1>8, <2>1, <2>2, <2>3
  <1>9. CASE h = g /\ i \notin 1..Len(mailbox[g])
    <2>1. i = Len(mailbox[g]) + 1 /\ mailbox'[h][i] = m
      BY <1>2, <1>3, <1>9
    <2>2. m \in Askers /\ GateOf[m] = g /\ phase'[m] = "queued"
      BY <1>1, <1>6, <2>1, GateOfType
    <2>3. ASSUME NEW j \in 1..Len(mailbox'[h]), mailbox'[h][j] = m PROVE j = i
      <3>1. CASE j \in 1..Len(mailbox[g])
        BY <1>2, <1>3, <1>5, <1>9, <2>2, <2>3, <3>1
      <3>2. CASE j \notin 1..Len(mailbox[g])
        BY <1>2, <1>3, <1>9, <2>1, <3>2
      <3> QED
        BY <3>1, <3>2
    <2> QED
      BY <1>9, <2>1, <2>2, <2>3
  <1> QED
    BY <1>7, <1>8, <1>9

\* Taking the first entry of a mailbox, an ask, and moving that ask on.
LEMMA TakeFirst ==
    ASSUME GateTypeOK, MailboxInv, NEW a \in Askers, NEW place,
           Handles(GateOf[a], a),
           mailbox' = [mailbox EXCEPT ![GateOf[a]] = Tail(@)],
           phase' = [phase EXCEPT ![a] = place]
    PROVE  /\ mailbox' \in [Gates -> Seq(Askers \cup {StopSignal})]
           /\ phase[a] = "queued"
           /\ MailboxInv'
  <1> DEFINE S == Askers \cup {StopSignal}
             g == GateOf[a]
  <1>1. mailbox \in [Gates -> Seq(S)] /\ phase \in [Askers -> Phases] /\ g \in Gates
    BY GateOfType DEF GateTypeOK
  <1>2. mailbox[g] \in Seq(S) /\ mailbox[g] # <<>> /\ Head(mailbox[g]) = a
    BY <1>1 DEF Handles
  <1>3. /\ Tail(mailbox[g]) \in Seq(S)
        /\ \A i \in 1..Len(Tail(mailbox[g])) :
              /\ i + 1 \in 1..Len(mailbox[g]) /\ i + 1 # 1
              /\ Tail(mailbox[g])[i] = mailbox[g][i+1]
        /\ \A i, j \in 1..Len(Tail(mailbox[g])) : i + 1 = j + 1 => i = j
    BY <1>2, TailEntries
  <1>4. mailbox[g][1] = a /\ 1 \in 1..Len(mailbox[g])
    BY <1>2, TailEntries
  <1>5. phase[a] = "queued" /\ \A j \in 1..Len(mailbox[g]) : mailbox[g][j] = a => j = 1
    BY <1>1, <1>4 DEF MailboxInv
  <1>6. mailbox'[g] = Tail(mailbox[g]) /\ \A h \in Gates \ {g} : mailbox'[h] = mailbox[h]
    BY <1>1
  <1>7. mailbox' \in [Gates -> Seq(S)]
    BY <1>1, <1>3
  <1>8. SUFFICES ASSUME NEW h \in Gates, NEW i \in 1..Len(mailbox'[h]), mailbox'[h][i] \in Askers
                 PROVE  /\ GateOf[mailbox'[h][i]] = h /\ phase'[mailbox'[h][i]] = "queued"
                        /\ \A j \in 1..Len(mailbox'[h]) : mailbox'[h][j] = mailbox'[h][i] => j = i
    BY <1>5, <1>7 DEF MailboxInv
  <1>9. CASE h # g
    BY <1>1, <1>6, <1>8, <1>9 DEF MailboxInv
  <1>10. CASE h = g
    <2>1. mailbox'[h] = Tail(mailbox[g])
      BY <1>6, <1>10
    <2>2. i + 1 \in 1..Len(mailbox[g]) /\ i + 1 # 1 /\ mailbox'[h][i] = mailbox[g][i+1]
      BY <1>3, <2>1
    <2>3. mailbox[g][i+1] # a
      BY <1>5, <2>2
    <2>4. GateOf[mailbox[g][i+1]] = g /\ phase[mailbox[g][i+1]] = "queued"
      BY <1>1, <1>8, <2>2 DEF MailboxInv
    <2>5. ASSUME NEW j \in 1..Len(mailbox'[h]), mailbox'[h][j] = mailbox'[h][i] PROVE j = i
      <3>1. j + 1 \in 1..Len(mailbox[g]) /\ mailbox[g][j+1] = mailbox[g][i+1]
        BY <1>3, <2>1, <2>2, <2>5
      <3>2. j + 1 = i + 1
        BY <1>1, <1>8, <2>2, <3>1 DEF MailboxInv
      <3> QED
        BY <1>3, <2>1, <3>2
    <2>6. phase'[mailbox'[h][i]] = "queued"
      BY <1>1, <1>8, <2>2, <2>3, <2>4
    <2> QED
      BY <1>10, <2>2, <2>4, <2>5, <2>6
  <1> QED
    BY <1>9, <1>10

------------------------------------------------------------------------------
(* The semaphore. *)

\* A request without a free permit joins the end of its pool's queue.
LEMMA JoinQueue ==
    ASSUME GateTypeOK, QueueInv, NEW r \in Requests,
           phase[r] = "spawned", available[GateOf[r]] = 0,
           queue' = [queue EXCEPT ![GateOf[r]] = Append(@, r)],
           phase' = [phase EXCEPT ![r] = "waiting"],
           UNCHANGED available
    PROVE  queue' \in [Gates -> Seq(Requests)] /\ QueueInv'
  <1> DEFINE g == GateOf[r]
  <1>1. /\ queue \in [Gates -> Seq(Requests)] /\ phase \in [Askers -> Phases]
        /\ g \in Gates /\ r \in Askers
    BY GateOfType DEF GateTypeOK
  <1>2. /\ Append(queue[g], r) \in Seq(Requests)
        /\ Len(Append(queue[g], r)) = Len(queue[g]) + 1
        /\ Len(queue[g]) \in Nat
        /\ \A i \in 1..Len(queue[g]) : Append(queue[g], r)[i] = queue[g][i]
        /\ Append(queue[g], r)[Len(queue[g]) + 1] = r
    <2>1. queue[g] \in Seq(Requests)
      BY <1>1
    <2> QED
      BY <2>1, AppendProperties, LenProperties
  <1>3. queue'[g] = Append(queue[g], r) /\ \A h \in Gates \ {g} : queue'[h] = queue[h]
    BY <1>1
  <1>4. queue' \in [Gates -> Seq(Requests)]
    BY <1>1, <1>2
  <1>5. \A h \in Gates : \A i \in 1..Len(queue[h]) :
            /\ queue[h][i] \in Requests /\ queue[h][i] # r
            /\ phase'[queue[h][i]] = "waiting"
    <2>1. \A h \in Gates : \A i \in 1..Len(queue[h]) : queue[h][i] \in Requests
      BY <1>1, ElementOfSeq
    <2> QED
      BY <1>1, <2>1, GateOfType DEF QueueInv
  <1>6. ASSUME NEW h \in Gates, NEW i \in 1..Len(queue'[h])
        PROVE  /\ GateOf[queue'[h][i]] = h /\ phase'[queue'[h][i]] = "waiting"
               /\ \A j \in 1..Len(queue'[h]) : queue'[h][j] = queue'[h][i] => j = i
    <2>1. CASE h # g
      BY <1>3, <1>5, <1>6, <2>1 DEF QueueInv
    <2>2. CASE h = g /\ i \in 1..Len(queue[g])
      <3>1. queue'[h][i] = queue[g][i]
        BY <1>2, <1>3, <2>2
      <3>2. GateOf[queue[g][i]] = g /\ phase'[queue[g][i]] = "waiting" /\ queue[g][i] # r
        BY <1>1, <1>5, <2>2 DEF QueueInv
      <3>3. ASSUME NEW j \in 1..Len(queue'[h]), queue'[h][j] = queue'[h][i] PROVE j = i
        <4>1. j # Len(queue[g]) + 1
          BY <1>2, <1>3, <2>2, <3>1, <3>2, <3>3
        <4>2. j \in 1..Len(queue[g]) /\ queue[g][j] = queue[g][i]
          BY <1>2, <1>3, <2>2, <3>1, <3>3, <4>1
        <4> QED
          BY <4>2, <1>1, <2>2 DEF QueueInv
      <3> QED
        BY <2>2, <3>1, <3>2, <3>3
    <2>3. CASE h = g /\ i \notin 1..Len(queue[g])
      <3>1. i = Len(queue[g]) + 1 /\ queue'[h][i] = r /\ phase'[r] = "waiting"
        BY <1>1, <1>2, <1>3, <1>6, <2>3
      <3>2. ASSUME NEW j \in 1..Len(queue'[h]), queue'[h][j] = r PROVE j = i
        <4>1. CASE j \in 1..Len(queue[g])
          BY <1>1, <1>2, <1>3, <1>5, <2>3, <3>2, <4>1
        <4>2. CASE j \notin 1..Len(queue[g])
          BY <1>2, <1>3, <2>3, <3>1, <4>2
        <4> QED
          BY <4>1, <4>2
      <3> QED
        BY <2>3, <3>1, <3>2
    <2> QED
      BY <2>1, <2>2, <2>3
  <1>7. ASSUME NEW h \in Gates PROVE queue'[h] # <<>> => available'[h] = 0
    BY <1>3, <1>7 DEF QueueInv
  <1>8. ASSUME NEW h \in Gates, NEW s \in Requests, GateOf[s] = h, phase'[s] = "waiting"
        PROVE  \E i \in 1..Len(queue'[h]) : queue'[h][i] = s
    <2>1. CASE s = r
      BY <1>2, <1>3, <1>8, <2>1
    <2>2. CASE s # r
      <3>1. phase[s] = "waiting"
        BY <1>1, <1>8, <2>2
      <3>2. PICK i \in 1..Len(queue[h]) : queue[h][i] = s
        BY <1>8, <3>1 DEF QueueInv
      <3>3. i \in 1..Len(queue'[h]) /\ queue'[h][i] = s
        BY <1>2, <1>3, <3>2
      <3> QED
        BY <3>3
    <2> QED
      BY <2>1, <2>2
  <1> QED
    BY <1>4, <1>6, <1>7, <1>8 DEF QueueInv

\* The first waiter leaves the queue with the permit of r.
LEMMA LeaveQueue ==
    ASSUME GateTypeOK, QueueInv, NEW r \in Requests,
           phase[r] \in {"granted", "held"}, queue[GateOf[r]] # <<>>,
           queue' = [queue EXCEPT ![GateOf[r]] = Tail(@)],
           phase' = [phase EXCEPT ![r] = "released", ![Head(queue[GateOf[r]])] = "granted"],
           UNCHANGED available
    PROVE  /\ queue' \in [Gates -> Seq(Requests)]
           /\ Head(queue[GateOf[r]]) \in Requests \ {r}
           /\ GateOf[Head(queue[GateOf[r]])] = GateOf[r]
           /\ phase[Head(queue[GateOf[r]])] = "waiting"
           /\ QueueInv'
  <1> DEFINE g == GateOf[r]
             w == Head(queue[g])
  <1>1. /\ queue \in [Gates -> Seq(Requests)] /\ phase \in [Askers -> Phases]
        /\ g \in Gates /\ r \in Askers
    BY GateOfType DEF GateTypeOK
  <1>2. /\ queue[g] \in Seq(Requests) /\ queue[g] # <<>>
        /\ Tail(queue[g]) \in Seq(Requests)
        /\ \A i \in 1..Len(Tail(queue[g])) :
              /\ i + 1 \in 1..Len(queue[g]) /\ i + 1 # 1
              /\ Tail(queue[g])[i] = queue[g][i+1]
        /\ \A i, j \in 1..Len(Tail(queue[g])) : i + 1 = j + 1 => i = j
        /\ \A i \in 1..Len(queue[g]) : i # 1 =>
              i - 1 \in 1..Len(Tail(queue[g])) /\ Tail(queue[g])[i-1] = queue[g][i]
    <2>1. queue[g] \in Seq(Requests) /\ queue[g] # <<>>
      BY <1>1
    <2> QED
      BY <2>1, TailEntries
  <1>3. /\ GateOf[w] = g /\ phase[w] = "waiting"
        /\ \A j \in 1..Len(queue[g]) : queue[g][j] = w => j = 1
        /\ w = queue[g][1] /\ w \in Requests
    <2>1. w = queue[g][1] /\ 1 \in 1..Len(queue[g]) /\ w \in Requests
      BY <1>2, TailEntries
    <2> QED
      BY <1>1, <2>1 DEF QueueInv
  <1>4. w # r /\ w \in Askers
    BY <1>3, GateOfType
  <1>5. queue'[g] = Tail(queue[g]) /\ \A h \in Gates \ {g} : queue'[h] = queue[h]
    BY <1>1
  <1>6. queue' \in [Gates -> Seq(Requests)]
    BY <1>1, <1>2
  <1>7. \A s \in Requests : s # w => (phase'[s] = "waiting" <=> phase[s] = "waiting")
    BY <1>1, <1>4, GateOfType
  <1>8. phase'[w] = "granted"
    BY <1>1, <1>4
  <1>9. \A h \in Gates : \A i \in 1..Len(queue[h]) : queue[h][i] \in Requests
    BY <1>1, ElementOfSeq
  <1>10. ASSUME NEW h \in Gates, NEW i \in 1..Len(queue'[h])
         PROVE  /\ GateOf[queue'[h][i]] = h /\ phase'[queue'[h][i]] = "waiting"
                /\ \A j \in 1..Len(queue'[h]) : queue'[h][j] = queue'[h][i] => j = i
    <2>1. CASE h # g
      <3>1. queue'[h] = queue[h] /\ queue[h][i] \in Requests
        BY <1>5, <1>9, <1>10, <2>1
      <3>2. GateOf[queue[h][i]] = h /\ phase[queue[h][i]] = "waiting"
        BY <3>1, <1>10 DEF QueueInv
      <3>3. queue[h][i] # w
        BY <1>3, <2>1, <3>2
      <3>4. phase'[queue[h][i]] = "waiting"
        BY <1>7, <3>1, <3>2, <3>3
      <3>5. \A j \in 1..Len(queue[h]) : queue[h][j] = queue[h][i] => j = i
        BY <1>10, <3>1 DEF QueueInv
      <3> QED
        BY <3>1, <3>2, <3>4, <3>5
    <2>2. CASE h = g
      <3>1. queue'[h] = Tail(queue[g])
        BY <1>5, <2>2
      <3>2. i + 1 \in 1..Len(queue[g]) /\ i + 1 # 1 /\ queue'[h][i] = queue[g][i+1]
        BY <1>2, <3>1
      <3>3. queue[g][i+1] # w /\ queue[g][i+1] \in Requests
        BY <1>1, <1>3, <1>9, <3>2
      <3>4. GateOf[queue[g][i+1]] = g /\ phase[queue[g][i+1]] = "waiting"
        BY <1>1, <3>2 DEF QueueInv
      <3>5. phase'[queue[g][i+1]] = "waiting"
        BY <1>7, <3>3, <3>4
      <3>6. ASSUME NEW j \in 1..Len(queue'[h]), queue'[h][j] = queue'[h][i] PROVE j = i
        <4>1. j + 1 \in 1..Len(queue[g]) /\ queue[g][j+1] = queue[g][i+1]
          BY <1>2, <3>1, <3>2, <3>6
        <4>2. j + 1 = i + 1
          BY <1>1, <3>2, <4>1 DEF QueueInv
        <4> QED
          BY <1>2, <3>1, <4>2
      <3> QED
        BY <2>2, <3>2, <3>4, <3>5, <3>6
    <2> QED
      BY <2>1, <2>2
  <1>11. ASSUME NEW h \in Gates PROVE queue'[h] # <<>> => available'[h] = 0
    BY <1>5, <1>11 DEF QueueInv
  <1>12. ASSUME NEW h \in Gates, NEW s \in Requests, GateOf[s] = h, phase'[s] = "waiting"
         PROVE  \E i \in 1..Len(queue'[h]) : queue'[h][i] = s
    <2>1. s # w /\ phase[s] = "waiting"
      BY <1>7, <1>8, <1>12
    <2>2. PICK i \in 1..Len(queue[h]) : queue[h][i] = s
      BY <1>12, <2>1 DEF QueueInv
    <2>3. CASE h # g
      BY <1>5, <2>2, <2>3
    <2>4. CASE h = g
      <3>1. i # 1
        BY <1>3, <2>1, <2>2, <2>4
      <3>2. queue'[h] = Tail(queue[g])
        BY <1>5, <2>4
      <3>3. i - 1 \in 1..Len(queue'[h]) /\ queue'[h][i-1] = s
        BY <1>2, <2>2, <2>4, <3>1, <3>2
      <3> QED
        BY <3>3
    <2> QED
      BY <2>3, <2>4
  <1>13. QueueInv'
    <2> SUFFICES ASSUME NEW h \in Gates
                 PROVE  /\ \A i \in 1..Len(queue'[h]) :
                              /\ GateOf[queue'[h][i]] = h /\ phase'[queue'[h][i]] = "waiting"
                              /\ \A j \in 1..Len(queue'[h]) :
                                    queue'[h][j] = queue'[h][i] => j = i
                        /\ queue'[h] # <<>> => available'[h] = 0
                        /\ \A s \in Requests : GateOf[s] = h /\ phase'[s] = "waiting" =>
                              \E i \in 1..Len(queue'[h]) : queue'[h][i] = s
      BY DEF QueueInv
    <2>1. \A i \in 1..Len(queue'[h]) :
             /\ GateOf[queue'[h][i]] = h /\ phase'[queue'[h][i]] = "waiting"
             /\ \A j \in 1..Len(queue'[h]) : queue'[h][j] = queue'[h][i] => j = i
      BY <1>10, Zenon
    <2>2. \A s \in Requests : GateOf[s] = h /\ phase'[s] = "waiting" =>
             \E i \in 1..Len(queue'[h]) : queue'[h][i] = s
      BY <1>12, Zenon
    <2> QED
      BY <1>11, <2>1, <2>2, Zenon
  <1> QED
    BY <1>3, <1>4, <1>6, <1>13

------------------------------------------------------------------------------
(* The permits. *)

\* Whoever gives a permit back, by drop or by handover, keeps the invariant
\* (RequestPermit dropped, tokio's semaphore).
LEMMA ReturnKeepsInv ==
    ASSUME GateInv, NEW r \in Requests, phase[r] \in {"granted", "held"}, ReturnPermit(r)
    PROVE  GateInv'
  <1> DEFINE g == GateOf[r]
             w == Head(queue[g])
  <1>1. /\ phase \in [Askers -> Phases] /\ r \in Askers /\ g \in Gates /\ PoolOf(r) = g
        /\ available \in [Gates -> 0..Limit] /\ queue \in [Gates -> Seq(Requests)]
        /\ Limit \in Nat \ {0}
    BY GateOfType, LimitPositive DEF GateInv, GateTypeOK
  <1>2. UNCHANGED <<mailbox, gateState, accepted, abandoned, snapshot>>
    BY DEF ReturnPermit
  <1>3. r \in Owners(g)
    BY <1>1 DEF Owners
  <1>4. available[g] + Cardinality(Owners(g)) = Limit
    BY <1>1 DEF GateInv, PermitConservation
  <1>5. IsFiniteSet(Owners(g)) /\ Cardinality(Owners(g)) \in Nat
    BY <1>1, OwnersFinite
  <1>6. CASE /\ queue[g] = <<>>
             /\ available' = [available EXCEPT ![g] = @ + 1]
             /\ phase' = [phase EXCEPT ![r] = "released"]
             /\ UNCHANGED queue
    <2>1. Owners(g)' = Owners(g) \ {r}
      BY <1>1, <1>6, GateOfType DEF Owners
    <2>2. Cardinality(Owners(g)') = Cardinality(Owners(g)) - 1
      BY <1>3, <1>5, <2>1, FS_RemoveElement
    <2>3. Cardinality(Owners(g)') \in Nat
      BY <1>5, <2>1, FS_RemoveElement, FS_CardinalityType
    <2>4. available[g] + 1 \in 0..Limit /\ (available[g] + 1) + Cardinality(Owners(g)') = Limit
      <3> DEFINE c == Cardinality(Owners(g))
      <3>1. available[g] \in Nat /\ Limit \in Nat /\ c \in Nat /\ c - 1 \in Nat
            /\ available[g] + c = Limit
        BY <1>1, <1>4, <1>5, <2>2, <2>3
      <3> HIDE DEF c
      <3>2. available[g] + 1 \in 0..Limit /\ (available[g] + 1) + (c - 1) = Limit
        BY <3>1
      <3> QED
        BY <2>2, <3>2 DEF c
    <2>5. GateTypeOK'
      BY <1>1, <1>2, <1>6, <2>4 DEF GateInv, GateTypeOK, Phases
    <2>6. MailboxInv'
      BY <1>1, <1>2, <1>6, MailboxUntouched DEF GateInv
    <2>7. \A s \in Requests : phase'[s] = "waiting" <=> phase[s] = "waiting"
      BY <1>1, <1>6, GateOfType
    <2>8. QueueInv'
      <3>1. \A h \in Gates : queue'[h] # <<>> => available'[h] = 0
        BY <1>1, <1>6 DEF GateInv, QueueInv
      <3>2. \A h \in Gates : \A i \in 1..Len(queue[h]) : queue[h][i] \in Requests
        BY <1>1, ElementOfSeq
      <3> QED
        BY <1>6, <2>7, <3>1, <3>2 DEF GateInv, QueueInv
    <2>9. PermitConservation'
      <3> SUFFICES ASSUME NEW h \in Gates
                   PROVE  available'[h] + Cardinality(Owners(h)') = Limit
        BY DEF PermitConservation
      <3>1. CASE h = g
        BY <1>1, <1>6, <2>4, <3>1
      <3>2. CASE h # g
        <4>1. Owners(h)' = Owners(h)
          BY <1>1, <1>6, <3>2, GateOfType DEF Owners
        <4> QED
          BY <1>1, <1>6, <3>2, <4>1 DEF GateInv, PermitConservation
      <3> QED
        BY <3>1, <3>2
    <2> QED
      BY <2>5, <2>6, <2>8, <2>9 DEF GateInv
  <1>7. CASE /\ queue[g] # <<>>
             /\ queue' = [queue EXCEPT ![g] = Tail(@)]
             /\ phase' = [phase EXCEPT ![r] = "released", ![w] = "granted"]
             /\ UNCHANGED available
    <2>1. /\ queue' \in [Gates -> Seq(Requests)] /\ QueueInv'
          /\ w \in Requests \ {r} /\ GateOf[w] = g /\ phase[w] = "waiting"
      BY <1>7, LeaveQueue DEF GateInv
    <2>2. Owners(g)' = (Owners(g) \ {r}) \cup {w}
      BY <1>1, <1>7, <2>1, GateOfType DEF Owners
    <2>3. /\ IsFiniteSet(Owners(g) \ {r})
          /\ Cardinality(Owners(g) \ {r}) = Cardinality(Owners(g)) - 1
      BY <1>3, <1>5, FS_RemoveElement
    <2>4. w \notin Owners(g) \ {r}
      BY <2>1 DEF Owners
    <2>5. Cardinality(Owners(g)') = Cardinality(Owners(g) \ {r}) + 1
      BY <2>2, <2>3, <2>4, FS_AddElement
    <2>6. Cardinality(Owners(g)') = Cardinality(Owners(g))
      BY <1>5, <2>3, <2>5
    <2>7. GateTypeOK'
      BY <1>1, <1>2, <1>7, <2>1 DEF GateInv, GateTypeOK, Phases
    <2>8. MailboxInv'
      BY <1>1, <1>2, <1>7, <2>1, GateOfType, MailboxUntouched DEF GateInv
    <2>9. PermitConservation'
      <3> SUFFICES ASSUME NEW h \in Gates
                   PROVE  available'[h] + Cardinality(Owners(h)') = Limit
        BY DEF PermitConservation
      <3>1. CASE h = g
        BY <1>4, <1>7, <2>6, <3>1
      <3>2. CASE h # g
        <4>1. Owners(h)' = Owners(h)
          BY <1>1, <1>7, <2>1, <3>2, GateOfType DEF Owners
        <4> QED
          BY <1>7, <4>1 DEF GateInv, PermitConservation
      <3> QED
        BY <3>1, <3>2
    <2> QED
      BY <2>1, <2>7, <2>8, <2>9 DEF GateInv
  <1> QED
    BY <1>1, <1>6, <1>7 DEF ReturnPermit

\* A free permit is taken, or the request joins the queue
\* (RequestPermitPool::acquire).
LEMMA AcquireKeepsInv ==
    ASSUME GateInv, NEW r \in Requests, AcquirePermit(r)
    PROVE  GateInv'
  <1> DEFINE g == GateOf[r]
  <1>1. /\ phase \in [Askers -> Phases] /\ r \in Askers /\ g \in Gates /\ PoolOf(r) = g
        /\ available \in [Gates -> 0..Limit] /\ Limit \in Nat /\ phase[r] = "spawned"
    BY GateOfType, LimitPositive DEF GateInv, GateTypeOK, AcquirePermit
  <1>2. UNCHANGED <<mailbox, gateState, accepted, abandoned, snapshot>>
    BY DEF AcquirePermit
  <1>3. CASE /\ available[g] > 0
             /\ available' = [available EXCEPT ![g] = @ - 1]
             /\ phase' = [phase EXCEPT ![r] = "granted"]
             /\ UNCHANGED queue
    <2>1. Owners(g)' = Owners(g) \cup {r} /\ r \notin Owners(g)
      BY <1>1, <1>3, GateOfType DEF Owners
    <2>2. Cardinality(Owners(g)') = Cardinality(Owners(g)) + 1
      BY <1>1, <2>1, OwnersFinite, FS_AddElement
    <2>3. GateTypeOK'
      BY <1>1, <1>2, <1>3 DEF GateInv, GateTypeOK, Phases
    <2>4. MailboxInv'
      BY <1>1, <1>2, <1>3, MailboxUntouched DEF GateInv
    <2>5. QueueInv'
      <3>1. \A h \in Gates : queue'[h] # <<>> => available'[h] = 0
        BY <1>1, <1>3 DEF GateInv, QueueInv
      <3>2. \A h \in Gates : \A i \in 1..Len(queue[h]) : queue[h][i] \in Requests
        BY ElementOfSeq DEF GateInv, GateTypeOK
      <3>3. \A s \in Requests : phase'[s] = "waiting" <=> phase[s] = "waiting"
        BY <1>1, <1>3, GateOfType
      <3> QED
        BY <1>3, <3>1, <3>2, <3>3 DEF GateInv, QueueInv
    <2>6. PermitConservation'
      <3> SUFFICES ASSUME NEW h \in Gates
                   PROVE  available'[h] + Cardinality(Owners(h)') = Limit
        BY DEF PermitConservation
      <3>1. CASE h = g
        <4> DEFINE c == Cardinality(Owners(g))
        <4>1. available[g] + c = Limit /\ c \in Nat /\ available[g] \in Nat
          BY <1>1, OwnersFinite DEF GateInv, PermitConservation
        <4>2. available'[g] = available[g] - 1 /\ Cardinality(Owners(g)') = c + 1
          BY <1>1, <1>3, <2>2
        <4> HIDE DEF c
        <4>3. available'[g] + Cardinality(Owners(g)') = Limit
          BY <1>1, <4>1, <4>2
        <4> QED
          BY <3>1, <4>3
      <3>2. CASE h # g
        <4>1. Owners(h)' = Owners(h)
          BY <1>1, <1>3, <3>2, GateOfType DEF Owners
        <4> QED
          BY <1>1, <1>3, <3>2, <4>1 DEF GateInv, PermitConservation
      <3> QED
        BY <3>1, <3>2
    <2> QED
      BY <2>3, <2>4, <2>5, <2>6 DEF GateInv
  <1>4. CASE /\ available[g] = 0
             /\ queue' = [queue EXCEPT ![g] = Append(@, r)]
             /\ phase' = [phase EXCEPT ![r] = "waiting"]
             /\ UNCHANGED available
    <2>1. queue' \in [Gates -> Seq(Requests)] /\ QueueInv'
      BY <1>1, <1>4, JoinQueue DEF GateInv
    <2>2. GateTypeOK'
      BY <1>1, <1>2, <1>4, <2>1 DEF GateInv, GateTypeOK, Phases
    <2>3. MailboxInv'
      BY <1>1, <1>2, <1>4, MailboxUntouched DEF GateInv
    <2>4. PermitConservation'
      BY <1>1, <1>4, OwnersUntouched, GateOfType DEF GateInv
    <2> QED
      BY <2>1, <2>2, <2>3, <2>4 DEF GateInv
  <1> QED
    BY <1>1, <1>3, <1>4 DEF AcquirePermit

\* The steps that touch neither semaphore nor queue.
LEMMA MailboxStepKeepsInv ==
    ASSUME GateInv, GateTypeOK', MailboxInv', UNCHANGED <<queue, available>>,
           \A r \in Requests : phase'[r] = phase[r] \/
                (phase[r] \notin {"waiting", "granted", "held"} /\
                 phase'[r] \notin {"waiting", "granted", "held"})
    PROVE  GateInv'
  <1>1. QueueInv'
    BY QueueUntouched DEF GateInv
  <1>2. PermitConservation'
    BY OwnersUntouched DEF GateInv
  <1> QED
    BY <1>1, <1>2 DEF GateInv

\* The callers of the gate keep the invariant.
LEMMA CallersKeepInv ==
    ASSUME GateInv
    PROVE  /\ \A a \in Askers : Ask(a) => GateInv'
           /\ \A g \in Gates : StopGracefully(g) => GateInv'
           /\ \A r \in Requests : Abandon(r) => GateInv'
  <1>1. ASSUME NEW a \in Askers, Ask(a) PROVE GateInv'
    <2>1. /\ phase \in [Askers -> Phases] /\ phase[a] = "idle" /\ GateOf[a] \in Gates
          /\ UNCHANGED <<gateState, accepted, available, queue, abandoned, snapshot>>
      BY <1>1, GateOfType DEF Ask, GateInv, GateTypeOK
    <2>2. CASE /\ mailbox' = [mailbox EXCEPT ![GateOf[a]] = Append(@, a)]
               /\ phase' = [phase EXCEPT ![a] = "queued"]
      <3>1. mailbox' \in [Gates -> Seq(Askers \cup {StopSignal})] /\ MailboxInv'
        BY <2>1, <2>2, PutLast DEF GateInv
      <3>2. GateTypeOK'
        BY <2>1, <2>2, <3>1 DEF GateInv, GateTypeOK, Phases
      <3> QED
        BY <2>1, <2>2, <3>1, <3>2, MailboxStepKeepsInv, GateOfType
    <2>3. CASE phase' = [phase EXCEPT ![a] = "refused"] /\ UNCHANGED mailbox
      <3>1. MailboxInv'
        BY <2>1, <2>3, MailboxUntouched DEF GateInv
      <3>2. GateTypeOK'
        BY <2>1, <2>3 DEF GateInv, GateTypeOK, Phases
      <3> QED
        BY <2>1, <2>3, <3>1, <3>2, MailboxStepKeepsInv, GateOfType
    <2> QED
      BY <1>1, <2>2, <2>3 DEF Ask
  <1>2. ASSUME NEW g \in Gates, StopGracefully(g) PROVE GateInv'
    <2>1. mailbox' \in [Gates -> Seq(Askers \cup {StopSignal})] /\ MailboxInv'
      BY <1>2, PutLast DEF StopGracefully, GateInv
    <2>2. GateTypeOK'
      BY <1>2, <2>1 DEF StopGracefully, GateInv, GateTypeOK
    <2> QED
      BY <1>2, <2>1, <2>2, MailboxStepKeepsInv DEF StopGracefully
  <1>3. ASSUME NEW r \in Requests, Abandon(r) PROVE GateInv'
    <2>1. MailboxInv'
      BY <1>3, MailboxUntouched DEF Abandon, GateInv
    <2>2. GateTypeOK'
      BY <1>3 DEF Abandon, GateInv, GateTypeOK
    <2> QED
      BY <1>3, <2>1, <2>2, MailboxStepKeepsInv DEF Abandon
  <1> QED
    BY <1>1, <1>2, <1>3

\* The actor keeps the invariant: it counts, answers and stops, and never takes a
\* permit itself (RequestGate's handlers).
LEMMA ActorKeepsInv ==
    ASSUME GateInv
    PROVE  /\ \A r \in Requests : HandleAcquire(r) => GateInv'
           /\ \A o \in Observers : HandleStatus(o) => GateInv'
           /\ \A g \in Gates : HandleStop(g) => GateInv'
  <1>1. phase \in [Askers -> Phases] /\ accepted \in [Gates -> 0..CountMax]
    BY DEF GateInv, GateTypeOK
  <1>2. ASSUME NEW r \in Requests, HandleAcquire(r) PROVE GateInv'
    <2>1. /\ mailbox' \in [Gates -> Seq(Askers \cup {StopSignal})] /\ MailboxInv'
          /\ phase[r] = "queued"
      BY <1>2, TakeFirst, GateOfType DEF HandleAcquire, GateInv
    <2>2. \A n \in 0..CountMax : Saturated(n) \in 0..CountMax
      BY GateAssumption DEF Saturated
    <2>3. GateTypeOK'
      BY <1>1, <1>2, <2>1, <2>2, GateOfType DEF HandleAcquire, GateInv, GateTypeOK, Phases
    <2> QED
      BY <1>1, <1>2, <2>1, <2>3, MailboxStepKeepsInv, GateOfType DEF HandleAcquire
  <1>3. ASSUME NEW o \in Observers, HandleStatus(o) PROVE GateInv'
    <2>1. mailbox' \in [Gates -> Seq(Askers \cup {StopSignal})] /\ MailboxInv'
      BY <1>3, TakeFirst, GateOfType DEF HandleStatus, GateInv
    <2>2. [available |-> available[GateOf[o]], accepted |-> accepted[GateOf[o]]] \in Status
      BY GateOfType, LimitPositive, GateAssumption DEF GateInv, GateTypeOK, Status
    <2>3. GateTypeOK'
      BY <1>1, <1>3, <2>1, <2>2 DEF HandleStatus, GateInv, GateTypeOK, Phases
    <2>4. \A r \in Requests : phase'[r] = phase[r]
      BY <1>1, <1>3, GateOfType, GateAssumption DEF HandleStatus
    <2> QED
      BY <1>3, <2>1, <2>3, <2>4, MailboxStepKeepsInv DEF HandleStatus
  <1>4. ASSUME NEW g \in Gates, HandleStop(g) PROVE GateInv'
    <2>1. mailbox \in [Gates -> Seq(Askers \cup {StopSignal})]
      BY DEF GateInv, GateTypeOK
    <2>2. \A a \in Askers : InMailbox(g, a) => GateOf[a] = g /\ phase[a] = "queued"
      BY <1>4 DEF InMailbox, GateInv, MailboxInv
    <2>3. \A a \in Askers : phase'[a] = IF InMailbox(g, a) THEN "refused" ELSE phase[a]
      BY <1>4 DEF HandleStop
    <2>4. mailbox' = [mailbox EXCEPT ![g] = <<>>]
      BY <1>4 DEF HandleStop
    <2>5. mailbox' \in [Gates -> Seq(Askers \cup {StopSignal})]
      BY <2>1, <2>4, EmptySeq
    <2>6. MailboxInv'
      <3> SUFFICES ASSUME NEW h \in Gates, NEW i \in 1..Len(mailbox'[h]), mailbox'[h][i] \in Askers
                   PROVE  /\ GateOf[mailbox'[h][i]] = h /\ phase'[mailbox'[h][i]] = "queued"
                          /\ \A j \in 1..Len(mailbox'[h]) :
                                mailbox'[h][j] = mailbox'[h][i] => j = i
        BY DEF MailboxInv
      <3>1. h # g
        BY <2>1, <2>4, EmptySeq
      <3>2. mailbox'[h] = mailbox[h]
        BY <2>1, <2>4, <3>1
      <3>3. GateOf[mailbox[h][i]] = h /\ phase[mailbox[h][i]] = "queued"
        BY <3>2 DEF GateInv, MailboxInv
      <3>4. ~InMailbox(g, mailbox[h][i])
        BY <2>2, <3>1, <3>2, <3>3
      <3>5. phase'[mailbox[h][i]] = "queued"
        BY <2>3, <3>2, <3>3, <3>4
      <3>6. \A j \in 1..Len(mailbox[h]) : mailbox[h][j] = mailbox[h][i] => j = i
        BY <3>2 DEF GateInv, MailboxInv
      <3> QED
        BY <3>2, <3>3, <3>5, <3>6
    <2>7. GateTypeOK'
      <3>1. phase' \in [Askers -> Phases]
        BY <1>1, <1>4 DEF HandleStop, Phases
      <3> QED
        BY <1>4, <2>5, <3>1 DEF HandleStop, GateInv, GateTypeOK
    <2> QED
      BY <1>4, <2>2, <2>3, <2>6, <2>7, MailboxStepKeepsInv, GateOfType DEF HandleStop
  <1> QED
    BY <1>2, <1>3, <1>4

\* The permit changes hands without being counted twice (Deliver).
LEMMA DeliverKeepsInv ==
    ASSUME GateInv, NEW r \in Requests, Deliver(r)
    PROVE  GateInv'
  <1>1. phase \in [Askers -> Phases] /\ phase[r] = "granted" /\ r \in Askers
    BY GateOfType DEF GateInv, GateTypeOK, Deliver
  <1>2. phase' = [phase EXCEPT ![r] = "held"]
    BY DEF Deliver
  <1>3. UNCHANGED <<mailbox, gateState, accepted, available, queue, abandoned, snapshot>>
    BY DEF Deliver
  <1>4. GateTypeOK'
    BY <1>1, <1>2, <1>3 DEF GateInv, GateTypeOK, Phases
  <1>5. MailboxInv'
    BY <1>1, <1>2, <1>3, MailboxUntouched DEF GateInv
  <1>6. QueueInv'
    BY <1>1, <1>2, <1>3, QueueUntouched, GateOfType DEF GateInv
  <1>7. PermitConservation'
    BY <1>1, <1>2, <1>3, OwnersUntouched, GateOfType DEF GateInv
  <1> QED
    BY <1>4, <1>5, <1>6, <1>7 DEF GateInv

------------------------------------------------------------------------------
(* The theorems. *)

\* A new gate has all its permits and nobody waiting (RequestPermitPool::new).
LEMMA GateInitInv == GateInit => GateInv
  <1> SUFFICES ASSUME GateInit PROVE GateInv
    OBVIOUS
  <1>1. GateTypeOK
    BY GateAssumption, LimitPositive, EmptySeq DEF GateInit, GateTypeOK, Phases, Status
  <1>2. MailboxInv /\ QueueInv
    BY GateOfType, EmptySeq DEF GateInit, MailboxInv, QueueInv
  <1>3. PermitConservation
    <2> SUFFICES ASSUME NEW g \in Gates PROVE available[g] + Cardinality(Owners(g)) = Limit
      BY DEF PermitConservation
    <2>1. Owners(g) = {}
      BY GateOfType DEF GateInit, Owners
    <2>2. Cardinality(Owners(g)) = 0 /\ available[g] = Limit
      BY <2>1, FS_EmptySet DEF GateInit
    <2> QED
      BY <2>2, LimitPositive
  <1> QED
    BY <1>1, <1>2, <1>3 DEF GateInv

\* Every step of the gates keeps the invariant.
LEMMA GateStepInv == GateInv /\ [GateNext]_gateVars => GateInv'
  <1> SUFFICES ASSUME GateInv, [GateNext]_gateVars PROVE GateInv'
    OBVIOUS
  <1>1. CASE UNCHANGED gateVars
    BY <1>1 DEF gateVars, GateInv, GateTypeOK, MailboxInv, QueueInv, PermitConservation, Owners,
                PoolOf
  <1>2. ASSUME NEW r \in Requests, DropReply(r) \/ Release(r) PROVE GateInv'
    BY <1>2, ReturnKeepsInv DEF DropReply, Release
  <1> QED
    BY <1>1, <1>2, CallersKeepInv, ActorKeepsInv, AcquireKeepsInv, DeliverKeepsInv DEF GateNext

\* The strengthened invariant holds of every run of the gates.
THEOREM GateInvHolds == GateSpec => []GateInv
  BY GateInitInv, GateStepInv, PTL DEF GateSpec

\* The gates are always well typed, for any gates, asks and limit (RequestGate).
THEOREM GateTypeCorrect == GateSpec => []GateTypeOK
  BY GateInvHolds, PTL DEF GateInv

\* Free permits and owned permits always add up to the limit, whatever asks are
\* dropped, refused or handed over (RequestPermitPool, RequestPermit).
THEOREM PermitsAreConserved == GateSpec => []PermitConservation
  BY GateInvHolds, PTL DEF GateInv

\* No permit is ever free while a task of its pool waits (RequestPermitPool::acquire).
THEOREM PermitsAreNotIdle == GateSpec => []NoIdlePermit
  <1>1. GateInv => NoIdlePermit
    <2> SUFFICES ASSUME GateInv, NEW r \in Requests, phase[r] = "waiting"
                 PROVE  available[PoolOf(r)] = 0
      BY DEF NoIdlePermit
    <2>1. GateOf[r] \in Gates /\ PoolOf(r) = GateOf[r]
      BY GateOfType
    <2>2. PICK i \in 1..Len(queue[GateOf[r]]) : queue[GateOf[r]][i] = r
      BY <2>1 DEF GateInv, QueueInv
    <2>3. queue[GateOf[r]] # <<>>
      BY <2>2, EmptySeq
    <2> QED
      BY <2>1, <2>3 DEF GateInv, QueueInv
  <1> QED
    BY <1>1, GateInvHolds, PTL

------------------------------------------------------------------------------
(* The status: what it reports was true at one moment of the gate. *)

HandledPhases == {"spawned", "waiting", "granted", "held", "released"}

\* The requests that the actor of a gate has handled.
Handled(g) == {r \in Requests : GateOf[r] = g /\ phase[r] \in HandledPhases}

\* The actor counts each request it handles, up to the largest count.
CountInv == \A g \in Gates : Cardinality(Handled(g)) <= accepted[g] \/ accepted[g] = CountMax

\* The requests handled by one gate are finitely many, the owners among them.
LEMMA HandledFinite ==
    ASSUME NEW g \in Gates
    PROVE  /\ IsFiniteSet(Handled(g)) /\ Cardinality(Handled(g)) \in Nat
           /\ Cardinality(Owners(g)) <= Cardinality(Handled(g))
  <1>1. Handled(g) \in SUBSET Requests
    BY DEF Handled
  <1>2. IsFiniteSet(Handled(g)) /\ Cardinality(Handled(g)) \in Nat
    BY <1>1, FS_Subset, FS_CardinalityType, GateAssumption
  <1>3. Owners(g) \in SUBSET Handled(g)
    BY GateOfType DEF Owners, Handled, HandledPhases
  <1> QED
    BY <1>2, <1>3, FS_Subset

\* The permits that are out never exceed the count (RequestGate::status).
LEMMA OutWithinCount ==
    ASSUME GateInv, CountInv, NEW g \in Gates
    PROVE  Limit - available[g] <= accepted[g]
  <1> DEFINE owned == Cardinality(Owners(g))
             done == Cardinality(Handled(g))
  <1>1. /\ available[g] + owned = Limit /\ available[g] \in 0..Limit /\ accepted[g] \in 0..CountMax
        /\ owned <= done /\ (done <= accepted[g] \/ accepted[g] = CountMax)
    BY HandledFinite DEF GateInv, GateTypeOK, PermitConservation, CountInv
  <1>2. owned \in Nat /\ done \in Nat /\ Limit \in Nat /\ CountMax \in Nat /\ Limit <= CountMax
    BY OwnersFinite, HandledFinite, LimitPositive, GateAssumption
  <1> HIDE DEF owned, done
  <1> QED
    BY <1>1, <1>2

\* A returned permit moves no request into or out of the handled ones, and no
\* observer (ReturnPermit hands it to a waiting request).
LEMMA ReturnMovesHandled ==
    ASSUME GateInv, NEW r \in Requests, phase[r] \in {"granted", "held"}, ReturnPermit(r)
    PROVE  /\ \A s \in Requests : phase'[s] \in HandledPhases <=> phase[s] \in HandledPhases
           /\ \A o \in Observers : phase'[o] = phase[o]
  <1> DEFINE g == GateOf[r]
             w == Head(queue[g])
  <1>1. phase \in [Askers -> Phases] /\ r \in Askers /\ g \in Gates /\ PoolOf(r) = g
    BY GateOfType DEF GateInv, GateTypeOK
  <1>2. CASE phase' = [phase EXCEPT ![r] = "released"]
    BY <1>1, <1>2, GateOfType, GateAssumption DEF HandledPhases
  <1>3. CASE /\ queue[g] # <<>>
             /\ queue' = [queue EXCEPT ![g] = Tail(@)]
             /\ phase' = [phase EXCEPT ![r] = "released", ![w] = "granted"]
             /\ UNCHANGED available
    <2>1. w \in Requests \ {r} /\ phase[w] = "waiting"
      BY <1>3, LeaveQueue DEF GateInv
    <2> QED
      BY <1>1, <1>3, <2>1, GateOfType, GateAssumption DEF HandledPhases
  <1> QED
    BY <1>1, <1>2, <1>3 DEF ReturnPermit

\* A step that handles no request and answers no observer keeps both.
LEMMA StatusUntouched ==
    ASSUME GateInv, CountInv, StatusConsistent, UNCHANGED <<accepted, snapshot>>,
           \A r \in Requests : phase'[r] \in HandledPhases <=> phase[r] \in HandledPhases,
           \A o \in Observers : phase'[o] = "answered" => phase[o] = "answered"
    PROVE  CountInv' /\ StatusConsistent'
  <1>1. \A g \in Gates : Handled(g)' = Handled(g)
    BY DEF Handled
  <1> QED
    BY <1>1 DEF CountInv, StatusConsistent

\* Handling a request counts it and adds it to the handled ones
\* (RequestGate::accept_request).
LEMMA CountsWhatItHandles ==
    ASSUME GateInv, CountInv, StatusConsistent, NEW r \in Requests, HandleAcquire(r)
    PROVE  CountInv' /\ StatusConsistent'
  <1> DEFINE g == GateOf[r]
  <1>1. /\ phase \in [Askers -> Phases] /\ accepted \in [Gates -> 0..CountMax]
        /\ r \in Askers /\ g \in Gates /\ CountMax \in Nat
    BY GateOfType, GateAssumption DEF GateInv, GateTypeOK
  <1>2. /\ phase[r] = "queued" /\ phase' = [phase EXCEPT ![r] = "spawned"]
        /\ accepted' = [accepted EXCEPT ![g] = Saturated(@)] /\ snapshot' = snapshot
    BY <1>1, TakeFirst DEF HandleAcquire, GateInv
  <1>3. ASSUME NEW h \in Gates
        PROVE  /\ Cardinality(Handled(h)') <= accepted'[h] \/ accepted'[h] = CountMax
               /\ accepted[h] <= accepted'[h] /\ accepted[h] \in Nat /\ accepted'[h] \in Nat
    <2>1. CASE h # g
      <3>1. Handled(h)' = Handled(h) /\ accepted'[h] = accepted[h]
        BY <1>1, <1>2, <2>1, GateOfType DEF Handled, HandledPhases
      <3> QED
        BY <1>1, <3>1 DEF CountInv
    <2>2. CASE h = g
      <3> DEFINE done == Cardinality(Handled(g))
      <3>1. Handled(h)' = Handled(g) \cup {r} /\ r \notin Handled(g)
        BY <1>1, <1>2, <2>2, GateOfType DEF Handled, HandledPhases
      <3>2. Cardinality(Handled(h)') = done + 1 /\ done \in Nat
        BY <1>1, <3>1, HandledFinite, FS_AddElement
      <3>3. accepted'[h] = Saturated(accepted[g]) /\ (done <= accepted[g] \/ accepted[g] = CountMax)
        BY <1>1, <1>2, <2>2 DEF CountInv
      <3> HIDE DEF done
      <3> QED
        BY <1>1, <2>2, <3>2, <3>3 DEF Saturated
    <2> QED
      BY <2>1, <2>2
  <1>4. CountInv'
    BY <1>3 DEF CountInv
  <1>5. ASSUME NEW o \in Observers, phase'[o] = "answered"
        PROVE  /\ Limit - snapshot'[o].available <= snapshot'[o].accepted
               /\ snapshot'[o].accepted <= accepted'[GateOf[o]]
    <2>1. phase[o] = "answered" /\ GateOf[o] \in Gates
      BY <1>1, <1>2, <1>5, GateOfType, GateAssumption
    <2>2. snapshot[o].accepted \in Nat
      BY DEF GateInv, GateTypeOK, Status
    <2>3. /\ Limit - snapshot[o].available <= snapshot[o].accepted
          /\ snapshot[o].accepted <= accepted[GateOf[o]]
      BY <2>1 DEF StatusConsistent
    <2> QED
      BY <1>2, <1>3, <2>1, <2>2, <2>3
  <1> QED
    BY <1>4, <1>5 DEF StatusConsistent

\* Answering a status takes the count and the free permits of one moment
\* (RequestGate::status).
LEMMA AnswersConsistently ==
    ASSUME GateInv, CountInv, StatusConsistent, NEW o \in Observers, HandleStatus(o)
    PROVE  CountInv' /\ StatusConsistent'
  <1> DEFINE g == GateOf[o]
  <1>1. /\ phase \in [Askers -> Phases] /\ snapshot \in [Observers -> Status]
        /\ accepted \in [Gates -> 0..CountMax] /\ o \in Askers /\ g \in Gates /\ CountMax \in Nat
    BY GateOfType, GateAssumption DEF GateInv, GateTypeOK
  <1>2. /\ phase' = [phase EXCEPT ![o] = "answered"] /\ accepted' = accepted
        /\ snapshot' = [snapshot EXCEPT ![o] = [available |-> available[g], accepted |-> accepted[g]]]
    BY DEF HandleStatus
  <1>3. \A h \in Gates : Handled(h)' = Handled(h)
    BY <1>1, <1>2, GateOfType, GateAssumption DEF Handled
  <1>4. CountInv'
    BY <1>2, <1>3 DEF CountInv
  <1>5. ASSUME NEW p \in Observers, phase'[p] = "answered"
        PROVE  /\ Limit - snapshot'[p].available <= snapshot'[p].accepted
               /\ snapshot'[p].accepted <= accepted'[GateOf[p]]
    <2>1. CASE p = o
      <3>1. snapshot'[p] = [available |-> available[g], accepted |-> accepted[g]]
        BY <1>1, <1>2, <2>1
      <3>2. Limit - available[g] <= accepted[g] /\ accepted[g] \in Nat
        BY <1>1, OutWithinCount
      <3> QED
        BY <1>2, <2>1, <3>1, <3>2
    <2>2. CASE p # o
      <3>1. snapshot'[p] = snapshot[p] /\ phase[p] = "answered"
        BY <1>1, <1>2, <1>5, <2>2, GateOfType
      <3> QED
        BY <1>2, <3>1 DEF StatusConsistent
    <2> QED
      BY <2>1, <2>2
  <1> QED
    BY <1>4, <1>5 DEF StatusConsistent

\* Every step of the gates keeps the count and the statuses right.
LEMMA StatusStep ==
    ASSUME GateInv, CountInv, StatusConsistent, [GateNext]_gateVars
    PROVE  CountInv' /\ StatusConsistent'
  <1>1. phase \in [Askers -> Phases]
    BY DEF GateInv, GateTypeOK
  <1>2. ASSUME NEW a \in Askers, Ask(a) PROVE CountInv' /\ StatusConsistent'
    BY <1>1, <1>2, StatusUntouched, GateOfType DEF Ask, HandledPhases
  <1>3. ASSUME NEW g \in Gates, StopGracefully(g) PROVE CountInv' /\ StatusConsistent'
    BY <1>3, StatusUntouched DEF StopGracefully
  <1>4. ASSUME NEW g \in Gates, HandleStop(g) PROVE CountInv' /\ StatusConsistent'
    <2>1. \A a \in Askers : InMailbox(g, a) => phase[a] = "queued"
      BY <1>4 DEF InMailbox, GateInv, MailboxInv
    <2>2. \A a \in Askers : phase'[a] = IF InMailbox(g, a) THEN "refused" ELSE phase[a]
      BY <1>4 DEF HandleStop
    <2>3. UNCHANGED <<accepted, snapshot>>
      BY <1>4 DEF HandleStop
    <2> QED
      BY <2>1, <2>2, <2>3, StatusUntouched, GateOfType DEF HandledPhases
  <1>5. ASSUME NEW r \in Requests, Abandon(r) PROVE CountInv' /\ StatusConsistent'
    BY <1>5, StatusUntouched DEF Abandon
  <1>6. ASSUME NEW r \in Requests, AcquirePermit(r) \/ Deliver(r)
        PROVE  CountInv' /\ StatusConsistent'
    <2>1. /\ UNCHANGED <<accepted, snapshot>> /\ phase[r] \in HandledPhases
          /\ \E place \in HandledPhases : phase' = [phase EXCEPT ![r] = place]
      BY <1>6 DEF AcquirePermit, Deliver, HandledPhases
    <2>2. PICK place \in HandledPhases : phase' = [phase EXCEPT ![r] = place]
      BY <2>1
    <2>3. /\ \A s \in Requests : phase'[s] \in HandledPhases <=> phase[s] \in HandledPhases
          /\ \A o \in Observers : phase'[o] = phase[o]
      BY <1>1, <2>1, <2>2, GateOfType, GateAssumption
    <2> QED
      BY <2>1, <2>3, StatusUntouched
  <1>7. ASSUME NEW r \in Requests, DropReply(r) \/ Release(r)
        PROVE  CountInv' /\ StatusConsistent'
    <2>1. phase[r] \in {"granted", "held"} /\ ReturnPermit(r)
      BY <1>7 DEF DropReply, Release
    <2>2. UNCHANGED <<accepted, snapshot>>
      BY <2>1 DEF ReturnPermit
    <2> QED
      BY <2>1, <2>2, ReturnMovesHandled, StatusUntouched
  <1>8. CASE UNCHANGED gateVars
    BY <1>8, StatusUntouched DEF gateVars
  <1> QED
    BY <1>2, <1>3, <1>4, <1>5, <1>6, <1>7, <1>8, CountsWhatItHandles, AnswersConsistently
    DEF GateNext

\* A status is consistent although permits move on other tasks while the actor
\* answers, and also when the count is at its end: permits that are out never exceed
\* the requests counted, and counts only grow (RequestGate::status, accept_request).
THEOREM StatusesAreConsistent == GateSpec => []StatusConsistent
  <1>1. GateInit => CountInv /\ StatusConsistent
    <2> SUFFICES ASSUME GateInit PROVE CountInv /\ StatusConsistent
      OBVIOUS
    <2>1. ASSUME NEW g \in Gates PROVE Cardinality(Handled(g)) <= accepted[g]
      <3>1. Handled(g) = {} /\ accepted[g] = 0
        BY GateOfType DEF GateInit, Handled, HandledPhases
      <3> QED
        BY <3>1, FS_EmptySet
    <2>2. \A o \in Observers : phase[o] = "idle"
      BY GateOfType DEF GateInit
    <2> QED
      BY <2>1, <2>2 DEF CountInv, StatusConsistent
  <1>2. GateInv /\ CountInv /\ StatusConsistent /\ [GateNext]_gateVars
            => CountInv' /\ StatusConsistent'
    BY StatusStep
  <1> QED
    BY <1>1, <1>2, GateInvHolds, PTL DEF GateSpec

------------------------------------------------------------------------------
(* The stop. *)

\* A stopped gate has nothing left in its mailbox.
StoppedInv == \A g \in Gates : gateState[g] = "stopped" => mailbox[g] = <<>>

\* A stopped gate stays stopped, and nothing reaches its mailbox again (ask() on a
\* stopped actor fails, stop_gracefully is not repeated).
LEMMA StoppedStep ==
    ASSUME GateInv, StoppedInv, [GateNext]_gateVars
    PROVE  /\ StoppedInv'
           /\ \A g \in Gates : gateState[g] = "stopped" => gateState'[g] = "stopped"
  <1>1. /\ mailbox \in [Gates -> Seq(Askers \cup {StopSignal})]
        /\ gateState \in [Gates -> {"running", "stopped"}]
        /\ \A a \in Askers : GateOf[a] \in Gates
    BY GateOfType DEF GateInv, GateTypeOK
  <1> DEFINE Kept == /\ StoppedInv'
                     /\ \A g \in Gates : gateState[g] = "stopped" => gateState'[g] = "stopped"
  <1>2. ASSUME NEW a \in Askers, Ask(a) PROVE Kept
    BY <1>1, <1>2 DEF Ask, StoppedInv
  <1>3. ASSUME NEW g \in Gates, StopGracefully(g) PROVE Kept
    BY <1>1, <1>3 DEF StopGracefully, StoppedInv
  <1>4. ASSUME NEW g \in Gates, HandleStop(g) PROVE Kept
    BY <1>1, <1>4 DEF HandleStop, StoppedInv
  <1>5. ASSUME NEW a \in Askers, HandleStatus(a) \/ HandleAcquire(a) PROVE Kept
    BY <1>1, <1>5 DEF HandleStatus, HandleAcquire, Handles, StoppedInv
  <1>6. CASE UNCHANGED <<mailbox, gateState>>
    BY <1>6 DEF StoppedInv
  <1>7. ASSUME NEW r \in Requests,
               \/ Abandon(r) \/ AcquirePermit(r) \/ Deliver(r) \/ DropReply(r) \/ Release(r)
        PROVE  UNCHANGED <<mailbox, gateState>>
    BY <1>7 DEF Abandon, AcquirePermit, Deliver, DropReply, Release, ReturnPermit
  <1> QED
    BY <1>2, <1>3, <1>4, <1>5, <1>6, <1>7, GateOfType DEF GateNext, gateVars

\* Of every run of the gates.
THEOREM StoppedGatesStayEmpty == GateSpec => []StoppedInv
  <1>1. GateInit => StoppedInv
    BY DEF GateInit, StoppedInv
  <1>2. GateInv /\ StoppedInv /\ [GateNext]_gateVars => StoppedInv'
    BY StoppedStep
  <1> QED
    BY <1>1, <1>2, GateInvHolds, PTL DEF GateSpec

------------------------------------------------------------------------------
(* The gate implements the abstract pool. *)

\* The instance counts as FiniteSets does.
LEMMA SameCardinality == \A S : Admission!Cardinality(S) = Cardinality(S)
  BY DEF Admission!Cardinality, Cardinality

\* The clients live in a pool are the owners of its permits.
LEMMA LiveAreOwners ==
    ASSUME NEW g \in Gates
    PROVE  Admission!LiveIn(g) = Owners(g)
  BY GateOfType DEF Admission!LiveIn, Owners

\* A step that moves no ask into or out of ownership is a stutter of the pool.
LEMMA StutterOfPool ==
    ASSUME \A r \in Requests :
              /\ phase'[r] \in {"granted", "held"} <=> phase[r] \in {"granted", "held"}
              /\ phase'[r] = "released" <=> phase[r] = "released"
    PROVE  UNCHANGED Admission!vars
  BY DEF Admission!vars

\* Taking a free permit enters the pool (RequestPermitPool::acquire).
LEMMA AcquireEnters ==
    ASSUME GateInv, NEW r \in Requests, AcquirePermit(r)
    PROVE  [Admission!Next]_Admission!vars
  <1> DEFINE g == GateOf[r]
  <1>1. /\ phase \in [Askers -> Phases] /\ r \in Askers /\ g \in Gates /\ PoolOf(r) = g
        /\ phase[r] = "spawned"
    BY GateOfType DEF GateInv, GateTypeOK, AcquirePermit
  <1>2. CASE available[g] > 0 /\ phase' = [phase EXCEPT ![r] = "granted"]
    <2> DEFINE c == Cardinality(Owners(g))
    <2>1. available[g] + c = Limit /\ c \in Nat /\ available[g] \in Nat /\ Limit \in Nat
      BY <1>1, OwnersFinite, LimitPositive DEF GateInv, GateTypeOK, PermitConservation
    <2>2. c < Limit
      <3> HIDE DEF c
      <3> QED
        BY <1>2, <2>1
    <2>3. Admission!Enter(r)
      <3>1. Cardinality(Admission!LiveIn(PoolOf(r))) < Limit
        BY <1>1, <2>2, LiveAreOwners
      <3>2. /\ {s \in Requests : phase'[s] \in {"granted", "held"}}
                  = {s \in Requests : phase[s] \in {"granted", "held"}} \cup {r}
            /\ {s \in Requests : phase'[s] = "released"} = {s \in Requests : phase[s] = "released"}
        BY <1>1, <1>2, GateOfType
      <3> QED
        BY <1>1, <3>1, <3>2, SameCardinality DEF Admission!Enter
    <2> QED
      BY <2>3 DEF Admission!Next
  <1>3. CASE phase' = [phase EXCEPT ![r] = "waiting"]
    BY <1>1, <1>3, StutterOfPool, GateOfType
  <1> QED
    BY <1>1, <1>2, <1>3 DEF AcquirePermit

\* Returning a permit leaves the pool, or hands the slot to the first waiter
\* (RequestPermit dropped).
LEMMA ReturnLeaves ==
    ASSUME GateInv, NEW r \in Requests, phase[r] \in {"granted", "held"}, ReturnPermit(r)
    PROVE  Admission!Next
  <1> DEFINE g == GateOf[r]
             w == Head(queue[g])
  <1>1. /\ phase \in [Askers -> Phases] /\ r \in Askers /\ g \in Gates /\ PoolOf(r) = g
    BY GateOfType DEF GateInv, GateTypeOK
  <1>2. CASE phase' = [phase EXCEPT ![r] = "released"]
    <2>1. /\ {s \in Requests : phase'[s] \in {"granted", "held"}}
                = {s \in Requests : phase[s] \in {"granted", "held"}} \ {r}
          /\ {s \in Requests : phase'[s] = "released"}
                = {s \in Requests : phase[s] = "released"} \cup {r}
      BY <1>1, <1>2, GateOfType
    <2>2. Admission!Leave(r)
      BY <2>1 DEF Admission!Leave
    <2> QED
      BY <2>2 DEF Admission!Next
  <1>3. CASE /\ queue[g] # <<>>
             /\ queue' = [queue EXCEPT ![g] = Tail(@)]
             /\ phase' = [phase EXCEPT ![r] = "released", ![w] = "granted"]
             /\ UNCHANGED available
    <2>1. w \in Requests \ {r} /\ GateOf[w] = g /\ phase[w] = "waiting"
      BY <1>3, LeaveQueue DEF GateInv
    <2>2. /\ {s \in Requests : phase'[s] \in {"granted", "held"}}
                = ({s \in Requests : phase[s] \in {"granted", "held"}} \ {r}) \cup {w}
          /\ {s \in Requests : phase'[s] = "released"}
                = {s \in Requests : phase[s] = "released"} \cup {r}
      BY <1>1, <1>3, <2>1, GateOfType
    <2>3. PICK d \in Requests : d = w
      BY <2>1
    <2>4. Admission!Handover(r, d)
      BY <2>1, <2>2, <2>3, GateOfType DEF Admission!Handover
    <2> QED
      BY <2>4 DEF Admission!Next
  <1> QED
    BY <1>1, <1>2, <1>3 DEF ReturnPermit

\* What the actor, the askers and the reply channel do moves nobody in or out.
LEMMA OthersStutter ==
    ASSUME GateInv
    PROVE  /\ \A a \in Askers : Ask(a) => UNCHANGED Admission!vars
           /\ \A g \in Gates : StopGracefully(g) \/ HandleStop(g) => UNCHANGED Admission!vars
           /\ \A o \in Observers : HandleStatus(o) => UNCHANGED Admission!vars
           /\ \A r \in Requests :
                 Abandon(r) \/ HandleAcquire(r) \/ Deliver(r) => UNCHANGED Admission!vars
  <1>1. phase \in [Askers -> Phases]
    BY DEF GateInv, GateTypeOK
  <1>2. ASSUME NEW a \in Askers, Ask(a) PROVE UNCHANGED Admission!vars
    BY <1>1, <1>2, StutterOfPool, GateOfType DEF Ask
  <1>3. ASSUME NEW g \in Gates, StopGracefully(g) PROVE UNCHANGED Admission!vars
    BY <1>3, StutterOfPool DEF StopGracefully
  <1>4. ASSUME NEW g \in Gates, HandleStop(g) PROVE UNCHANGED Admission!vars
    <2>1. \A a \in Askers : InMailbox(g, a) => phase[a] = "queued"
      BY <1>4 DEF InMailbox, GateInv, MailboxInv
    <2>2. \A a \in Askers : phase'[a] = IF InMailbox(g, a) THEN "refused" ELSE phase[a]
      BY <1>4 DEF HandleStop
    <2> QED
      BY <2>1, <2>2, StutterOfPool, GateOfType
  <1>5. ASSUME NEW o \in Observers, HandleStatus(o) PROVE UNCHANGED Admission!vars
    BY <1>1, <1>5, StutterOfPool, GateOfType, GateAssumption DEF HandleStatus
  <1>6. ASSUME NEW r \in Requests, Abandon(r) PROVE UNCHANGED Admission!vars
    BY <1>6, StutterOfPool DEF Abandon
  <1>7. ASSUME NEW r \in Requests, HandleAcquire(r) PROVE UNCHANGED Admission!vars
    <2>1. phase[r] = "queued"
      BY <1>7, TakeFirst, GateOfType DEF HandleAcquire, GateInv
    <2> QED
      BY <1>1, <1>7, <2>1, StutterOfPool, GateOfType DEF HandleAcquire
  <1>8. ASSUME NEW r \in Requests, Deliver(r) PROVE UNCHANGED Admission!vars
    BY <1>1, <1>8, StutterOfPool, GateOfType DEF Deliver
  <1> QED
    BY <1>2, <1>3, <1>4, <1>5, <1>6, <1>7, <1>8

\* The gates implement the abstract admission pool: no client is admitted twice,
\* never more than the limit are live, and a handover lets nobody else in
\* (RequestGate, RequestPermitPool, RequestPermit).
THEOREM GateImplementsAdmission == GateSpec => ImplementsAdmission
  <1>1. GateInit => Admission!Init
    BY GateOfType DEF GateInit, Admission!Init
  <1>2. GateInv /\ [GateNext]_gateVars => [Admission!Next]_Admission!vars
    <2> SUFFICES ASSUME GateInv, [GateNext]_gateVars PROVE [Admission!Next]_Admission!vars
      OBVIOUS
    <2>1. CASE UNCHANGED gateVars
      BY <2>1 DEF gateVars, Admission!vars
    <2>2. ASSUME NEW r \in Requests, DropReply(r) \/ Release(r) PROVE Admission!Next
      BY <2>2, ReturnLeaves DEF DropReply, Release
    <2> QED
      BY <2>1, <2>2, AcquireEnters, OthersStutter DEF GateNext
  <1> QED
    BY <1>1, <1>2, GateInvHolds, PTL DEF GateSpec, ImplementsAdmission, Admission!Spec
==============================================================================
