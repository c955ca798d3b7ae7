------------------------------ MODULE TraceProofs ------------------------------
(***************************************************************************)
(* Proofs about Trace for any recorders, listeners, backlog and workloads: *)
(* what clients collect is in order and whole, an event reported as        *)
(* written is not lost in silence, and a collect call accepts at most one  *)
(* connection after its deadline.                                          *)
(***************************************************************************)
EXTENDS Trace, SequenceTheorems, TLAPS

------------------------------------------------------------------------------
(* Sequences of events. *)

\* Two events of one recorder, the first recorded before the second.
Earlier(d, e) == d[1] = e[1] => d[2] < e[2]

\* The events of each recorder in its order.
Ordered(s) == \A i, j \in 1..Len(s) : j < i => Earlier(s[j], s[i])

\* Every event of s earlier than e; e earlier than every event of s.
AllBefore(s, e) == \A d \in Events : InSeq(d, s) => Earlier(d, e)
AllAfter(s, e) == \A d \in Events : InSeq(d, s) => Earlier(e, d)
Precedes(s, t) == \A d, e \in Events : InSeq(d, s) /\ InSeq(e, t) => Earlier(d, e)

\* The members of a sequence are its values.
LEMMA MembersAre ==
    ASSUME NEW s \in Seq(Events)
    PROVE  /\ \A e : InSeq(e, s) <=> \E i \in 1..Len(s) : s[i] = e
           /\ \A e : InSeq(e, s) => e \in Events
           /\ \A e : ~InSeq(e, <<>>)
  BY LenProperties, ElementOfSeq, EmptySeq DEF InSeq

\* Appending an event adds it and nothing else.
LEMMA AppendAdds ==
    ASSUME NEW s \in Seq(Events), NEW e \in Events
    PROVE  /\ Append(s, e) \in Seq(Events)
           /\ \A d : InSeq(d, Append(s, e)) <=> InSeq(d, s) \/ d = e
           /\ Ordered(s) /\ AllBefore(s, e) => Ordered(Append(s, e))
  <1>1. /\ Append(s, e) \in Seq(Events) /\ Len(Append(s, e)) = Len(s) + 1 /\ Len(s) \in Nat
        /\ \A i \in 1..Len(s) : Append(s, e)[i] = s[i] /\ s[i] \in Events
        /\ Append(s, e)[Len(s) + 1] = e
    BY AppendProperties, LenProperties, ElementOfSeq
  <1>2. ASSUME NEW d PROVE InSeq(d, Append(s, e)) <=> InSeq(d, s) \/ d = e
    <2> DEFINE t == Append(s, e)
    <2>1. InSeq(d, s) <=> \E i \in 1..Len(s) : s[i] = d
      BY MembersAre
    <2>2. InSeq(d, t) <=> \E i \in 1..Len(t) : t[i] = d
      BY <1>1, MembersAre
    <2>3. \A i \in 1..Len(t) : i \in 1..Len(s) \/ i = Len(s) + 1
      BY <1>1
    <2>4. Len(s) + 1 \in 1..Len(t) /\ \A i \in 1..Len(s) : i \in 1..Len(t)
      BY <1>1
    <2>5. t[Len(s) + 1] = e /\ \A i \in 1..Len(s) : t[i] = s[i]
      BY <1>1
    <2> HIDE DEF t
    <2>6. InSeq(d, t) <=> InSeq(d, s) \/ d = e
      BY <2>1, <2>2, <2>3, <2>4, <2>5
    <2> QED
      BY <2>6 DEF t
  <1>3. ASSUME Ordered(s), AllBefore(s, e) PROVE Ordered(Append(s, e))
    <2> SUFFICES ASSUME NEW i \in 1..(Len(s) + 1), NEW j \in 1..(Len(s) + 1), j < i
                 PROVE  Earlier(Append(s, e)[j], Append(s, e)[i])
      BY <1>1 DEF Ordered
    <2>1. j \in 1..Len(s) /\ (i \in 1..Len(s) \/ i = Len(s) + 1)
      BY <1>1
    <2>2. InSeq(s[j], s) /\ s[j] \in Events
      BY <1>1, <2>1, MembersAre
    <2> QED
      BY <1>1, <1>3, <2>1, <2>2 DEF Ordered, AllBefore
  <1> QED
    BY <1>1, <1>2, <1>3

\* Taking the first event of a sequence leaves the later ones.
LEMMA TailLeaves ==
    ASSUME NEW s \in Seq(Events), s # <<>>
    PROVE  /\ Tail(s) \in Seq(Events) /\ Head(s) \in Events
           /\ \A d : InSeq(d, s) <=> d = Head(s) \/ InSeq(d, Tail(s))
           /\ Ordered(s) => Ordered(Tail(s)) /\ AllAfter(Tail(s), Head(s))
  <1>1. /\ Tail(s) \in Seq(Events) /\ Head(s) \in Events /\ Head(s) = s[1]
        /\ Len(s) \in Nat \ {0} /\ Len(Tail(s)) = Len(s) - 1
        /\ \A i \in 1..Len(Tail(s)) : Tail(s)[i] = s[i+1]
    BY HeadTailProperties, EmptySeq
  <1>2. \A i \in 1..Len(Tail(s)) : i + 1 \in 1..Len(s) /\ 1 < i + 1
    BY <1>1
  <1>3. ASSUME NEW d PROVE InSeq(d, s) <=> d = Head(s) \/ InSeq(d, Tail(s))
    <2>1. ASSUME NEW i \in 1..Len(s), s[i] = d PROVE d = Head(s) \/ InSeq(d, Tail(s))
      <3>1. CASE i = 1
        BY <1>1, <2>1, <3>1
      <3>2. CASE i # 1
        <4>1. i - 1 \in 1..Len(Tail(s)) /\ (i - 1) + 1 = i
          BY <1>1, <3>2
        <4>2. Tail(s)[i-1] = d
          BY <1>1, <2>1, <4>1
        <4> QED
          BY <1>1, <4>1, <4>2, MembersAre
      <3> QED
        BY <3>1, <3>2
    <2>2. ASSUME NEW i \in 1..Len(Tail(s)), Tail(s)[i] = d PROVE InSeq(d, s)
      BY <1>1, <1>2, <2>2, MembersAre
    <2>3. InSeq(Head(s), s)
      <3>1. 1 \in 1..Len(s)
        BY <1>1
      <3> QED
        BY <1>1, <3>1, MembersAre
    <2>4. InSeq(d, s) => \E i \in 1..Len(s) : s[i] = d
      BY MembersAre
    <2>5. InSeq(d, Tail(s)) => \E i \in 1..Len(Tail(s)) : Tail(s)[i] = d
      BY <1>1, MembersAre
    <2> QED
      BY <2>1, <2>2, <2>3, <2>4, <2>5
  <1>4. ASSUME Ordered(s) PROVE Ordered(Tail(s)) /\ AllAfter(Tail(s), Head(s))
    <2>1. ASSUME NEW i \in 1..Len(Tail(s)), NEW j \in 1..Len(Tail(s)), j < i
          PROVE  Earlier(Tail(s)[j], Tail(s)[i])
      <3>1. j + 1 < i + 1 /\ i + 1 \in 1..Len(s) /\ j + 1 \in 1..Len(s)
        BY <1>1, <2>1
      <3> QED
        BY <1>1, <1>4, <3>1 DEF Ordered
    <2>2. ASSUME NEW d \in Events, InSeq(d, Tail(s)) PROVE Earlier(Head(s), d)
      <3>1. PICK i \in 1..Len(Tail(s)) : Tail(s)[i] = d
        BY <1>1, <2>2, MembersAre
      <3>2. 1 \in 1..Len(s)
        BY <1>1
      <3> QED
        BY <1>1, <1>2, <1>4, <3>1, <3>2 DEF Ordered
    <2> QED
      BY <2>1, <2>2 DEF Ordered, AllAfter
  <1> QED
    BY <1>1, <1>3, <1>4

\* The members of two sequences in one; the first of them keeps the order.
LEMMA ConcatJoins ==
    ASSUME NEW s \in Seq(Events), NEW t \in Seq(Events)
    PROVE  /\ s \o t \in Seq(Events)
           /\ \A d : InSeq(d, s \o t) <=> InSeq(d, s) \/ InSeq(d, t)
           /\ Ordered(s \o t) => Ordered(s)
           /\ s \o <<>> = s
  <1>1. /\ s \o t \in Seq(Events) /\ Len(s \o t) = Len(s) + Len(t) /\ Len(s) \in Nat /\ Len(t) \in Nat
        /\ \A i \in 1..(Len(s) + Len(t)) :
              (s \o t)[i] = IF i <= Len(s) THEN s[i] ELSE t[i - Len(s)]
    BY ConcatProperties, LenProperties
  <1>2. \A i \in 1..Len(s) : i \in 1..Len(s \o t) /\ (s \o t)[i] = s[i]
    BY <1>1
  <1>3. \A i \in 1..Len(t) : i + Len(s) \in 1..Len(s \o t) /\ (s \o t)[i + Len(s)] = t[i]
    <2> TAKE i \in 1..Len(t)
    <2>1. i + Len(s) \in 1..(Len(s) + Len(t)) /\ ~(i + Len(s) <= Len(s)) /\ (i + Len(s)) - Len(s) = i
      BY <1>1
    <2> QED
      BY <1>1, <2>1
  <1>4. ASSUME NEW i \in 1..Len(s \o t)
        PROVE  \/ i \in 1..Len(s) /\ (s \o t)[i] = s[i]
               \/ i - Len(s) \in 1..Len(t) /\ (s \o t)[i] = t[i - Len(s)]
    BY <1>1
  <1>5. ASSUME NEW d PROVE InSeq(d, s \o t) <=> InSeq(d, s) \/ InSeq(d, t)
    <2> DEFINE u == s \o t
    <2>1. /\ InSeq(d, s) <=> \E i \in 1..Len(s) : s[i] = d
          /\ InSeq(d, t) <=> \E i \in 1..Len(t) : t[i] = d
          /\ InSeq(d, u) <=> \E i \in 1..Len(u) : u[i] = d
      BY <1>1, MembersAre
    <2>2. /\ \A i \in 1..Len(s) : i \in 1..Len(u) /\ u[i] = s[i]
          /\ \A i \in 1..Len(t) : i + Len(s) \in 1..Len(u) /\ u[i + Len(s)] = t[i]
          /\ \A i \in 1..Len(u) : \/ i \in 1..Len(s) /\ u[i] = s[i]
                                  \/ i - Len(s) \in 1..Len(t) /\ u[i] = t[i - Len(s)]
      BY <1>2, <1>3, <1>4
    <2> HIDE DEF u
    <2>3. InSeq(d, u) <=> InSeq(d, s) \/ InSeq(d, t)
      BY <2>1, <2>2
    <2> QED
      BY <2>3 DEF u
  <1>6. Ordered(s \o t) => Ordered(s)
    BY <1>2 DEF Ordered
  <1> QED
    BY <1>1, <1>5, <1>6, ConcatEmptySeq

\* Collecting an event puts it behind all that the client was given.
LEMMA CollectAppends ==
    ASSUME NEW s \in Seq(Events), NEW t \in Seq(Events), NEW e \in Events
    PROVE  s \o Append(t, e) = Append(s \o t, e)
  <1>1. /\ Append(t, e) = t \o <<e>> /\ Append(s \o t, e) = (s \o t) \o <<e>>
        /\ <<e>> \in Seq(Events) /\ s \o t \in Seq(Events)
    BY AppendIsConcat, ConcatProperties, EmptySeq
  <1> QED
    BY <1>1, ConcatAssociative

------------------------------------------------------------------------------
(* The invariant. *)

\* What is on the wire belongs to an event that has been begun, on the connection to
\* one listener, and only a whole frame is reported as written.
RecorderInv ==
    /\ \A r \in Recorders :
          at[r] \in {"resolving", "waiting", "encoding", "writing"} => Current(r) \in Events
    /\ \A e \in Events : e[2] > sent[e[1]] => event[e].wire = "none"
    /\ \A r \in Recorders : at[r] \in {"resolving", "waiting"} => event[Current(r)].wire = "none"
    /\ \A r \in Recorders : at[r] = "waiting" => event[Current(r)].to \in Listeners
    /\ \A e \in Events : event[e].wire # "none" => event[e].to \in Listeners
    /\ destination = "socket" =>
          \A e \in Events : event[e].outcome = "ok" => event[e].wire = "whole"

\* A client holds an event only while it reads it, and nothing before its first call.
PlaceInv(l) ==
    /\ client[l].at = "reading" <=> client[l].reading # None
    /\ client[l].at \in {"absent", "binding", "bound"} => client[l].collected = <<>>

\* The loop accepts only after it has looked at the deadline.
LateInv(l) ==
    /\ client[l].late \in 0..1
    /\ ~client[l].expired \/ client[l].at \in {"accepting", "sleeping"} => client[l].late = 0

\* The client has e, in its kernel's backlog, in its hands, or among what it was given.
Has(l, e) == InSeq(e, backlog[l]) \/ client[l].reading = e \/ InSeq(e, Given(l))

\* A client has only events of its own connections, and was given only whole ones.
SourceInv(l) ==
    \A e \in Events :
        /\ Has(l, e) => event[e].wire # "none" /\ event[e].to = l
        /\ InSeq(e, Given(l)) => event[e].wire = "whole"

\* A client has every event of its connections, unless it is gone or a call failed.
KeptInv(l) ==
    \A e \in Events : event[e].wire # "none" /\ event[e].to = l =>
        client[l].at = "gone" \/ client[l].failed \/ Has(l, e)

\* What it was given comes before what it reads, and that before what still waits.
OrderInv(l) ==
    /\ Ordered(Given(l)) /\ Ordered(backlog[l]) /\ Precedes(Given(l), backlog[l])
    /\ client[l].reading # None =>
          AllBefore(Given(l), client[l].reading) /\ AllAfter(backlog[l], client[l].reading)

ListenerInv(l) == PlaceInv(l) /\ LateInv(l) /\ SourceInv(l) /\ KeptInv(l) /\ OrderInv(l)

Inv == TypeOK /\ RecorderInv /\ \A l \in Listeners : ListenerInv(l)

\* The parts of the types that steps rely on.
LEMMA Types ==
    ASSUME TypeOK
    PROVE  /\ at \in [Recorders -> RecorderPlaces] /\ sent \in [Recorders -> 0..EventMax]
           /\ event \in [Events -> EventState] /\ client \in [Listeners -> ClientState]
           /\ backlog \in [Listeners -> Seq(Events)]
           /\ \A l \in Listeners :
                 /\ client[l].collected \in Seq(Events) /\ client[l].given \in Seq(Events)
                 /\ Given(l) \in Seq(Events) /\ backlog[l] \in Seq(Events)
                 /\ client[l].reading \in Events \cup {None}
  <1>1. \A l \in Listeners : /\ client[l].collected \in Seq(Events) /\ client[l].given \in Seq(Events)
                             /\ client[l].reading \in Events \cup {None}
    BY DEF TypeOK, ClientState
  <1>2. \A l \in Listeners : Given(l) \in Seq(Events)
    BY <1>1, ConcatJoins DEF Given
  <1> QED
    BY <1>1, <1>2 DEF TypeOK

------------------------------------------------------------------------------
(* The recorders. *)

RecorderStep(r) ==
    \/ RecordInMemory(r) \/ RecordDisabled(r) \/ Record(r)
    \/ Resolve(r) \/ Connect(r) \/ Encode(r) \/ Write(r) \/ Finish(r) \/ Kill(r)

\* Setting the outcome of one event leaves its other fields and the other events.
LEMMA SetOutcome ==
    ASSUME event \in [Events -> EventState], NEW e \in Events, NEW out \in {"none", "ok", "error"},
           event' = [event EXCEPT ![e].outcome = out]
    PROVE  /\ event' \in [Events -> EventState]
           /\ \A d \in Events \ {e} : event'[d] = event[d]
           /\ event'[e].outcome = out /\ event'[e].to = event[e].to /\ event'[e].wire = event[e].wire
  <1>1. event[e] \in EventState /\ event'[e] = [event[e] EXCEPT !.outcome = out]
    OBVIOUS
  <1>2. /\ event'[e] \in EventState /\ event'[e].outcome = out
        /\ event'[e].to = event[e].to /\ event'[e].wire = event[e].wire
    BY <1>1 DEF EventState
  <1> QED
    BY <1>2

\* So does finding its listener.
LEMMA SetTo ==
    ASSUME event \in [Events -> EventState], NEW e \in Events, NEW l \in Listeners,
           event' = [event EXCEPT ![e].to = l]
    PROVE  /\ event' \in [Events -> EventState]
           /\ \A d \in Events \ {e} : event'[d] = event[d]
           /\ event'[e].to = l /\ event'[e].outcome = event[e].outcome /\ event'[e].wire = event[e].wire
  <1>1. event[e] \in EventState /\ event'[e] = [event[e] EXCEPT !.to = l]
    OBVIOUS
  <1>2. /\ event'[e] \in EventState /\ event'[e].to = l
        /\ event'[e].outcome = event[e].outcome /\ event'[e].wire = event[e].wire
    BY <1>1 DEF EventState
  <1> QED
    BY <1>2

\* So does writing a part of its frame.
LEMMA SetWire ==
    ASSUME event \in [Events -> EventState], NEW e \in Events, NEW part \in {"none", "open", "whole"},
           event' = [event EXCEPT ![e].wire = part]
    PROVE  /\ event' \in [Events -> EventState]
           /\ \A d \in Events \ {e} : event'[d] = event[d]
           /\ event'[e].wire = part /\ event'[e].to = event[e].to /\ event'[e].outcome = event[e].outcome
  <1>1. event[e] \in EventState /\ event'[e] = [event[e] EXCEPT !.wire = part]
    OBVIOUS
  <1>2. /\ event'[e] \in EventState /\ event'[e].wire = part
        /\ event'[e].to = event[e].to /\ event'[e].outcome = event[e].outcome
    BY <1>1 DEF EventState
  <1> QED
    BY <1>2

\* An event that is begun is within the workload.
LEMMA BegunEvent ==
    ASSUME TypeOK, NEW r \in Recorders, NEW where, Begins(r, where)
    PROVE  /\ sent[r] + 1 \in 1..EventMax /\ <<r, sent[r] + 1>> \in Events
           /\ sent' = [sent EXCEPT ![r] = @ + 1] /\ sent' \in [Recorders -> 0..EventMax]
  <1>1. /\ workload.events \in [Recorders -> 0..EventMax] /\ sent \in [Recorders -> 0..EventMax]
        /\ EventMax \in Nat
    BY TraceAssumption DEF TypeOK
  <1> QED
    BY <1>1 DEF Begins, Events

\* The recorders' steps keep the types.
LEMMA RecorderKeepsTypes ==
    ASSUME Inv, NEW r \in Recorders, RecorderStep(r)
    PROVE  TypeOK'
  <1>1. /\ at \in [Recorders -> RecorderPlaces] /\ sent \in [Recorders -> 0..EventMax]
        /\ event \in [Events -> EventState] /\ client \in [Listeners -> ClientState]
        /\ backlog \in [Listeners -> Seq(Events)] /\ memory \in Seq(Events)
    BY DEF Inv, TypeOK
  <1>2. CASE RecordInMemory(r)
    <2>1. sent' \in [Recorders -> 0..EventMax] /\ <<r, sent[r] + 1>> \in Events
      BY <1>2, BegunEvent DEF RecordInMemory, Inv
    <2>2. Append(memory, <<r, sent[r] + 1>>) \in Seq(Events)
      BY <1>1, <2>1, AppendProperties
    <2>3. memory' \in Seq(Events)
      BY <1>1, <1>2, <2>2 DEF RecordInMemory
    <2>4. at' \in [Recorders -> RecorderPlaces] /\ event' \in [Events -> EventState]
      BY <1>1, <1>2, <2>1, SetOutcome DEF RecordInMemory, Moves, RecorderPlaces
    <2> QED
      BY <1>2, <2>1, <2>3, <2>4 DEF RecordInMemory, Begins, Inv, TypeOK
  <1>3. CASE RecordDisabled(r) \/ Record(r)
    <2>1. sent' \in [Recorders -> 0..EventMax] /\ <<r, sent[r] + 1>> \in Events
      BY <1>3, BegunEvent DEF RecordDisabled, Record, Inv
    <2>2. /\ at' \in [Recorders -> RecorderPlaces] /\ event' \in [Events -> EventState]
          /\ UNCHANGED memory
      BY <1>1, <1>3, <2>1, SetOutcome DEF RecordDisabled, Record, Moves, RecorderPlaces
    <2> QED
      BY <1>3, <2>1, <2>2 DEF RecordDisabled, Record, Begins, Inv, TypeOK
  <1>4. CASE Resolve(r)
    <2>1. at' \in [Recorders -> RecorderPlaces] /\ event' \in [Events -> EventState]
      <3>1. Current(r) \in Events
        BY <1>4 DEF Resolve, Inv, RecorderInv
      <3> QED
        BY <1>1, <1>4, <3>1, SetTo, SetOutcome DEF Resolve, Found, Ends, Moves, RecorderPlaces
    <2> QED
      BY <1>4, <2>1 DEF Resolve, logVars, Inv, TypeOK
  <1>5. CASE Connect(r)
    <2>1. at' \in [Recorders -> RecorderPlaces] /\ event' \in [Events -> EventState]
      <3>1. Current(r) \in Events
        BY <1>5 DEF Connect, Inv, RecorderInv
      <3> QED
        BY <1>1, <1>5, <3>1, SetWire, SetOutcome DEF Connect, Ends, Moves, RecorderPlaces
    <2>2. Current(r) \in Events /\ event[Current(r)].to \in Listeners
      BY <1>5 DEF Connect, Inv, RecorderInv
    <2>3. Append(backlog[event[Current(r)].to], Current(r)) \in Seq(Events)
      BY <1>1, <2>2, AppendProperties
    <2>4. backlog' \in [Listeners -> Seq(Events)]
      BY <1>1, <1>5, <2>2, <2>3 DEF Connect
    <2> QED
      BY <1>5, <2>1, <2>4 DEF Connect, logVars, Inv, TypeOK
  <1>6. CASE Encode(r) \/ Write(r) \/ Finish(r) \/ Kill(r)
    <2>1. at' \in [Recorders -> RecorderPlaces]
      BY <1>1, <1>6 DEF Encode, Write, Finish, Kill, Ends, Moves, RecorderPlaces
    <2>2. event' \in [Events -> EventState]
      <3>1. UNCHANGED event \/ Current(r) \in Events
        BY <1>6 DEF Encode, Write, Finish, Kill, Inv, RecorderInv
      <3> QED
        BY <1>1, <1>6, <3>1, SetWire, SetOutcome DEF Encode, Write, Finish, Kill, Ends
    <2> QED
      BY <1>6, <2>1, <2>2 DEF Encode, Write, Finish, Kill, logVars, Inv, TypeOK
  <1> QED
    BY <1>2, <1>3, <1>4, <1>5, <1>6 DEF RecorderStep

\* A recorder between begin and end of an event moves on, and only that event changes.
LEMMA RecorderMoves ==
    ASSUME Inv, NEW r \in Recorders, UNCHANGED <<sent, destination>>, Current(r) \in Events,
           NEW place, Moves(r, place),
           \A e \in Events \ {Current(r)} : event'[e] = event[e],
           event[Current(r)].wire # "none" => event'[Current(r)].to = event[Current(r)].to,
           event'[Current(r)].wire # "none" => event'[Current(r)].to \in Listeners,
           destination = "socket" /\ event'[Current(r)].outcome = "ok"
               => event'[Current(r)].wire = "whole",
           place \in {"resolving", "waiting"} => event'[Current(r)].wire = "none",
           place = "waiting" => event'[Current(r)].to \in Listeners
    PROVE  RecorderInv'
  <1>1. /\ at'[r] = place /\ \A s \in Recorders \ {r} : at'[s] = at[s]
        /\ Current(r)[1] = r /\ Current(r)[2] = sent[r] /\ Current(r)' = Current(r)
        /\ \A s \in Recorders \ {r} : Current(s)' = Current(s) /\ Current(s) # Current(r)
    BY DEF Moves, Current, Inv, TypeOK
  <1>2. sent[r] \in Nat /\ ~(sent[r] > sent[r])
    BY TraceAssumption DEF Inv, TypeOK
  <1>3. \A e \in Events : e[2] > sent'[e[1]] => event'[e].wire = "none"
    <2> SUFFICES ASSUME NEW e \in Events, e[2] > sent[e[1]] PROVE event'[e].wire = "none"
      OBVIOUS
    <2>1. e # Current(r)
      BY <1>1, <1>2
    <2> QED
      BY <2>1 DEF Inv, RecorderInv
  <1>4. \A s \in Recorders :
           at'[s] \in {"resolving", "waiting", "encoding", "writing"} => Current(s)' \in Events
    BY <1>1 DEF Inv, RecorderInv
  <1>5. \A s \in Recorders :
           /\ at'[s] \in {"resolving", "waiting"} => event'[Current(s)'].wire = "none"
           /\ at'[s] = "waiting" => event'[Current(s)'].to \in Listeners
    <2> SUFFICES ASSUME NEW s \in Recorders, at'[s] \in {"resolving", "waiting"}
                 PROVE  /\ event'[Current(s)'].wire = "none"
                        /\ at'[s] = "waiting" => event'[Current(s)'].to \in Listeners
      OBVIOUS
    <2>1. CASE s = r
      BY <1>1, <2>1
    <2>2. CASE s # r
      <3>1. /\ at'[s] = at[s] /\ Current(s)' = Current(s) /\ Current(s) \in Events \ {Current(r)}
            /\ event[Current(s)].wire = "none"
            /\ at[s] = "waiting" => event[Current(s)].to \in Listeners
        BY <1>1, <2>2 DEF Inv, RecorderInv
      <3>2. event'[Current(s)] = event[Current(s)]
        BY <3>1
      <3> QED
        BY <3>1, <3>2
    <2> QED
      BY <2>1, <2>2
  <1>6. \A e \in Events :
           /\ event'[e].wire # "none" => event'[e].to \in Listeners
           /\ destination' = "socket" /\ event'[e].outcome = "ok" => event'[e].wire = "whole"
    BY DEF Inv, RecorderInv
  <1> QED
    BY <1>3, <1>4, <1>5, <1>6 DEF RecorderInv

\* A recorder is at one event, and no other event can be written.
LEMMA RecorderKeepsWire ==
    ASSUME Inv, NEW r \in Recorders, RecorderStep(r)
    PROVE  RecorderInv'
  <1> DEFINE e == Current(r)
  <1>1. /\ at \in [Recorders -> RecorderPlaces] /\ sent \in [Recorders -> 0..EventMax]
        /\ event \in [Events -> EventState]
        /\ \A d \in Events : d = <<d[1], d[2]>> /\ d[1] \in Recorders /\ d[2] \in 1..EventMax
        /\ EventMax \in Nat
    BY TraceAssumption DEF Inv, TypeOK, Events
  <1>2. CASE RecordInMemory(r) \/ RecordDisabled(r)
    <2>1. /\ sent' = [sent EXCEPT ![r] = @ + 1] /\ destination # "socket" /\ UNCHANGED destination
          /\ <<r, sent[r] + 1>> \in Events
      BY <1>2, BegunEvent DEF RecordInMemory, RecordDisabled, Begins, Inv
    <2>2. /\ \A d \in Events : event'[d].wire = event[d].wire /\ event'[d].to = event[d].to
          /\ at[r] = "idle" /\ at'[r] \in {"idle", "dead"}
          /\ \A s \in Recorders \ {r} : at'[s] = at[s]
      <3>1. UNCHANGED event \/ event' = [event EXCEPT ![<<r, sent[r] + 1>>].outcome = "ok"]
        BY <1>2 DEF RecordInMemory, RecordDisabled
      <3>2. \A d \in Events : event'[d].wire = event[d].wire /\ event'[d].to = event[d].to
        <4>1. CASE event' = [event EXCEPT ![<<r, sent[r] + 1>>].outcome = "ok"]
          <5>1. PICK d \in Events : d = <<r, sent[r] + 1>>
            BY <2>1
          <5>2. event' = [event EXCEPT ![d].outcome = "ok"]
            BY <4>1, <5>1
          <5>3. /\ \A f \in Events \ {d} : event'[f] = event[f]
                /\ event'[d].to = event[d].to /\ event'[d].wire = event[d].wire
            BY <1>1, <5>2, SetOutcome
          <5> QED
            BY <5>3
        <4> QED
          BY <3>1, <4>1
      <3>3. at[r] = "idle" /\ (UNCHANGED at \/ Moves(r, "dead"))
        BY <1>2 DEF RecordInMemory, RecordDisabled, Begins
      <3> QED
        BY <1>1, <3>2, <3>3 DEF Moves
    <2>3. \A s \in Recorders \ {r} : Current(s)' = Current(s)
      BY <2>1 DEF Current
    <2>4. \A d \in Events : d[2] > sent'[d[1]] => d[2] > sent[d[1]]
      BY <1>1, <2>1
    <2> QED
      BY <2>1, <2>2, <2>3, <2>4 DEF Inv, RecorderInv
  <1>3. CASE Record(r)
    <2>1. /\ <<r, sent[r] + 1>> \in Events /\ sent' = [sent EXCEPT ![r] = @ + 1]
          /\ at' = [at EXCEPT ![r] = "resolving"] /\ UNCHANGED <<destination, event>>
      BY <1>3, BegunEvent DEF Record, Begins, Moves, Inv
    <2>2. event[<<r, sent[r] + 1>>].wire = "none"
      BY <1>1, <2>1 DEF Inv, RecorderInv
    <2>3. /\ \A s \in Recorders \ {r} : Current(s)' = Current(s) /\ at'[s] = at[s]
          /\ Current(r)' = <<r, sent[r] + 1>> /\ at'[r] = "resolving"
      BY <1>1, <2>1 DEF Current
    <2>4. \A d \in Events : d[2] > sent'[d[1]] => d[2] > sent[d[1]]
      BY <1>1, <2>1
    <2> QED
      BY <2>1, <2>2, <2>3, <2>4 DEF Inv, RecorderInv
  <1>4. CASE Resolve(r)
    <2>1. /\ UNCHANGED <<sent, destination>> /\ e \in Events /\ event[e].wire = "none"
          /\ destination = "socket" => event[e].outcome # "ok"
      BY <1>4 DEF Resolve, logVars, Inv, RecorderInv
    <2>2. CASE path \in Listeners /\ Found(r)
      <3>1. /\ Moves(r, "waiting") /\ event'[e].to = path /\ event'[e].wire = "none"
            /\ event'[e].outcome = event[e].outcome
            /\ \A d \in Events \ {e} : event'[d] = event[d]
        BY <1>1, <2>1, <2>2, SetTo DEF Found
      <3> QED
        BY <2>1, <2>2, <3>1, RecorderMoves
    <2>3. CASE Ends(r, "error")
      <3>1. /\ Moves(r, "idle") /\ event'[e].to = event[e].to /\ event'[e].wire = "none"
            /\ event'[e].outcome = "error" /\ \A d \in Events \ {e} : event'[d] = event[d]
        BY <1>1, <2>1, <2>3, SetOutcome DEF Ends
      <3> QED
        BY <2>1, <3>1, RecorderMoves
    <2> QED
      BY <1>4, <2>2, <2>3 DEF Resolve
  <1>5. CASE Connect(r)
    <2>1. /\ UNCHANGED <<sent, destination>> /\ e \in Events /\ event[e].wire = "none"
          /\ event[e].to \in Listeners
          /\ destination = "socket" => event[e].outcome # "ok"
      BY <1>5 DEF Connect, logVars, Inv, RecorderInv
    <2>2. CASE event' = [event EXCEPT ![e].wire = "open"] /\ Moves(r, "encoding")
      <3>1. /\ event'[e].to = event[e].to /\ event'[e].outcome = event[e].outcome
            /\ \A d \in Events \ {e} : event'[d] = event[d]
        BY <1>1, <2>1, <2>2, SetWire
      <3> QED
        BY <2>1, <2>2, <3>1, RecorderMoves
    <2>3. CASE Ends(r, "error")
      <3>1. /\ Moves(r, "idle") /\ event'[e].to = event[e].to /\ event'[e].wire = "none"
            /\ event'[e].outcome = "error" /\ \A d \in Events \ {e} : event'[d] = event[d]
        BY <1>1, <2>1, <2>3, SetOutcome DEF Ends
      <3> QED
        BY <2>1, <3>1, RecorderMoves
    <2> QED
      BY <1>5, <2>2, <2>3 DEF Connect
  <1>6. CASE Encode(r) \/ Write(r) \/ Finish(r)
    <2>1. /\ UNCHANGED <<sent, destination>> /\ e \in Events
          /\ event[e].wire # "none" => event[e].to \in Listeners
          /\ destination = "socket" /\ event[e].outcome = "ok" => event[e].wire = "whole"
      BY <1>6 DEF Encode, Write, Finish, logVars, Inv, RecorderInv
    <2>2. ASSUME NEW out \in {"ok", "error"}, Ends(r, out), out = "ok" => event[e].wire = "whole"
          PROVE  RecorderInv'
      <3>1. /\ Moves(r, "idle") /\ event'[e].to = event[e].to /\ event'[e].wire = event[e].wire
            /\ event'[e].outcome = out /\ \A d \in Events \ {e} : event'[d] = event[d]
        BY <1>1, <2>1, <2>2, SetOutcome DEF Ends
      <3> QED
        BY <2>1, <2>2, <3>1, RecorderMoves
    <2>3. CASE UNCHANGED event /\ Moves(r, "writing")
      BY <2>1, <2>3, RecorderMoves
    <2>4. CASE event[e].wire = "open" /\ event' = [event EXCEPT ![e].wire = "whole"] /\ UNCHANGED at
               /\ at[r] = "writing"
      <3>1. /\ event'[e].to = event[e].to /\ event'[e].wire = "whole"
            /\ \A d \in Events \ {e} : event'[d] = event[d]
            /\ Moves(r, "writing")
        BY <1>1, <2>1, <2>4, SetWire DEF Moves
      <3> QED
        BY <2>1, <2>4, <3>1, RecorderMoves
    <2> QED
      BY <1>6, <2>2, <2>3, <2>4 DEF Encode, Write, Finish
  <1>7. CASE Kill(r)
    <2>1. UNCHANGED <<sent, destination, event>> /\ Moves(r, "dead")
      BY <1>7 DEF Kill, logVars
    <2>2. /\ at'[r] = "dead" /\ \A s \in Recorders \ {r} : at'[s] = at[s]
          /\ \A s \in Recorders : Current(s)' = Current(s)
      BY <1>1, <2>1 DEF Moves, Current
    <2> QED
      BY <2>1, <2>2 DEF Inv, RecorderInv
  <1> QED
    BY <1>2, <1>3, <1>4, <1>5, <1>6, <1>7 DEF RecorderStep

------------------------------------------------------------------------------
(* The clients, while recorders move. *)

\* What a listener's invariant says of its client is not about the recorders.
LEMMA RecorderAlone ==
    ASSUME Inv, NEW l \in Listeners, UNCHANGED <<client, backlog>>,
           \A e \in Events :
              /\ event'[e].wire = "none" <=> event[e].wire = "none"
              /\ event[e].wire # "none" => event'[e].to = event[e].to
              /\ event[e].wire = "whole" => event'[e].wire = "whole"
    PROVE  ListenerInv(l)'
  <1>1. PlaceInv(l)' /\ LateInv(l)'
    BY DEF Inv, ListenerInv, PlaceInv, LateInv
  <1>2. Given(l)' = Given(l)
    BY DEF Given
  <1>3. \A e : Has(l, e)' <=> Has(l, e)
    BY <1>2 DEF Has
  <1>4. SourceInv(l)' /\ KeptInv(l)'
    BY <1>2, <1>3 DEF Inv, ListenerInv, SourceInv, KeptInv
  <1>5. OrderInv(l)'
    BY <1>2 DEF Inv, ListenerInv, OrderInv
  <1> QED
    BY <1>1, <1>4, <1>5 DEF ListenerInv

\* A connection joins the end of a backlog: its event is later than what the client
\* has of the same recorder.
LEMMA ConnectKeepsOrder ==
    ASSUME Inv, NEW r \in Recorders, Connect(r), NEW l \in Listeners
    PROVE  ListenerInv(l)'
  <1> DEFINE e == Current(r)
             k == event[e].to
  <1>1. /\ at[r] = "waiting" /\ e \in Events /\ event[e].wire = "none" /\ k \in Listeners
        /\ UNCHANGED client
    BY DEF Connect, Inv, RecorderInv
  <1>2. CASE Ends(r, "error") /\ UNCHANGED backlog
    <2>1. /\ \A d \in Events \ {e} : event'[d] = event[d]
          /\ event'[e].to = event[e].to /\ event'[e].wire = event[e].wire
      BY <1>1, <1>2, SetOutcome, Types DEF Ends, Inv
    <2> QED
      BY <1>1, <1>2, <2>1, RecorderAlone
  <1>3. CASE /\ backlog' = [backlog EXCEPT ![k] = Append(@, e)]
             /\ event' = [event EXCEPT ![e].wire = "open"]
             /\ ~Reset(e)
    <2>1. /\ \A d \in Events \ {e} : event'[d] = event[d]
          /\ event'[e].to = k /\ event'[e].wire = "open"
      BY <1>1, <1>3, SetWire, Types DEF Inv
    <2>2. backlog \in [Listeners -> Seq(Events)] /\ backlog[l] \in Seq(Events) /\ Given(l) \in Seq(Events)
      BY Types DEF Inv
    <2>3. Given(l)' = Given(l) /\ PlaceInv(l)' /\ LateInv(l)'
      BY <1>1 DEF Given, Inv, ListenerInv, PlaceInv, LateInv
    <2>4. \A d \in Events : Has(l, d) => d # e /\ event[d].wire # "none" /\ event[d].to = l
      BY <1>1 DEF Inv, ListenerInv, SourceInv
    <2>5. CASE l # k
      <3>1. backlog'[l] = backlog[l]
        BY <1>3, <2>2, <2>5
      <3>2. \A d : Has(l, d)' <=> Has(l, d)
        BY <1>1, <2>3, <3>1 DEF Has
      <3>3. SourceInv(l)'
        BY <2>1, <2>3, <2>4, <3>2 DEF Inv, ListenerInv, SourceInv, Has
      <3>4. KeptInv(l)'
        BY <1>1, <2>1, <2>5, <3>2 DEF Inv, ListenerInv, KeptInv
      <3>5. OrderInv(l)'
        BY <1>1, <2>3, <3>1 DEF Inv, ListenerInv, OrderInv
      <3> QED
        BY <2>3, <3>3, <3>4, <3>5 DEF ListenerInv
    <2>6. CASE l = k
      <3>1. /\ backlog'[l] = Append(backlog[l], e)
            /\ \A d : InSeq(d, backlog'[l]) <=> InSeq(d, backlog[l]) \/ d = e
        BY <1>1, <1>3, <2>2, <2>6, AppendAdds
      <3>2. \A d : Has(l, d)' <=> Has(l, d) \/ d = e
        BY <1>1, <2>3, <3>1 DEF Has
      <3>3. \A d \in Events : Has(l, d) => Earlier(d, e)
        <4> SUFFICES ASSUME NEW d \in Events, Has(l, d), d[1] = e[1] PROVE d[2] < e[2]
          BY DEF Earlier
        <4>1. d # e /\ event[d].wire # "none"
          BY <2>4
        <4>2. /\ e = <<r, sent[r]>> /\ d = <<r, d[2]>> /\ d[2] \in 1..EventMax
              /\ sent[r] \in 0..EventMax /\ EventMax \in Nat
          BY Types, TraceAssumption DEF Current, Inv, Events
        <4>3. ~(d[2] > sent[r])
          BY <4>1, <4>2 DEF Inv, RecorderInv
        <4> QED
          BY <4>1, <4>2, <4>3
      <3>4. SourceInv(l)'
        BY <2>1, <2>3, <2>4, <2>6, <3>2 DEF Inv, ListenerInv, SourceInv, Has
      <3>5. KeptInv(l)'
        BY <1>1, <2>1, <3>2 DEF Inv, ListenerInv, KeptInv
      <3>6. Ordered(backlog'[l])
        BY <1>1, <2>2, <3>1, <3>3, AppendAdds DEF Inv, ListenerInv, OrderInv, AllBefore, Has
      <3>7. Precedes(Given(l), backlog'[l])
        BY <3>1, <3>3 DEF Inv, ListenerInv, OrderInv, Precedes, Has
      <3>8. client[l].reading # None =>
               AllBefore(Given(l), client[l].reading) /\ AllAfter(backlog'[l], client[l].reading)
        <4>1. client[l].reading # None => Earlier(client[l].reading, e)
          BY <3>3, Types DEF Has, Inv
        <4> QED
          BY <3>1, <4>1 DEF Inv, ListenerInv, OrderInv, AllAfter
      <3>9. OrderInv(l)'
        BY <1>1, <2>3, <3>6, <3>7, <3>8 DEF Inv, ListenerInv, OrderInv
      <3> QED
        BY <2>3, <3>4, <3>5, <3>9 DEF ListenerInv
    <2> QED
      BY <2>5, <2>6
  <1> QED
    BY <1>2, <1>3 DEF Connect

\* The recorders' steps keep what holds of each client.
LEMMA RecorderKeepsClients ==
    ASSUME Inv, NEW r \in Recorders, RecorderStep(r), NEW l \in Listeners
    PROVE  ListenerInv(l)'
  <1>1. CASE RecordInMemory(r) \/ RecordDisabled(r) \/ Record(r)
    <2>1. /\ <<r, sent[r] + 1>> \in Events /\ UNCHANGED <<client, backlog>>
      BY <1>1, BegunEvent DEF RecordInMemory, RecordDisabled, Record, Begins, Inv
    <2>2. PICK d \in Events : d = <<r, sent[r] + 1>>
      BY <2>1
    <2>3. UNCHANGED event \/ event' = [event EXCEPT ![d].outcome = "ok"]
      BY <1>1, <2>2 DEF RecordInMemory, RecordDisabled, Record
    <2>4. CASE event' = [event EXCEPT ![d].outcome = "ok"]
      <3>1. /\ \A f \in Events \ {d} : event'[f] = event[f]
            /\ event'[d].to = event[d].to /\ event'[d].wire = event[d].wire
        BY <2>4, SetOutcome, Types DEF Inv
      <3> QED
        BY <2>1, <3>1, RecorderAlone
    <2> QED
      BY <2>1, <2>3, <2>4, RecorderAlone
  <1>2. CASE Resolve(r) \/ Encode(r) \/ Write(r) \/ Finish(r)
    <2>1. /\ Current(r) \in Events /\ UNCHANGED <<client, backlog>>
      BY <1>2 DEF Resolve, Encode, Write, Finish, Inv, RecorderInv
    <2>2. \/ UNCHANGED event
          \/ \E out \in {"ok", "error"} : event' = [event EXCEPT ![Current(r)].outcome = out]
          \/ /\ event[Current(r)].wire = "none" /\ path \in Listeners
             /\ event' = [event EXCEPT ![Current(r)].to = path]
          \/ /\ event[Current(r)].wire = "open"
             /\ event' = [event EXCEPT ![Current(r)].wire = "whole"]
      BY <1>2 DEF Resolve, Found, Encode, Write, Finish, Ends, Inv, RecorderInv
    <2>3. \A e \in Events :
              /\ event'[e].wire = "none" <=> event[e].wire = "none"
              /\ event[e].wire # "none" => event'[e].to = event[e].to
              /\ event[e].wire = "whole" => event'[e].wire = "whole"
      BY <2>1, <2>2, SetOutcome, SetTo, SetWire, Types DEF Inv
    <2> QED
      BY <2>1, <2>3, RecorderAlone
  <1>3. CASE Kill(r)
    BY <1>3, RecorderAlone DEF Kill
  <1> QED
    BY <1>1, <1>2, <1>3, ConnectKeepsOrder DEF RecorderStep

------------------------------------------------------------------------------
(* The clients. *)

ClientStep(l) ==
    \/ RemoveOld(l) \/ BindPath(l) \/ Collect(l) \/ Deadline(l)
    \/ Check(l) \/ Accept(l) \/ Wake(l) \/ Read(l) \/ CollectFails(l)
    \/ RemovePath(l) \/ Close(l) \/ Crash(l)

\* What a client step makes of the client itself and of its backlog.
LEMMA SetClient ==
    ASSUME Inv, NEW l \in Listeners, NEW c \in ClientState,
           client' = [client EXCEPT ![l] = c]
    PROVE  /\ client' \in [Listeners -> ClientState] /\ client'[l] = c
           /\ \A k \in Listeners \ {l} : client'[k] = client[k]
  BY Types DEF Inv

\* A client that is over is one of nothing collected, nothing read and nothing late.
LEMMA CallOverIs ==
    ASSUME Inv, NEW l \in Listeners
    PROVE  /\ CallOver(client[l]) \in ClientState
           /\ LET c == CallOver(client[l])
              IN /\ c.at = "bound" /\ c.reading = None /\ c.collected = <<>> /\ c.late = 0
                 /\ ~c.expired /\ c.given = client[l].given /\ c.failed = client[l].failed
  <1>1. client[l] \in ClientState /\ <<>> \in Seq(Events) /\ 0 \in 0..LateMax
    BY Types, EmptySeq DEF Inv, LateMax
  <1> DEFINE c == [client[l] EXCEPT !.at = "bound", !.goal = NoGoal, !.expired = FALSE, !.late = 0,
                                    !.reading = None, !.collected = <<>>]
  <1>2. c = CallOver(client[l])
    BY DEF CallOver
  <1>3. /\ c.at = "bound" /\ c.reading = None /\ c.collected = <<>> /\ c.late = 0
        /\ ~c.expired /\ c.given = client[l].given /\ c.failed = client[l].failed
    BY <1>1 DEF ClientState
  <1>4. c \in ClientState
    BY <1>1 DEF ClientState, ListenerPlaces
  <1> HIDE DEF c
  <1> QED
    BY <1>2, <1>3, <1>4

\* The next state of the client of a step, and that the step is no other client's.
LEMMA ClientMoves ==
    ASSUME Inv, NEW l \in Listeners, ClientStep(l)
    PROVE  /\ client' \in [Listeners -> ClientState] /\ backlog' \in [Listeners -> Seq(Events)]
           /\ \A k \in Listeners \ {l} : client'[k] = client[k] /\ backlog'[k] = backlog[k]
           /\ UNCHANGED <<recorderVars, logVars>>
           /\ path' \in Listeners \cup {NoFile, OtherFile}
  <1>1. /\ client \in [Listeners -> ClientState] /\ client[l] \in ClientState
        /\ backlog \in [Listeners -> Seq(Events)] /\ backlog[l] \in Seq(Events)
        /\ client[l].collected \in Seq(Events) /\ client[l].given \in Seq(Events)
        /\ path \in Listeners \cup {NoFile, OtherFile} /\ <<>> \in Seq(Events)
        /\ CallMax \in Nat
    BY Types, EmptySeq, TraceAssumption DEF Inv, TypeOK
  <1> DEFINE Moved == /\ client' \in [Listeners -> ClientState]
                      /\ backlog' \in [Listeners -> Seq(Events)]
                      /\ \A k \in Listeners \ {l} :
                            client'[k] = client[k] /\ backlog'[k] = backlog[k]
                      /\ UNCHANGED <<recorderVars, logVars>>
                      /\ path' \in Listeners \cup {NoFile, OtherFile}
  <1>2. CASE RemoveOld(l) \/ BindPath(l) \/ Wake(l) \/ RemovePath(l)
    <2>1. PICK place \in ListenerPlaces : client' = [client EXCEPT ![l].at = place]
      BY <1>2 DEF RemoveOld, BindPath, Wake, RemovePath, ListenerPlaces, Collecting
    <2>2. client' \in [Listeners -> ClientState] /\ \A k \in Listeners \ {l} : client'[k] = client[k]
      BY <1>1, <2>1 DEF ClientState
    <2> QED
      BY <1>1, <1>2, <2>2 DEF RemoveOld, BindPath, Wake, RemovePath
  <1>3. CASE Collect(l)
    <2>1. PICK goal \in Goals \cup {NoGoal} : Calls(l, goal, <<>>)
      BY <1>3 DEF Collect
    <2>2. client[l].calls + 1 \in 0..CallMax
      <3>1. workload.calls \in 0..CallMax
        BY TraceAssumption DEF Inv, TypeOK
      <3>2. client[l].calls \in 0..CallMax
        BY <1>1 DEF ClientState
      <3> QED
        BY <1>1, <2>1, <3>1, <3>2 DEF Calls
    <2>3. client' \in [Listeners -> ClientState] /\ \A k \in Listeners \ {l} : client'[k] = client[k]
      BY <1>1, <2>1, <2>2 DEF Calls, ClientState, ListenerPlaces, Collecting
    <2> QED
      BY <1>1, <2>1, <2>3 DEF Calls
  <1>4. CASE Deadline(l)
    <2>1. client' \in [Listeners -> ClientState] /\ \A k \in Listeners \ {l} : client'[k] = client[k]
      BY <1>1, <1>4 DEF Deadline, ClientState
    <2> QED
      BY <1>1, <1>4, <2>1 DEF Deadline
  <1>5. CASE Check(l)
    <2>1. client[l].given \o client[l].collected \in Seq(Events)
      BY <1>1, ConcatJoins
    <2>2. client' \in [Listeners -> ClientState] /\ \A k \in Listeners \ {l} : client'[k] = client[k]
      <3>1. CASE Enough(l)
        <4>1. client' = [client EXCEPT ![l] =
                  [CallOver(client[l]) EXCEPT !.given = @ \o client[l].collected]]
          BY <1>1, <1>5, <3>1 DEF Check
        <4>2. CallOver(client[l]) \in ClientState /\ CallOver(client[l]).given = client[l].given
          BY CallOverIs
        <4>3. [CallOver(client[l]) EXCEPT !.given = @ \o client[l].collected] \in ClientState
          BY <2>1, <4>2 DEF ClientState
        <4> QED
          BY <4>1, <4>3, SetClient
      <3>2. CASE ~Enough(l)
        <4>1. client' = [client EXCEPT ![l] = [client[l] EXCEPT !.at = "accepting"]]
          BY <1>1, <1>5, <3>2 DEF Check
        <4>2. [client[l] EXCEPT !.at = "accepting"] \in ClientState
          BY <1>1 DEF ClientState, ListenerPlaces, Collecting
        <4> QED
          BY <4>1, <4>2, SetClient
      <3> QED
        BY <3>1, <3>2
    <2> QED
      BY <1>1, <1>5, <2>2 DEF Check
  <1>6. CASE Accept(l)
    <2>1. CASE TakeNext(l)
      <3>1. Tail(backlog[l]) \in Seq(Events) /\ Head(backlog[l]) \in Events
        BY <1>1, <2>1, TailLeaves DEF TakeNext
      <3>2. IF client[l].expired /\ client[l].late < LateMax
            THEN client[l].late + 1 \in 0..LateMax ELSE client[l].late \in 0..LateMax
        BY <1>1 DEF ClientState, LateMax
      <3>3. client' \in [Listeners -> ClientState] /\ \A k \in Listeners \ {l} : client'[k] = client[k]
        BY <1>1, <2>1, <3>1, <3>2 DEF TakeNext, ClientState, ListenerPlaces, Collecting
      <3> QED
        BY <1>1, <1>6, <2>1, <3>1, <3>3 DEF Accept, TakeNext
    <2>2. CASE Sleep(l)
      <3>1. client' \in [Listeners -> ClientState] /\ \A k \in Listeners \ {l} : client'[k] = client[k]
        BY <1>1, <2>2 DEF Sleep, ClientState, ListenerPlaces, Collecting
      <3> QED
        BY <1>1, <1>6, <2>2, <3>1 DEF Accept, Sleep
    <2> QED
      BY <1>6, <2>1, <2>2 DEF Accept
  <1>7. CASE Read(l)
    <2>1. client[l].reading \in Events
      BY <1>7, Types DEF Read, Inv, ListenerInv, PlaceInv
    <2>2. Append(client[l].collected, client[l].reading) \in Seq(Events)
      BY <1>1, <2>1, AppendProperties
    <2>3. client' \in [Listeners -> ClientState] /\ \A k \in Listeners \ {l} : client'[k] = client[k]
      BY <1>1, <1>7, <2>2 DEF Read, ClientState, ListenerPlaces, Collecting
    <2> QED
      BY <1>1, <1>7, <2>3 DEF Read
  <1>8. CASE CollectFails(l)
    <2>1. client' = [client EXCEPT ![l] = [CallOver(client[l]) EXCEPT !.failed = TRUE]]
      BY <1>1, <1>8 DEF CollectFails
    <2>2. [CallOver(client[l]) EXCEPT !.failed = TRUE] \in ClientState
      BY CallOverIs DEF ClientState
    <2>3. client' \in [Listeners -> ClientState] /\ \A k \in Listeners \ {l} : client'[k] = client[k]
      BY <2>1, <2>2, SetClient
    <2> QED
      BY <1>1, <1>8, <2>3 DEF CollectFails
  <1>9. CASE Close(l) \/ Crash(l)
    <2>1. NewClient("gone") \in ClientState
      BY <1>1 DEF NewClient, ClientState, ListenerPlaces, LateMax
    <2>2. client' = [client EXCEPT ![l] = NewClient("gone")] /\ backlog' = [backlog EXCEPT ![l] = <<>>]
          /\ UNCHANGED <<logVars, path, recorderVars>>
      BY <1>9 DEF Close, Crash, ClientGone
    <2> QED
      BY <1>1, <2>1, <2>2, SetClient
  <1> QED
    BY <1>2, <1>3, <1>4, <1>5, <1>6, <1>7, <1>8, <1>9 DEF ClientStep

\* A step of a client moves no event in another's hands.
LEMMA OthersKeep ==
    ASSUME Inv, NEW k \in Listeners, client'[k] = client[k], backlog'[k] = backlog[k],
           UNCHANGED event
    PROVE  ListenerInv(k)'
  <1>1. Given(k)' = Given(k) /\ \A e : Has(k, e)' <=> Has(k, e)
    BY DEF Given, Has
  <1>2. PlaceInv(k)' /\ LateInv(k)' /\ SourceInv(k)' /\ KeptInv(k)' /\ OrderInv(k)'
    BY <1>1 DEF Inv, ListenerInv, PlaceInv, LateInv, SourceInv, KeptInv, OrderInv
  <1> QED
    BY <1>2 DEF ListenerInv

\* Nor does a step that leaves the client's own events where they are.
LEMMA EventsStay ==
    ASSUME Inv, NEW l \in Listeners, UNCHANGED event, backlog'[l] = backlog[l],
           Given(l)' = Given(l), client'[l].reading = client[l].reading,
           client[l].failed => client'[l].failed, client[l].at = "gone" => client'[l].at = "gone"
    PROVE  SourceInv(l)' /\ KeptInv(l)' /\ OrderInv(l)'
  <1>1. \A e : Has(l, e)' <=> Has(l, e)
    BY DEF Has
  <1> QED
    BY <1>1 DEF Inv, ListenerInv, SourceInv, KeptInv, OrderInv

\* The steps of a client that move no event.
LEMMA QuietKeepsClient ==
    ASSUME Inv, NEW l \in Listeners,
           RemoveOld(l) \/ BindPath(l) \/ Collect(l) \/ Deadline(l) \/ Wake(l) \/ RemovePath(l)
    PROVE  ListenerInv(l)'
  <1>1. client \in [Listeners -> ClientState] /\ client[l] \in ClientState
    BY Types DEF Inv
  <1>2. PlaceInv(l) /\ LateInv(l)
    BY DEF Inv, ListenerInv
  <1>3. UNCHANGED <<event, backlog>>
    BY DEF RemoveOld, BindPath, Collect, Calls, Deadline, Wake, RemovePath, recorderVars
  <1>4. CASE RemoveOld(l) \/ BindPath(l) \/ Wake(l) \/ RemovePath(l)
    <2>1. PICK place \in ListenerPlaces :
              /\ client' = [client EXCEPT ![l].at = place]
              /\ \/ client[l].at \in {"absent", "binding"} /\ place \in {"binding", "bound", "gone"}
                 \/ client[l].at = "sleeping" /\ place = "checking"
                 \/ client[l].at = "bound" /\ place = "closing"
      BY <1>4 DEF RemoveOld, BindPath, Wake, RemovePath, ListenerPlaces, Collecting
    <2>2. /\ client'[l].at = place /\ client'[l].reading = client[l].reading
          /\ client'[l].collected = client[l].collected /\ client'[l].given = client[l].given
          /\ client'[l].failed = client[l].failed /\ client'[l].late = client[l].late
          /\ client'[l].expired = client[l].expired
      BY <1>1, <2>1 DEF ClientState
    <2>3. PlaceInv(l)' /\ LateInv(l)'
      BY <1>2, <2>1, <2>2 DEF PlaceInv, LateInv
    <2>4. SourceInv(l)' /\ KeptInv(l)' /\ OrderInv(l)'
      BY <1>3, <2>1, <2>2, EventsStay DEF Given
    <2> QED
      BY <2>3, <2>4 DEF ListenerInv
  <1>5. CASE Collect(l)
    <2>1. client[l].at = "bound" /\ client[l].collected = <<>>
      BY <1>2, <1>5 DEF Collect, Calls, PlaceInv
    <2>2. /\ client'[l].at = "checking" /\ client'[l].reading = client[l].reading
          /\ client'[l].collected = client[l].collected /\ client'[l].given = client[l].given
          /\ client'[l].failed = client[l].failed /\ client'[l].late = client[l].late
          /\ client'[l].expired = client[l].expired
      <3>1. PICK goal \in Goals \cup {NoGoal} : Calls(l, goal, <<>>)
        BY <1>5 DEF Collect
      <3>2. client' = [client EXCEPT ![l] = [client[l] EXCEPT !.at = "checking", !.calls = @ + 1,
                                                 !.goal = goal, !.collected = <<>>]]
        BY <1>1, <3>1 DEF Calls
      <3> QED
        BY <1>1, <2>1, <3>2 DEF ClientState
    <2>3. PlaceInv(l)' /\ LateInv(l)'
      BY <1>2, <2>1, <2>2 DEF PlaceInv, LateInv
    <2>4. SourceInv(l)' /\ KeptInv(l)' /\ OrderInv(l)'
      BY <1>3, <2>1, <2>2, EventsStay DEF Given
    <2> QED
      BY <2>3, <2>4 DEF ListenerInv
  <1>6. CASE Deadline(l)
    <2>1. /\ client'[l].at = client[l].at /\ client'[l].reading = client[l].reading
          /\ client'[l].collected = client[l].collected /\ client'[l].given = client[l].given
          /\ client'[l].failed = client[l].failed /\ client'[l].late = client[l].late
          /\ client'[l].expired
      BY <1>1, <1>6 DEF Deadline, ClientState
    <2>2. PlaceInv(l)' /\ LateInv(l)'
      BY <1>2, <2>1 DEF PlaceInv, LateInv
    <2>3. SourceInv(l)' /\ KeptInv(l)' /\ OrderInv(l)'
      BY <1>3, <2>1, EventsStay DEF Given
    <2> QED
      BY <2>2, <2>3 DEF ListenerInv
  <1> QED
    BY <1>4, <1>5, <1>6

\* The head of the loop returns what was collected, or goes on to accept: only with
\* the deadline still ahead.
LEMMA CheckKeepsClient ==
    ASSUME Inv, NEW l \in Listeners, Check(l)
    PROVE  ListenerInv(l)'
  <1>1. /\ client \in [Listeners -> ClientState] /\ client[l] \in ClientState
        /\ client[l].collected \in Seq(Events) /\ client[l].given \in Seq(Events)
        /\ Given(l) \in Seq(Events)
    BY Types DEF Inv
  <1>2. PlaceInv(l) /\ LateInv(l) /\ client[l].at = "checking" /\ UNCHANGED <<event, backlog>>
    BY DEF Inv, ListenerInv, Check, recorderVars
  <1>3. client[l].reading = None
    BY <1>2 DEF PlaceInv
  <1>4. CASE Enough(l)
    <2> DEFINE c == CallOver(client[l])
    <2>1. client'[l] = [c EXCEPT !.given = @ \o client[l].collected]
      BY <1>1, <1>4 DEF Check
    <2>2. /\ c \in ClientState /\ c.at = "bound" /\ c.reading = None /\ c.collected = <<>>
          /\ c.late = 0 /\ c.given = client[l].given /\ c.failed = client[l].failed
      BY CallOverIs
    <2> HIDE DEF c
    <2>3. /\ client'[l].at = "bound" /\ client'[l].reading = None /\ client'[l].collected = <<>>
          /\ client'[l].late = 0 /\ client'[l].given = Given(l)
          /\ client'[l].failed = client[l].failed
      BY <2>1, <2>2 DEF ClientState, Given
    <2>4. Given(l)' = Given(l)
      BY <1>1, <2>3, ConcatEmptySeq DEF Given
    <2>5. PlaceInv(l)' /\ LateInv(l)'
      BY <2>3 DEF PlaceInv, LateInv
    <2>6. SourceInv(l)' /\ KeptInv(l)' /\ OrderInv(l)'
      BY <1>2, <1>3, <2>3, <2>4, EventsStay
    <2> QED
      BY <2>5, <2>6 DEF ListenerInv
  <1>5. CASE ~Enough(l)
    <2>1. client'[l] = [client[l] EXCEPT !.at = "accepting"] /\ ~client[l].expired
      BY <1>1, <1>5 DEF Check, Enough
    <2>2. /\ client'[l].at = "accepting" /\ client'[l].reading = client[l].reading
          /\ client'[l].collected = client[l].collected /\ client'[l].given = client[l].given
          /\ client'[l].failed = client[l].failed /\ client'[l].late = client[l].late
      BY <1>1, <2>1 DEF ClientState
    <2>3. PlaceInv(l)' /\ LateInv(l)'
      BY <1>2, <1>3, <2>1, <2>2 DEF PlaceInv, LateInv
    <2>4. SourceInv(l)' /\ KeptInv(l)' /\ OrderInv(l)'
      BY <1>2, <2>2, EventsStay DEF Given
    <2> QED
      BY <2>3, <2>4 DEF ListenerInv
  <1> QED
    BY <1>4, <1>5

\* The first of the backlog is taken into the client's hands: the first connection
\* after the deadline, at most.
LEMMA AcceptKeepsClient ==
    ASSUME Inv, NEW l \in Listeners, Accept(l)
    PROVE  ListenerInv(l)'
  <1>1. /\ client \in [Listeners -> ClientState] /\ client[l] \in ClientState
        /\ backlog \in [Listeners -> Seq(Events)] /\ backlog[l] \in Seq(Events)
        /\ Given(l) \in Seq(Events) /\ None \notin Events
    BY Types, TraceAssumption DEF Inv
  <1>2. /\ PlaceInv(l) /\ LateInv(l) /\ SourceInv(l) /\ KeptInv(l) /\ OrderInv(l)
        /\ client[l].at = "accepting" /\ UNCHANGED event
    BY DEF Inv, ListenerInv, Accept, recorderVars
  <1>3. client[l].reading = None /\ client[l].late = 0
    BY <1>2 DEF PlaceInv, LateInv
  <1>4. CASE Sleep(l)
    <2>1. /\ client'[l].at = "sleeping" /\ client'[l].reading = client[l].reading
          /\ client'[l].collected = client[l].collected /\ client'[l].given = client[l].given
          /\ client'[l].failed = client[l].failed /\ client'[l].late = client[l].late
          /\ UNCHANGED backlog
      BY <1>1, <1>4 DEF Sleep, ClientState
    <2>2. PlaceInv(l)' /\ LateInv(l)'
      BY <1>2, <1>3, <2>1 DEF PlaceInv, LateInv
    <2>3. SourceInv(l)' /\ KeptInv(l)' /\ OrderInv(l)'
      BY <1>2, <2>1, EventsStay DEF Given
    <2> QED
      BY <2>2, <2>3 DEF ListenerInv
  <1>5. CASE TakeNext(l)
    <2> DEFINE e == Head(backlog[l])
    <2>1. /\ backlog[l] # <<>> /\ backlog'[l] = Tail(backlog[l]) /\ e \in Events
          /\ \A d : InSeq(d, backlog[l]) <=> d = e \/ InSeq(d, backlog'[l])
          /\ Ordered(backlog'[l]) /\ AllAfter(backlog'[l], e)
      BY <1>1, <1>2, <1>5, TailLeaves DEF TakeNext, OrderInv
    <2>2. client'[l] = [client[l] EXCEPT !.at = "reading", !.reading = e,
                            !.late = IF client[l].expired /\ @ < LateMax THEN @ + 1 ELSE @]
      BY <1>1, <1>5 DEF TakeNext
    <2> HIDE DEF e
    <2>3. /\ client'[l].at = "reading" /\ client'[l].reading = e
          /\ client'[l].collected = client[l].collected /\ client'[l].given = client[l].given
          /\ client'[l].failed = client[l].failed /\ client'[l].expired = client[l].expired
          /\ client'[l].late = IF client[l].expired THEN 1 ELSE 0
      BY <1>1, <1>3, <2>2 DEF ClientState, LateMax
    <2>4. Given(l)' = Given(l)
      BY <2>3 DEF Given
    <2>5. \A d \in Events : Has(l, d)' <=> Has(l, d)
      BY <1>1, <1>3, <2>1, <2>3, <2>4 DEF Has
    <2>6. PlaceInv(l)' /\ LateInv(l)'
      BY <1>1, <2>1, <2>3 DEF PlaceInv, LateInv
    <2>7. SourceInv(l)' /\ KeptInv(l)'
      BY <1>2, <2>3, <2>4, <2>5 DEF SourceInv, KeptInv
    <2>8. Precedes(Given(l), backlog'[l]) /\ AllBefore(Given(l), e)
      BY <1>2, <2>1 DEF OrderInv, Precedes, AllBefore
    <2>9. OrderInv(l)'
      BY <1>2, <2>1, <2>3, <2>4, <2>8 DEF OrderInv
    <2> QED
      BY <2>6, <2>7, <2>9 DEF ListenerInv
  <1> QED
    BY <1>4, <1>5 DEF Accept

\* A whole frame that is read goes to the end of what was collected.
LEMMA ReadKeepsClient ==
    ASSUME Inv, NEW l \in Listeners, Read(l)
    PROVE  ListenerInv(l)'
  <1> DEFINE e == client[l].reading
  <1>1. /\ client \in [Listeners -> ClientState] /\ client[l] \in ClientState
        /\ client[l].collected \in Seq(Events) /\ client[l].given \in Seq(Events)
        /\ Given(l) \in Seq(Events) /\ None \notin Events
    BY Types, TraceAssumption DEF Inv
  <1>2. /\ PlaceInv(l) /\ LateInv(l) /\ SourceInv(l) /\ KeptInv(l) /\ OrderInv(l)
        /\ client[l].at = "reading" /\ event[e].wire = "whole" /\ UNCHANGED <<event, backlog>>
    BY DEF Inv, ListenerInv, Read, recorderVars
  <1>3. e \in Events
    BY <1>2, Types DEF PlaceInv, Inv
  <1>4. /\ client'[l].at = "checking" /\ client'[l].reading = None
        /\ client'[l].collected = Append(client[l].collected, e)
        /\ client'[l].given = client[l].given /\ client'[l].failed = client[l].failed
        /\ client'[l].expired = client[l].expired /\ client'[l].late = client[l].late
    BY <1>1 DEF Read, ClientState
  <1>5. Given(l)' = Append(Given(l), e)
    BY <1>1, <1>3, <1>4, CollectAppends DEF Given
  <1> HIDE DEF e
  <1>6. /\ \A d : InSeq(d, Given(l)') <=> InSeq(d, Given(l)) \/ d = e
        /\ AllBefore(Given(l), e) => Ordered(Given(l)')
    BY <1>1, <1>2, <1>3, <1>5, AppendAdds DEF OrderInv
  <1>7. \A d \in Events : Has(l, d)' <=> Has(l, d)
    BY <1>1, <1>2, <1>4, <1>6 DEF Has, e
  <1>8. PlaceInv(l)' /\ LateInv(l)'
    BY <1>2, <1>4 DEF PlaceInv, LateInv
  <1>9. SourceInv(l)' /\ KeptInv(l)'
    BY <1>2, <1>4, <1>6, <1>7 DEF SourceInv, KeptInv
  <1>10. AllBefore(Given(l), e) /\ AllAfter(backlog[l], e) /\ Precedes(Given(l), backlog[l])
    BY <1>1, <1>2, <1>3 DEF OrderInv, e
  <1>11. Precedes(Given(l)', backlog'[l])
    BY <1>2, <1>6, <1>10 DEF Precedes, AllAfter
  <1>12. OrderInv(l)'
    BY <1>2, <1>4, <1>6, <1>10, <1>11 DEF OrderInv
  <1> QED
    BY <1>8, <1>9, <1>12 DEF ListenerInv

\* A call that fails drops what it had collected, and a client that is gone all it had.
LEMMA LossKeepsClient ==
    ASSUME Inv, NEW l \in Listeners, CollectFails(l) \/ Close(l) \/ Crash(l)
    PROVE  ListenerInv(l)'
  <1>1. /\ client \in [Listeners -> ClientState] /\ client[l] \in ClientState
        /\ backlog \in [Listeners -> Seq(Events)]
        /\ client[l].collected \in Seq(Events) /\ client[l].given \in Seq(Events)
        /\ <<>> \in Seq(Events) /\ None \notin Events
    BY Types, EmptySeq, TraceAssumption DEF Inv
  <1>2. SourceInv(l) /\ OrderInv(l)
    BY DEF Inv, ListenerInv
  <1>3. CASE CollectFails(l)
    <2> DEFINE c == CallOver(client[l])
    <2>1. /\ client'[l] = [c EXCEPT !.failed = TRUE] /\ UNCHANGED <<event, backlog>>
      BY <1>1, <1>3 DEF CollectFails, recorderVars
    <2>2. /\ c \in ClientState /\ c.at = "bound" /\ c.reading = None /\ c.collected = <<>>
          /\ c.late = 0 /\ c.given = client[l].given
      BY CallOverIs
    <2> HIDE DEF c
    <2>3. /\ client'[l].at = "bound" /\ client'[l].reading = None /\ client'[l].collected = <<>>
          /\ client'[l].late = 0 /\ client'[l].given = client[l].given /\ client'[l].failed
      BY <2>1, <2>2 DEF ClientState
    <2>4. Given(l)' = client[l].given
      BY <1>1, <2>3, ConcatEmptySeq DEF Given
    <2>5. /\ \A d : InSeq(d, Given(l)') => InSeq(d, Given(l))
          /\ Ordered(Given(l)) => Ordered(Given(l)')
      BY <1>1, <2>4, ConcatJoins DEF Given
    <2>6. \A d \in Events : Has(l, d)' => Has(l, d)
      BY <1>1, <2>1, <2>3, <2>5 DEF Has
    <2>7. PlaceInv(l)' /\ LateInv(l)' /\ KeptInv(l)'
      BY <2>3 DEF PlaceInv, LateInv, KeptInv
    <2>8. SourceInv(l)'
      BY <1>2, <2>1, <2>5, <2>6 DEF SourceInv
    <2>9. OrderInv(l)'
      BY <1>2, <2>1, <2>3, <2>5 DEF OrderInv, Precedes
    <2> QED
      BY <2>7, <2>8, <2>9 DEF ListenerInv
  <1>4. CASE Close(l) \/ Crash(l)
    <2>1. /\ client'[l] = NewClient("gone") /\ backlog'[l] = <<>> /\ UNCHANGED event
      BY <1>1, <1>4 DEF Close, Crash, ClientGone, recorderVars
    <2>2. /\ client'[l].at = "gone" /\ client'[l].reading = None /\ client'[l].collected = <<>>
          /\ client'[l].given = <<>> /\ client'[l].late = 0
      BY <2>1 DEF NewClient
    <2>3. Given(l)' = <<>>
      BY <1>1, <2>2, ConcatEmptySeq DEF Given
    <2>4. /\ \A d \in Events : ~InSeq(d, <<>>)
          /\ Ordered(<<>>)
      BY <1>1, MembersAre, EmptySeq DEF Ordered
    <2>5. PlaceInv(l)' /\ LateInv(l)' /\ KeptInv(l)'
      BY <2>2 DEF PlaceInv, LateInv, KeptInv
    <2>6. SourceInv(l)'
      BY <1>1, <2>1, <2>2, <2>3, <2>4 DEF SourceInv, Has
    <2>7. OrderInv(l)'
      BY <2>1, <2>2, <2>3, <2>4 DEF OrderInv, Precedes
    <2> QED
      BY <2>5, <2>6, <2>7 DEF ListenerInv
  <1> QED
    BY <1>3, <1>4

------------------------------------------------------------------------------
(* The theorems. *)

\* Every step keeps the invariant.
LEMMA StepKeepsInv == Inv /\ [Next]_vars => Inv'
  <1> SUFFICES ASSUME Inv, [Next]_vars PROVE Inv'
    OBVIOUS
  <1>1. ASSUME NEW r \in Recorders, RecorderStep(r) PROVE Inv'
    BY <1>1, RecorderKeepsTypes, RecorderKeepsWire, RecorderKeepsClients DEF Inv
  <1>2. CASE SnapshotPanics
    <2>1. TypeOK'
      BY <1>2 DEF SnapshotPanics, recorderVars, Inv, TypeOK
    <2>2. UNCHANGED <<destination, at, sent, event, client, backlog>>
      BY <1>2 DEF SnapshotPanics, recorderVars
    <2>3. RecorderInv'
      BY <2>2 DEF Inv, RecorderInv, Current
    <2>4. \A l \in Listeners : ListenerInv(l)'
      BY <2>2, OthersKeep
    <2> QED
      BY <2>1, <2>3, <2>4 DEF Inv
  <1>3. ASSUME NEW l \in Listeners, ClientStep(l) PROVE Inv'
    <2>1. /\ client' \in [Listeners -> ClientState] /\ backlog' \in [Listeners -> Seq(Events)]
          /\ \A k \in Listeners \ {l} : client'[k] = client[k] /\ backlog'[k] = backlog[k]
          /\ UNCHANGED <<recorderVars, logVars>>
          /\ path' \in Listeners \cup {NoFile, OtherFile}
      BY <1>3, ClientMoves
    <2>2. TypeOK'
      BY <2>1 DEF Inv, TypeOK, recorderVars, logVars
    <2>3. RecorderInv'
      BY <2>1 DEF Inv, RecorderInv, Current, recorderVars, logVars
    <2>4. \A k \in Listeners \ {l} : ListenerInv(k)'
      BY <2>1, OthersKeep DEF recorderVars
    <2>5. ListenerInv(l)'
      BY <1>3, QuietKeepsClient, CheckKeepsClient, AcceptKeepsClient, ReadKeepsClient,
         LossKeepsClient DEF ClientStep
    <2> QED
      BY <2>2, <2>3, <2>4, <2>5 DEF Inv
  <1>4. CASE UNCHANGED vars
    <2>1. UNCHANGED <<workload, destination, memory, poisoned, path, at, sent, event, client, backlog>>
      BY <1>4 DEF vars, logVars, recorderVars
    <2>2. TypeOK' /\ RecorderInv'
      BY <2>1 DEF Inv, TypeOK, RecorderInv, Current
    <2>3. \A l \in Listeners : ListenerInv(l)'
      BY <2>1, OthersKeep
    <2> QED
      BY <2>2, <2>3 DEF Inv
  <1> QED
    BY <1>1, <1>2, <1>3, <1>4 DEF Next, RecorderStep, ClientStep

\* It holds in the beginning: nothing is recorded, and nobody listens.
LEMMA InitHasInv == Init => Inv
  <1> SUFFICES ASSUME Init PROVE Inv
    OBVIOUS
  <1>1. <<>> \in Seq(Events) /\ EventMax \in Nat /\ CallMax \in Nat
    BY EmptySeq, TraceAssumption
  <1>2. NewClient("absent") \in ClientState
    BY <1>1 DEF NewClient, ClientState, ListenerPlaces, LateMax
  <1>3. TypeOK
    <2>1. 0 \in 0..EventMax
      BY <1>1
    <2>2. /\ workload \in Workloads /\ destination \in {"disabled", "recording", "socket"}
          /\ memory \in Seq(Events) /\ poisoned \in BOOLEAN
          /\ path \in Listeners \cup {NoFile, OtherFile}
      BY <1>1 DEF Init
    <2>3. at \in [Recorders -> RecorderPlaces] /\ sent \in [Recorders -> 0..EventMax]
      BY <2>1 DEF Init, RecorderPlaces
    <2>4. event \in [Events -> EventState]
      BY DEF Init, EventState
    <2>5. client \in [Listeners -> ClientState]
      BY <1>2 DEF Init
    <2>6. backlog \in [Listeners -> Seq(Events)]
      BY <1>1 DEF Init
    <2> QED
      BY <2>2, <2>3, <2>4, <2>5, <2>6 DEF TypeOK
  <1>4. RecorderInv
    BY DEF Init, RecorderInv
  <1>5. ASSUME NEW l \in Listeners PROVE ListenerInv(l)
    <2>1. /\ client[l].at = "absent" /\ client[l].reading = None /\ client[l].collected = <<>>
          /\ client[l].given = <<>> /\ client[l].late = 0 /\ backlog[l] = <<>>
      BY DEF Init, NewClient
    <2>2. Given(l) = <<>> /\ Ordered(<<>>) /\ (\A d \in Events : ~InSeq(d, <<>>)) /\ None \notin Events
      <3>1. <<>> \o <<>> = <<>>
        BY <1>1, ConcatEmptySeq
      <3>2. Given(l) = <<>>
        BY <2>1, <3>1 DEF Given
      <3>3. Ordered(<<>>)
        <4>1. Len(<<>>) = 0
          BY EmptySeq
        <4> QED
          BY <4>1 DEF Ordered
      <3>4. \A d \in Events : ~InSeq(d, <<>>)
        BY <1>1, MembersAre
      <3> QED
        BY <3>2, <3>3, <3>4, TraceAssumption
    <2>3. \A e \in Events : event[e].wire = "none" /\ ~Has(l, e)
      BY <2>1, <2>2 DEF Init, Has
    <2>4. PlaceInv(l) /\ LateInv(l)
      BY <2>1 DEF PlaceInv, LateInv
    <2>5. SourceInv(l) /\ KeptInv(l)
      BY <2>2, <2>3 DEF SourceInv, KeptInv
    <2>6. OrderInv(l)
      BY <2>1, <2>2 DEF OrderInv, Precedes
    <2> QED
      BY <2>4, <2>5, <2>6 DEF ListenerInv
  <1> QED
    BY <1>3, <1>4, <1>5 DEF Inv

\* The invariant holds of every run.
THEOREM InvHolds == Spec => []Inv
  BY InitHasInv, StepKeepsInv, PTL DEF Spec

\* Whoever records, listens, takes over the path or is killed, a client is given whole
\* events of its own connections, those of a recorder once and in its order, over all
\* its calls (collect_for, collect_until_count).
THEOREM CollectionIsOrdered == Spec => []CollectedInOrder
  <1>1. Inv => CollectedInOrder
    <2> SUFFICES ASSUME Inv, NEW l \in Listeners, NEW i \in 1..Len(Given(l))
                 PROVE  /\ event[Given(l)[i]].wire = "whole" /\ event[Given(l)[i]].to = l
                        /\ \A j \in 1..(i - 1) :
                              Given(l)[j][1] = Given(l)[i][1] => Given(l)[j][2] < Given(l)[i][2]
      BY DEF CollectedInOrder
    <2>1. Given(l) \in Seq(Events) /\ Len(Given(l)) \in Nat
      BY Types, LenProperties DEF Inv
    <2>2. Given(l)[i] \in Events /\ InSeq(Given(l)[i], Given(l))
      BY <2>1, MembersAre, ElementOfSeq
    <2>3. \A j \in 1..(i - 1) : j \in 1..Len(Given(l)) /\ j < i
      BY <2>1
    <2>4. SourceInv(l) /\ Ordered(Given(l))
      BY DEF Inv, ListenerInv, OrderInv
    <2>5. event[Given(l)[i]].wire = "whole" /\ event[Given(l)[i]].to = l
      BY <2>2, <2>4 DEF SourceInv, Has
    <2>6. \A j \in 1..(i - 1) : Earlier(Given(l)[j], Given(l)[i])
      BY <2>3, <2>4 DEF Ordered
    <2> QED
      BY <2>5, <2>6 DEF Earlier
  <1> QED
    BY <1>1, InvHolds, PTL

\* An event that record_result has reported as written waits for its client or has
\* been collected, unless that client is gone or one of its calls has failed
\* (TraceLog::write_event).
THEOREM OkEventsAreKept == Spec => []OkEventsKept
  <1>1. Inv => OkEventsKept
    <2> SUFFICES ASSUME Inv, destination = "socket", NEW e \in Events, event[e].outcome = "ok"
                 PROVE  LET l == event[e].to
                        IN  \/ client[l].at = "gone" \/ client[l].failed
                            \/ InSeq(e, backlog[l]) \/ client[l].reading = e \/ InSeq(e, Given(l))
      BY DEF OkEventsKept
    <2>1. event[e].wire # "none" /\ event[e].to \in Listeners
      BY DEF Inv, RecorderInv
    <2>2. KeptInv(event[e].to)
      BY <2>1 DEF Inv, ListenerInv
    <2> QED
      BY <2>1, <2>2 DEF KeptInv, Has
  <1> QED
    BY <1>1, InvHolds, PTL

\* However fast events come, a collect call accepts at most one connection after its
\* deadline (the head of the loops of collect_for and collect_until_count).
THEOREM OneLateAtMost == Spec => []AtMostOneLate
  <1>1. Inv => AtMostOneLate
    BY DEF Inv, ListenerInv, LateInv, AtMostOneLate
  <1> QED
    BY <1>1, InvHolds, PTL
================================================================================
