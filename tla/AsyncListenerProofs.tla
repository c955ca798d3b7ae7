-------------------------- MODULE AsyncListenerProofs --------------------------
(***************************************************************************)
(* Lemmas about AsyncListener that the proofs of both async daemons use:   *)
(* its steps are steps of the gate, a handler owns its connection exactly  *)
(* while its permit is held, and a listener has at most one ask pending.   *)
(***************************************************************************)
EXTENDS AsyncListener, RequestGateProofs

\* A handler owns its AcceptedConnection exactly while its permit is held.
OwnerInv == \A c \in Connections : conn[c] = "handling" <=> phase[c] = "held"

------------------------------------------------------------------------------
(* The loop and its gate. *)

\* The steps of one listener's loop, handlers, clients and gate.
LEMMA ListenerStepsGates ==
    ASSUME NEW l \in Listeners, ListenerNext(l) \/ \E c \in Of(l) : ContextFails(c)
    PROVE  [GateNext]_gateVars
  <1>1. Of(l) \subseteq Requests /\ Requests \subseteq Askers /\ l \in Gates
    BY GateOfType DEF Of, Connections, Listeners
  <1>2. CASE GateInternal(l)
    <2>1. CASE HandleNext(l)
      BY <1>1, <2>1 DEF HandleNext, GateNext
    <2>2. CASE \E c \in Of(l) : AcquirePermit(c) \/ DropReply(c)
      BY <1>1, <2>2 DEF GateNext
    <2> QED
      BY <1>2, <2>1, <2>2 DEF GateInternal
  <1>3. CASE ServeStep(l)
    <2> PICK c \in Of(l) : AcceptNext(c) \/ Admit(c) \/ AskFails(c)
      BY <1>3 DEF ServeStep
    <2>1. CASE Ask(c)
      BY <1>1, <2>1 DEF GateNext
    <2>2. CASE Deliver(c)
      BY <1>1, <2>2 DEF GateNext
    <2> QED
      BY <2>1, <2>2 DEF AcceptNext, Admit, AskFails
  <1>4. CASE AcceptFails(l)
    BY <1>4 DEF AcceptFails
  <1>5. CASE \E c \in Of(l) : ClientOrHandler(c)
    <2> PICK c \in Of(l) : ClientOrHandler(c)
      BY <1>5
    <2>1. CASE Release(c)
      BY <1>1, <2>1 DEF GateNext
    <2> QED
      BY <2>1 DEF ClientOrHandler, Connect, IntoParts, HandlerReturns
  <1>6. CASE \E c \in Of(l) : ContextFails(c)
    BY <1>6 DEF ContextFails
  <1> QED
    BY <1>2, <1>3, <1>4, <1>5, <1>6 DEF ListenerNext

------------------------------------------------------------------------------
(* Handlers and permits. *)

\* A step that changes the place of no handler and of no held permit.
LEMMA OwnersAlone ==
    ASSUME OwnerInv,
           \A c \in Connections : conn'[c] = "handling" <=> conn[c] = "handling",
           \A c \in Connections : phase'[c] = "held" <=> phase[c] = "held"
    PROVE  OwnerInv'
  BY DEF OwnerInv

\* Lost connections and closed sockets cost no handler.
LEMMA HandlersSurvive ==
    ASSUME conn \in [Connections -> ConnStates], NEW lost, NEW closed,
           \A c \in lost : conn[c] # "handling",
           conn' = ConnAfter(lost, closed)
    PROVE  /\ conn' \in [Connections -> ConnStates]
           /\ \A c \in Connections : conn'[c] = "handling" <=> conn[c] = "handling"
  BY DEF ConnAfter, ConnStates

\* Of the gate's steps only Deliver and Release change which permits are held; here
\* are the others that the accept loop and the executor take.
LEMMA HeldAlone ==
    ASSUME GateInv
    PROVE  /\ \A a \in Askers : Ask(a) =>
                 \A c \in Requests : phase'[c] = "held" <=> phase[c] = "held"
           /\ \A g \in Gates : HandleNext(g) =>
                 \A c \in Requests : phase'[c] = "held" <=> phase[c] = "held"
           /\ \A r \in Requests : AcquirePermit(r) \/ DropReply(r) =>
                 \A c \in Requests : phase'[c] = "held" <=> phase[c] = "held"
  <1>1. phase \in [Askers -> Phases] /\ Requests \subseteq Askers
    BY GateOfType DEF GateInv, GateTypeOK
  <1>2. ASSUME NEW a \in Askers, Ask(a), NEW c \in Requests
        PROVE  phase'[c] = "held" <=> phase[c] = "held"
    BY <1>1, <1>2 DEF Ask
  <1>3. ASSUME NEW g \in Gates, HandleNext(g), NEW c \in Requests
        PROVE  phase'[c] = "held" <=> phase[c] = "held"
    <2>1. CASE HandleStop(g)
      <3>1. InMailbox(g, c) => phase[c] = "queued"
        BY <1>1 DEF InMailbox, GateInv, MailboxInv
      <3>2. phase'[c] = IF InMailbox(g, c) THEN "refused" ELSE phase[c]
        BY <1>1, <2>1 DEF HandleStop
      <3> QED
        BY <3>1, <3>2
    <2>2. ASSUME NEW r \in Requests, HandleAcquire(r)
          PROVE  phase'[c] = "held" <=> phase[c] = "held"
      <3>1. phase[r] = "queued"
        BY <1>1, <2>2, TakeFirst DEF HandleAcquire, GateInv
      <3> QED
        BY <1>1, <2>2, <3>1 DEF HandleAcquire
    <2> QED
      BY <1>3, <2>1, <2>2, ListenerAssumption DEF HandleNext
  <1>4. ASSUME NEW r \in Requests, AcquirePermit(r), NEW c \in Requests
        PROVE  phase'[c] = "held" <=> phase[c] = "held"
    BY <1>1, <1>4 DEF AcquirePermit
  <1>5. ASSUME NEW r \in Requests, DropReply(r), NEW c \in Requests
        PROVE  phase'[c] = "held" <=> phase[c] = "held"
    <2>1. phase[r] = "granted" /\ ReturnPermit(r) /\ PoolOf(r) = GateOf[r]
      BY <1>5, GateOfType DEF DropReply
    <2>2. CASE phase' = [phase EXCEPT ![r] = "released"]
      BY <1>1, <2>1, <2>2
    <2>3. CASE /\ queue[GateOf[r]] # <<>>
               /\ queue' = [queue EXCEPT ![GateOf[r]] = Tail(@)]
               /\ phase' = [phase EXCEPT ![r] = "released", ![Head(queue[GateOf[r]])] = "granted"]
               /\ UNCHANGED available
      <3>1. Head(queue[GateOf[r]]) \in Requests /\ phase[Head(queue[GateOf[r]])] = "waiting"
        BY <2>1, <2>3, LeaveQueue DEF GateInv
      <3> QED
        BY <1>1, <2>1, <2>3, <3>1
    <2> QED
      BY <2>1, <2>2, <2>3 DEF ReturnPermit
  <1> QED
    BY <1>2, <1>3, <1>4, <1>5

\* A released permit leaves all other held permits held.
LEMMA ReleaseEndsOne ==
    ASSUME GateInv, NEW c \in Requests, Release(c)
    PROVE  \A d \in Requests : phase'[d] = "held" <=> phase[d] = "held" /\ d # c
  <1>1. phase \in [Askers -> Phases] /\ Requests \subseteq Askers
    BY GateOfType DEF GateInv, GateTypeOK
  <1>2. phase[c] = "held" /\ ReturnPermit(c) /\ PoolOf(c) = GateOf[c]
    BY GateOfType DEF Release
  <1>3. CASE phase' = [phase EXCEPT ![c] = "released"]
    BY <1>1, <1>2, <1>3
  <1>4. CASE /\ queue[GateOf[c]] # <<>>
             /\ queue' = [queue EXCEPT ![GateOf[c]] = Tail(@)]
             /\ phase' = [phase EXCEPT ![c] = "released", ![Head(queue[GateOf[c]])] = "granted"]
             /\ UNCHANGED available
    <2>1. Head(queue[GateOf[c]]) \in Requests \ {c} /\ phase[Head(queue[GateOf[c]])] = "waiting"
      BY <1>2, <1>4, LeaveQueue DEF GateInv
    <2> QED
      BY <1>1, <1>2, <1>4, <2>1
  <1> QED
    BY <1>2, <1>3, <1>4 DEF ReturnPermit

HandlerInv == ListenerTypeOK /\ OwnerInv

\* So a listener's handlers that own their connection are within its limit.
LEMMA OwnersAreLimited ==
    ASSUME GateInv, HandlerInv, NEW l \in Listeners
    PROVE  /\ In(l, {"handling"}) = {c \in Of(l) : phase[c] = "held"}
           /\ Cardinality(In(l, {"handling"})) <= Limit
  <1>1. In(l, {"handling"}) = {c \in Of(l) : phase[c] = "held"}
    BY DEF HandlerInv, OwnerInv, In, Of
  <1>2. In(l, {"handling"}) \in SUBSET Owners(l)
    BY <1>1, GateOfType DEF Of, Owners, Connections
  <1>3. l \in Gates /\ IsFiniteSet(Owners(l)) /\ Cardinality(Owners(l)) \in Nat
    BY OwnersFinite DEF Listeners
  <1>4. /\ Cardinality(In(l, {"handling"})) <= Cardinality(Owners(l))
        /\ Cardinality(In(l, {"handling"})) \in Nat
    BY <1>2, <1>3, FS_Subset, FS_CardinalityType
  <1>5. Cardinality(Owners(l)) <= Limit
    <2> DEFINE owners == Cardinality(Owners(l))
    <2>1. available[l] + owners = Limit /\ available[l] \in Nat /\ owners \in Nat /\ Limit \in Nat
      BY <1>3, LimitPositive DEF GateInv, GateTypeOK, PermitConservation
    <2> HIDE DEF owners
    <2>2. owners <= Limit
      BY <2>1
    <2> QED
      BY <2>2 DEF owners
  <1> QED
    BY <1>1, <1>3, <1>4, <1>5, LimitPositive

\* The accept loop ends: its listener and its stream go, its handlers stay.
LEMMA EndServeKeepsHandlers ==
    ASSUME HandlerInv, NEW l \in Listeners, NEW how \in ServeStates, NEW lost,
           \A c \in lost : conn[c] # "handling",
           EndServe(l, how, lost),
           \A c \in Connections : phase'[c] = "held" <=> phase[c] = "held"
    PROVE  HandlerInv'
  <1>1. /\ conn' \in [Connections -> ConnStates]
        /\ \A c \in Connections : conn'[c] = "handling" <=> conn[c] = "handling"
    BY HandlersSurvive DEF EndServe, HandlerInv, ListenerTypeOK
  <1>2. /\ serve' \in [Listeners -> ServeStates] /\ open' \subseteq Listeners
        /\ owned' \subseteq Listeners
    BY DEF EndServe, HandlerInv, ListenerTypeOK
  <1> QED
    BY <1>1, <1>2, OwnersAlone DEF HandlerInv, ListenerTypeOK

\* The steps around one listener keep handlers and held permits together.
LEMMA ListenerKeepsHandlers ==
    ASSUME HandlerInv, GateInv, NEW l \in Listeners,
           ListenerNext(l) \/ \E c \in Of(l) : ContextFails(c)
    PROVE  HandlerInv'
  <1>1. /\ serve \in [Listeners -> ServeStates] /\ conn \in [Connections -> ConnStates]
        /\ open \subseteq Listeners /\ owned \subseteq Listeners /\ phase \in [Askers -> Phases]
        /\ Connections = Requests /\ Requests \subseteq Askers
        /\ \A c \in Of(l) : c \in Connections /\ GateOf[c] = l
    BY GateOfType DEF HandlerInv, ListenerTypeOK, GateInv, GateTypeOK, Connections, Of
  <1>2. CASE GateInternal(l)
    <2>1. \A c \in Connections : phase'[c] = "held" <=> phase[c] = "held"
      BY <1>1, <1>2, HeldAlone DEF GateInternal, Listeners
    <2> QED
      BY <1>2, <2>1, OwnersAlone DEF GateInternal, listenerVars, HandlerInv, ListenerTypeOK
  <1>3. ASSUME NEW c \in Of(l), AcceptNext(c) PROVE HandlerInv'
    <2>1. \A d \in Connections : phase'[d] = "held" <=> phase[d] = "held"
      BY <1>1, <1>3, HeldAlone DEF AcceptNext
    <2>2. \A d \in Connections : conn'[d] = "handling" <=> conn[d] = "handling"
      BY <1>1, <1>3 DEF AcceptNext
    <2>3. ListenerTypeOK'
      BY <1>1, <1>3 DEF AcceptNext, ListenerTypeOK, ServeStates, ConnStates
    <2> QED
      BY <2>1, <2>2, <2>3, OwnersAlone DEF HandlerInv
  <1>4. ASSUME NEW c \in Of(l), Admit(c) PROVE HandlerInv'
    <2>1. ListenerTypeOK'
      BY <1>1, <1>4 DEF Admit, ListenerTypeOK, ServeStates, ConnStates
    <2>2. conn' = [conn EXCEPT ![c] = "handling"] /\ phase' = [phase EXCEPT ![c] = "held"]
      BY <1>4 DEF Admit, Deliver
    <2>3. OwnerInv'
      BY <1>1, <2>2 DEF HandlerInv, OwnerInv
    <2> QED
      BY <2>1, <2>3 DEF HandlerInv
  <1>5. ASSUME NEW c \in Of(l), AskFails(c) \/ ContextFails(c) PROVE HandlerInv'
    <2>1. EndServe(l, "failed", {c}) /\ conn[c] # "handling" /\ UNCHANGED gateVars
      BY <1>1, <1>5 DEF AskFails, ContextFails
    <2> QED
      BY <2>1, EndServeKeepsHandlers DEF ServeStates, gateVars
  <1>6. CASE AcceptFails(l)
    BY <1>6, EndServeKeepsHandlers DEF AcceptFails, ServeStates, gateVars
  <1>7. ASSUME NEW c \in Of(l), Connect(c) PROVE HandlerInv'
    <2>1. \A d \in Connections : conn'[d] = "handling" <=> conn[d] = "handling"
      BY <1>1, <1>7 DEF Connect
    <2>2. ListenerTypeOK' /\ UNCHANGED phase
      BY <1>1, <1>7 DEF Connect, ListenerTypeOK, ConnStates, gateVars
    <2> QED
      BY <2>1, <2>2, OwnersAlone DEF HandlerInv
  <1>8. ASSUME NEW c \in Of(l), NEW place \in {"detached", "done"}, Release(c),
               conn' = [conn EXCEPT ![c] = place], UNCHANGED <<serve, open, owned>>
        PROVE  HandlerInv'
    <2>1. \A d \in Connections : phase'[d] = "held" <=> phase[d] = "held" /\ d # c
      BY <1>1, <1>8, ReleaseEndsOne
    <2>2. \A d \in Connections : conn'[d] = "handling" <=> conn[d] = "handling" /\ d # c
      BY <1>1, <1>8
    <2>3. OwnerInv'
      BY <2>1, <2>2 DEF HandlerInv, OwnerInv
    <2>4. ListenerTypeOK'
      BY <1>1, <1>8 DEF ListenerTypeOK, ConnStates
    <2> QED
      BY <2>3, <2>4 DEF HandlerInv
  <1>9. ASSUME NEW c \in Of(l), conn[c] = "detached", UNCHANGED gateVars,
               conn' = [conn EXCEPT ![c] = "done"], UNCHANGED <<serve, open, owned>>
        PROVE  HandlerInv'
    <2>1. \A d \in Connections : conn'[d] = "handling" <=> conn[d] = "handling"
      BY <1>1, <1>9
    <2>2. ListenerTypeOK' /\ UNCHANGED phase
      BY <1>1, <1>9 DEF ListenerTypeOK, ConnStates, gateVars
    <2> QED
      BY <2>1, <2>2, OwnersAlone DEF HandlerInv
  <1>10. ASSUME NEW c \in Of(l), IntoParts(c) \/ HandlerReturns(c) PROVE HandlerInv'
    BY <1>8, <1>9, <1>10 DEF IntoParts, HandlerReturns
  <1> QED
    BY <1>2, <1>3, <1>4, <1>5, <1>6, <1>7, <1>10 DEF ListenerNext, ServeStep, ClientOrHandler

------------------------------------------------------------------------------
(* The asks of a listener. *)

\* An ask is pending from ask() to the moment its answer is taken or lost.
PendingPhases == {"queued", "spawned", "waiting", "granted", "refused"}
Pending(c) == phase[c] \in PendingPhases

\* The stream the loop holds is the one it asks for, and the answer is still awaited.
AcceptedInv ==
    \A c \in Connections : conn[c] = "accepted" =>
        serve[GateOf[c]] = "asking" /\ Pending(c) /\ c \notin abandoned

\* A loop that asks holds a stream.
AskingInv == \A l \in Listeners : serve[l] = "asking" => In(l, {"accepted"}) # {}

\* A loop holds one stream at most.
OneStreamInv ==
    \A c, d \in Connections :
        conn[c] = "accepted" /\ conn[d] = "accepted" /\ GateOf[c] = GateOf[d] => c = d

\* A pending ask is the loop's, or was given up with its loop, or has been refused.
PendingInv ==
    \A c \in Connections : Pending(c) =>
        conn[c] = "accepted" \/ c \in abandoned \/ phase[c] = "refused"

\* Nobody gives up an ask that was never made.
FreshInv == \A c \in Connections : phase[c] = "idle" => c \notin abandoned

AskInv == AcceptedInv /\ AskingInv /\ OneStreamInv /\ PendingInv /\ FreshInv

\* What a loop awaits an answer to is the stream it holds, and it holds one at most.
LEMMA AwaitedIsHeld ==
    ASSUME AskInv, NEW l \in Listeners
    PROVE  /\ {c \in Of(l) : Pending(c) /\ phase[c] # "refused"} \ abandoned
                  \subseteq In(l, {"accepted"})
           /\ \A S \in SUBSET In(l, {"accepted"}) : Cardinality(S) <= 1
  <1>1. {c \in Of(l) : Pending(c) /\ phase[c] # "refused"} \ abandoned \subseteq In(l, {"accepted"})
    BY DEF AskInv, PendingInv, In, Of
  <1>2. ASSUME NEW S \in SUBSET In(l, {"accepted"}) PROVE Cardinality(S) <= 1
    <2>1. CASE S = {}
      BY <2>1, FS_EmptySet
    <2>2. ASSUME NEW c \in S PROVE Cardinality(S) <= 1
      <3>1. S = {c}
        BY <2>2 DEF AskInv, OneStreamInv, In, Of
      <3>2. Cardinality({c}) = 1
        BY FS_Singleton
      <3> QED
        BY <3>1, <3>2
    <2> QED
      BY <2>1, <2>2
  <1> QED
    BY <1>1, <1>2

\* The actor and the executor move pending asks on, but end none and make none.
LEMMA ActorKeepsPending ==
    ASSUME GateInv, NEW g \in Gates,
           HandleNext(g) \/ \E r \in Requests : AcquirePermit(r)
    PROVE  /\ UNCHANGED abandoned
           /\ \A c \in Requests : /\ Pending(c)' <=> Pending(c)
                                  /\ phase'[c] = "idle" => phase[c] = "idle"
                                  /\ phase[c] = "refused" => phase'[c] = "refused"
  <1>1. phase \in [Askers -> Phases] /\ Requests \subseteq Askers
    BY GateOfType DEF GateInv, GateTypeOK
  <1>2. CASE HandleStop(g)
    <2>1. \A c \in Requests : InMailbox(g, c) => phase[c] = "queued"
      BY <1>1 DEF InMailbox, GateInv, MailboxInv
    <2>2. /\ \A c \in Requests : phase'[c] = IF InMailbox(g, c) THEN "refused" ELSE phase[c]
          /\ UNCHANGED abandoned
      BY <1>1, <1>2 DEF HandleStop
    <2> QED
      BY <2>1, <2>2 DEF Pending, PendingPhases
  <1>3. ASSUME NEW r \in Requests, HandleAcquire(r) \/ AcquirePermit(r)
        PROVE  /\ UNCHANGED abandoned
               /\ \A c \in Requests : /\ Pending(c)' <=> Pending(c)
                                      /\ phase'[c] = "idle" => phase[c] = "idle"
                                      /\ phase[c] = "refused" => phase'[c] = "refused"
    <2>1. phase[r] \in {"queued", "spawned"}
      BY <1>1, <1>3, TakeFirst DEF HandleAcquire, AcquirePermit, GateInv
    <2> QED
      BY <1>1, <1>3, <2>1 DEF HandleAcquire, AcquirePermit, Pending, PendingPhases
  <1> QED
    BY <1>2, <1>3, ListenerAssumption DEF HandleNext

\* A permit that goes back ends the ask it belongs to, if that was still pending, and
\* moves at most a waiting ask on.
LEMMA ReturnEndsOne ==
    ASSUME GateInv, NEW r \in Requests, phase[r] \in {"granted", "held"}, ReturnPermit(r)
    PROVE  /\ UNCHANGED abandoned
           /\ \A c \in Requests : /\ Pending(c)' <=> Pending(c) /\ c # r
                                  /\ phase'[c] = "idle" => phase[c] = "idle"
                                  /\ phase[c] = "refused" => phase'[c] = "refused"
  <1>1. phase \in [Askers -> Phases] /\ Requests \subseteq Askers /\ PoolOf(r) = GateOf[r]
    BY GateOfType DEF GateInv, GateTypeOK
  <1>2. UNCHANGED abandoned
    BY DEF ReturnPermit
  <1>3. CASE phase' = [phase EXCEPT ![r] = "released"]
    BY <1>1, <1>2, <1>3 DEF Pending, PendingPhases
  <1>4. CASE /\ queue[GateOf[r]] # <<>>
             /\ queue' = [queue EXCEPT ![GateOf[r]] = Tail(@)]
             /\ phase' = [phase EXCEPT ![r] = "released", ![Head(queue[GateOf[r]])] = "granted"]
             /\ UNCHANGED available
    <2>1. /\ Head(queue[GateOf[r]]) \in Requests \ {r}
          /\ phase[Head(queue[GateOf[r]])] = "waiting"
      BY <1>4, LeaveQueue DEF GateInv
    <2> QED
      BY <1>1, <1>2, <1>4, <2>1 DEF Pending, PendingPhases
  <1> QED
    BY <1>1, <1>3, <1>4 DEF ReturnPermit

\* A step after which the same loops ask for the same streams, and no ask is new.
LEMMA AsksAlone ==
    ASSUME AskInv, UNCHANGED abandoned,
           \A l \in Listeners : serve'[l] = "asking" <=> serve[l] = "asking",
           \A c \in Connections :
              /\ conn'[c] = "accepted" <=> conn[c] = "accepted"
              /\ Pending(c)' => Pending(c)
              /\ conn[c] = "accepted" /\ Pending(c) => Pending(c)'
              /\ phase'[c] = "idle" => phase[c] = "idle"
              /\ phase[c] = "refused" => phase'[c] = "refused"
    PROVE  AskInv'
  <1>1. \A c \in Connections : GateOf[c] \in Listeners
    BY GateOfType DEF Listeners, Connections
  <1>2. AcceptedInv' /\ FreshInv'
    BY <1>1 DEF AskInv, AcceptedInv, FreshInv
  <1>3. AskingInv'
    BY DEF AskInv, AskingInv, In, Of
  <1>4. OneStreamInv' /\ PendingInv'
    BY DEF AskInv, OneStreamInv, PendingInv
  <1> QED
    BY <1>2, <1>3, <1>4 DEF AskInv

\* The loop ends with the stream it held: its ask stays behind, given up or refused.
LEMMA EndServeKeepsAsks ==
    ASSUME AskInv, HandlerInv, NEW l \in Listeners, NEW how, NEW lost,
           EndServe(l, how, lost), UNCHANGED phase, FreshInv',
           In(l, {"accepted"}) \subseteq lost, lost \subseteq Of(l), how # "asking",
           abandoned \subseteq abandoned',
           \A c \in Connections \ lost : c \in abandoned' => c \in abandoned,
           \A c \in In(l, {"accepted"}) : c \in abandoned' \/ phase[c] = "refused"
    PROVE  AskInv'
  <1>1. /\ serve \in [Listeners -> ServeStates] /\ conn \in [Connections -> ConnStates]
        /\ \A c \in Connections : GateOf[c] \in Listeners
    BY GateOfType DEF HandlerInv, ListenerTypeOK, Listeners, Connections
  <1>2. serve' = [serve EXCEPT ![l] = how]
    BY DEF EndServe
  <1>3. \A c \in Connections :
           conn'[c] = "accepted" <=> conn[c] = "accepted" /\ GateOf[c] # l
    BY <1>1 DEF EndServe, ConnAfter, In, Of
  <1>4. \A c \in Connections : Pending(c)' <=> Pending(c)
    BY DEF Pending
  <1>5. AcceptedInv'
    <2> SUFFICES ASSUME NEW c \in Connections, conn'[c] = "accepted"
                 PROVE  serve'[GateOf[c]] = "asking" /\ Pending(c)' /\ c \notin abandoned'
      BY DEF AcceptedInv
    <2>1. conn[c] = "accepted" /\ GateOf[c] # l /\ c \notin lost
      BY <1>3 DEF Of
    <2> QED
      BY <1>1, <1>2, <1>4, <2>1 DEF AskInv, AcceptedInv
  <1>6. AskingInv'
    <2> SUFFICES ASSUME NEW k \in Listeners, serve'[k] = "asking" PROVE In(k, {"accepted"})' # {}
      BY DEF AskingInv
    <2>1. k # l /\ serve[k] = "asking"
      BY <1>1, <1>2
    <2>2. PICK c \in Connections : GateOf[c] = k /\ conn[c] = "accepted"
      BY <2>1 DEF AskInv, AskingInv, In, Of
    <2> QED
      BY <1>3, <2>1, <2>2 DEF In, Of
  <1>7. OneStreamInv'
    BY <1>3 DEF AskInv, OneStreamInv
  <1>8. PendingInv'
    <2> SUFFICES ASSUME NEW c \in Connections, Pending(c)
                 PROVE  conn'[c] = "accepted" \/ c \in abandoned' \/ phase[c] = "refused"
      BY <1>4 DEF PendingInv
    <2>1. conn[c] = "accepted" \/ c \in abandoned \/ phase[c] = "refused"
      BY DEF AskInv, PendingInv
    <2>2. conn[c] = "accepted" /\ GateOf[c] = l => c \in abandoned' \/ phase[c] = "refused"
      BY DEF In, Of
    <2> QED
      BY <1>3, <2>1, <2>2
  <1> QED
    BY <1>5, <1>6, <1>7, <1>8 DEF AskInv

\* A loop that ends without a stream in hand.
LEMMA EndAcceptKeepsAsks ==
    ASSUME AskInv, HandlerInv, NEW l \in Listeners, NEW how, NEW lost, lost \subseteq Of(l),
           serve[l] = "accepting", EndServe(l, how, lost), how # "asking",
           UNCHANGED <<phase, abandoned>>
    PROVE  AskInv'
  <1>1. In(l, {"accepted"}) = {}
    BY DEF In, Of, AskInv, AcceptedInv
  <1>2. FreshInv'
    BY DEF AskInv, FreshInv
  <1> QED
    BY <1>1, <1>2, EndServeKeepsAsks

\* A loop whose future is dropped keeps handlers and leaves its ask behind.
LEMMA CancelServeKeeps ==
    ASSUME AskInv, HandlerInv, NEW l \in Listeners, CancelServe(l)
    PROVE  HandlerInv' /\ AskInv'
  <1>1. CASE serve[l] = "accepting" /\ EndServe(l, "cancelled", {}) /\ UNCHANGED gateVars
    <2>1. UNCHANGED <<phase, abandoned>>
      BY <1>1 DEF gateVars
    <2> QED
      BY <1>1, <2>1, EndAcceptKeepsAsks, EndServeKeepsHandlers DEF ServeStates
  <1>2. ASSUME NEW c \in In(l, {"accepted"}), EndServe(l, "cancelled", {c}), Abandon(c)
        PROVE  HandlerInv' /\ AskInv'
    <2>1. /\ c \in Of(l) /\ conn[c] = "accepted" /\ phase[c] # "idle"
          /\ UNCHANGED phase /\ abandoned' = abandoned \cup {c}
      BY <1>2 DEF In, Abandon
    <2>2. In(l, {"accepted"}) \subseteq {c}
      BY <2>1 DEF In, Of, AskInv, OneStreamInv
    <2>3. FreshInv'
      BY <2>1 DEF AskInv, FreshInv
    <2>4. AskInv'
      BY <1>2, <2>1, <2>2, <2>3, EndServeKeepsAsks
    <2> QED
      BY <1>2, <2>1, <2>4, EndServeKeepsHandlers DEF ServeStates
  <1> QED
    BY <1>1, <1>2 DEF CancelServe

\* The steps around one listener never make a second ask pending.
LEMMA ListenerKeepsAsks ==
    ASSUME AskInv, HandlerInv, GateInv, NEW l \in Listeners,
           ListenerNext(l) \/ \E c \in Of(l) : ContextFails(c)
    PROVE  AskInv'
  <1>1. /\ serve \in [Listeners -> ServeStates] /\ conn \in [Connections -> ConnStates]
        /\ phase \in [Askers -> Phases] /\ Connections = Requests /\ Requests \subseteq Askers
        /\ Gates = Listeners /\ \A c \in Of(l) : c \in Connections /\ GateOf[c] = l
    BY GateOfType DEF HandlerInv, ListenerTypeOK, GateInv, GateTypeOK, Connections, Listeners, Of
  <1>2. ASSUME HandleNext(l) \/ \E c \in Of(l) : AcquirePermit(c), UNCHANGED listenerVars
        PROVE  AskInv'
    <2>1. /\ UNCHANGED abandoned
          /\ \A c \in Requests : /\ Pending(c)' <=> Pending(c)
                                 /\ phase'[c] = "idle" => phase[c] = "idle"
                                 /\ phase[c] = "refused" => phase'[c] = "refused"
      BY <1>1, <1>2, ActorKeepsPending
    <2>2. UNCHANGED <<serve, conn>>
      BY <1>2 DEF listenerVars
    <2> QED
      BY <1>1, <2>1, <2>2, AsksAlone
  <1>3. ASSUME NEW r \in Of(l), DropReply(r), UNCHANGED listenerVars PROVE AskInv'
    <2>1. phase[r] = "granted" /\ r \in abandoned /\ ReturnPermit(r)
      BY <1>3 DEF DropReply
    <2>2. /\ UNCHANGED abandoned
          /\ \A c \in Requests : /\ Pending(c)' <=> Pending(c) /\ c # r
                                 /\ phase'[c] = "idle" => phase[c] = "idle"
                                 /\ phase[c] = "refused" => phase'[c] = "refused"
      BY <1>1, <2>1, ReturnEndsOne
    <2>3. conn[r] # "accepted"
      BY <1>1, <2>1 DEF AskInv, AcceptedInv
    <2>4. UNCHANGED <<serve, conn>>
      BY <1>3 DEF listenerVars
    <2> QED
      BY <1>1, <2>2, <2>3, <2>4, AsksAlone
  <1>4. ASSUME NEW c \in Of(l), AcceptNext(c) PROVE AskInv'
    <2>1. /\ serve[l] = "accepting" /\ serve' = [serve EXCEPT ![l] = "asking"]
          /\ conn' = [conn EXCEPT ![c] = "accepted"] /\ abandoned' = abandoned
          /\ phase[c] = "idle"
          /\ \E place \in {"queued", "refused"} : phase' = [phase EXCEPT ![c] = place]
      BY <1>1, <1>4 DEF AcceptNext, Ask
    <2>2. \A d \in Connections : GateOf[d] = l => conn[d] # "accepted"
      BY <2>1 DEF AskInv, AcceptedInv
    <2>3. \A d \in Connections : Pending(d)' <=> Pending(d) \/ d = c
      BY <1>1, <2>1 DEF Pending, PendingPhases
    <2>4. AcceptedInv' /\ FreshInv'
      BY <1>1, <2>1, <2>2, <2>3 DEF AskInv, AcceptedInv, FreshInv
    <2>5. AskingInv'
      BY <1>1, <2>1, <2>2 DEF AskInv, AskingInv, In, Of
    <2>6. OneStreamInv'
      BY <1>1, <2>1, <2>2 DEF AskInv, OneStreamInv
    <2>7. PendingInv'
      BY <1>1, <2>1, <2>3 DEF AskInv, PendingInv
    <2> QED
      BY <2>4, <2>5, <2>6, <2>7 DEF AskInv
  <1>5. ASSUME NEW c \in Of(l), Admit(c) PROVE AskInv'
    <2>1. /\ serve' = [serve EXCEPT ![l] = "accepting"] /\ serve[l] = "asking"
          /\ conn[c] = "accepted" /\ conn' = [conn EXCEPT ![c] = "handling"]
          /\ phase' = [phase EXCEPT ![c] = "held"] /\ abandoned' = abandoned
      BY <1>1, <1>5 DEF Admit, Deliver
    <2>3. \A d \in Connections : Pending(d)' <=> Pending(d) /\ d # c
      BY <1>1, <2>1 DEF Pending, PendingPhases, AskInv, AcceptedInv
    <2>4. \A d \in Connections : conn[d] = "accepted" /\ GateOf[d] = l => d = c
      BY <1>1, <2>1 DEF AskInv, OneStreamInv
    <2>5. AcceptedInv' /\ FreshInv'
      BY <1>1, <2>1, <2>3, <2>4 DEF AskInv, AcceptedInv, FreshInv
    <2>6. AskingInv'
      BY <1>1, <2>1 DEF AskInv, AskingInv, In, Of
    <2>7. OneStreamInv' /\ PendingInv'
      BY <1>1, <2>1, <2>3 DEF AskInv, OneStreamInv, PendingInv
    <2> QED
      BY <2>5, <2>6, <2>7 DEF AskInv
  <1>6. ASSUME NEW c \in Of(l), AskFails(c) PROVE AskInv'
    <2>1. /\ EndServe(l, "failed", {c}) /\ UNCHANGED <<phase, abandoned>>
          /\ phase[c] = "refused" /\ conn[c] = "accepted"
      BY <1>1, <1>6 DEF AskFails, gateVars
    <2>2. In(l, {"accepted"}) = {c}
      BY <1>1, <2>1 DEF In, Of, AskInv, OneStreamInv
    <2>3. FreshInv'
      BY <2>1 DEF AskInv, FreshInv
    <2> QED
      BY <2>1, <2>2, <2>3, EndServeKeepsAsks
  <1>7. ASSUME AcceptFails(l) \/ \E c \in Of(l) : ContextFails(c) PROVE AskInv'
    <2>1. /\ serve[l] = "accepting" /\ UNCHANGED <<phase, abandoned>>
          /\ \E lost \in SUBSET Of(l) : EndServe(l, "failed", lost)
      BY <1>1, <1>7 DEF AcceptFails, ContextFails, gateVars
    <2> QED
      BY <2>1, EndAcceptKeepsAsks
  <1>8. ASSUME NEW c \in Of(l), Connect(c) PROVE AskInv'
    <2>1. UNCHANGED <<serve, phase, abandoned>> /\ \A d \in Connections : Pending(d)' <=> Pending(d)
      BY <1>8 DEF Connect, gateVars, Pending
    <2>2. \A d \in Connections : conn'[d] = "accepted" <=> conn[d] = "accepted"
      BY <1>1, <1>8 DEF Connect
    <2> QED
      BY <2>1, <2>2, AsksAlone
  <1>9. ASSUME NEW c \in Of(l), IntoParts(c) \/ HandlerReturns(c) PROVE AskInv'
    <2>1. /\ conn[c] \in {"handling", "detached"} /\ UNCHANGED serve
          /\ \A d \in Connections : conn'[d] = "accepted" <=> conn[d] = "accepted"
      BY <1>1, <1>9 DEF IntoParts, HandlerReturns
    <2>2. CASE Release(c)
      <3>1. /\ UNCHANGED abandoned /\ phase[c] = "held"
            /\ \A d \in Requests : /\ Pending(d)' <=> Pending(d) /\ d # c
                                   /\ phase'[d] = "idle" => phase[d] = "idle"
                                   /\ phase[d] = "refused" => phase'[d] = "refused"
        BY <1>1, <2>2, ReturnEndsOne DEF Release
      <3> QED
        BY <1>1, <2>1, <3>1, AsksAlone
    <2>3. CASE UNCHANGED gateVars
      <3>1. UNCHANGED <<abandoned, phase>> /\ \A d \in Connections : Pending(d)' <=> Pending(d)
        BY <2>3 DEF gateVars, Pending
      <3> QED
        BY <2>1, <3>1, AsksAlone
    <2> QED
      BY <1>9, <2>2, <2>3 DEF IntoParts, HandlerReturns
  <1> QED
    BY <1>2, <1>3, <1>4, <1>5, <1>6, <1>7, <1>8, <1>9
    DEF ListenerNext, GateInternal, ServeStep, ClientOrHandler
================================================================================
