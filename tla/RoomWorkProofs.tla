---------------------------- MODULE RoomWorkProofs ----------------------------
(***************************************************************************)
(* The work of a Room.  First the inbox of one agent, for every set of     *)
(* host processes and every number of messages, attempts, generations and  *)
(* lease ticks.  Then the delegations, as one of the parts of the work a   *)
(* behaviour chooses from: what RoomDelegationProofs proves for every set  *)
(* of agents holds in both instances of the component.                     *)
(***************************************************************************)
EXTENDS MCRoomWork, FiniteSetTheorems, TLAPS

-----------------------------------------------------------------------------
(* What a step of a host amounts to, once the reasons are left out.         *)

(* Lease, binding, checkpoint and drafts move; nothing is settled.          *)
Work(g) ==
  \/ \E phase \in {"ready", host[g].phase} : Renew(g, phase)
  \/ BindRuntime(g)
  \/ MessageReady(g)
  \/ CheckpointReady(g)

Settle(g) ==
  \E outcome \in Settled, c \in 0 .. MaxGeneration :
    FinishDelivery(g, outcome, c)

Requeue(g) == \E c \in 0 .. MaxGeneration : RetryDelivery(g, c)

LEMMA HostStepCases ==
  ASSUME TypeOK, NEW g \in Generations, HostStep(g)
  PROVE  Live(g) /\ (Work(g) \/ Settle(g) \/ Requeue(g) \/ Abandon(g))
<1>1. g \in 0 .. MaxGeneration /\ 0 \in 0 .. MaxGeneration
  BY BoundAssumption DEF Generations
<1>2. host[g].checkpoint \in 0 .. MaxGeneration
  BY DEF TypeOK, Activities
<1>3. ASSUME Handshake(g) PROVE Live(g) /\ Work(g)
  BY <1>3 DEF Handshake, Live, Work
<1>4. ASSUME Heartbeat(g) PROVE Live(g) /\ Work(g)
  BY <1>4 DEF Heartbeat, Work
<1>5. ASSUME BindRuntime(g) PROVE Live(g) /\ Work(g)
  BY <1>5 DEF BindRuntime, Live, Work
<1>6. ASSUME MessageReady(g) PROVE Live(g) /\ Work(g)
  BY <1>6 DEF MessageReady, Bound, Live, Work
<1>7. ASSUME CheckpointReady(g) PROVE Live(g) /\ Work(g)
  BY <1>7 DEF CheckpointReady, Bound, Live, Work
<1>8. ASSUME Complete(g) PROVE Live(g) /\ Settle(g)
  BY <1>1, <1>2, <1>8 DEF Complete, CheckpointOf, Live, Settle, Settled
<1>9. ASSUME Fail(g) PROVE Live(g) /\ (Settle(g) \/ Requeue(g))
  BY <1>2, <1>9 DEF Fail, Live, Settle, Settled, Requeue
<1>10. ASSUME FailWithoutRuntime(g) PROVE Live(g) /\ Settle(g)
  BY <1>1, <1>10 DEF FailWithoutRuntime, Live, Settle, Settled
<1>11. ASSUME Interrupt(g) PROVE Live(g) /\ Requeue(g)
  BY <1>1, <1>2, <1>11 DEF Interrupt, CheckpointOf, Requeue
<1>12. ASSUME Abandon(g) PROVE Live(g) /\ Abandon(g)
  BY <1>12 DEF Abandon
<1> QED
  BY <1>3, <1>4, <1>5, <1>6, <1>7, <1>8, <1>9, <1>10, <1>11, <1>12
  DEF HostStep

-----------------------------------------------------------------------------
(* Row shapes, with what the fence needs to make sense: an activity that   *)
(* exists handles a delivery for a process, and its generation was given.  *)

HostsExist ==
  \A g \in Generations : host[g].phase # "none" =>
    /\ g <= session.generation
    /\ host[g].worker \in Workers
    /\ host[g].delivery \in Numbers

ShapeInv == TypeOK /\ HostsExist

LEMMA EventTyped ==
  ASSUME TypeOK, HostsExist, NEW g \in Generations, Live(g),
         NEW type \in {"message-ready", "retrying", "message"} \cup Settled,
         NEW draft \in 0 .. MaxGeneration
  PROVE  Event(g, type, draft) \in EventRows
BY DEF Live, HostsExist, Event, EventRows

LEMMA ReleaseTyped ==
  ASSUME session \in SessionRows, NEW c \in 0 .. MaxGeneration, Release(c)
  PROVE  /\ session' \in SessionRows
         /\ session'.generation = session.generation
<1>1. 0 \in 0 .. LeaseTerm /\ 0 \in 0 .. MaxDeliveries
  BY BoundAssumption
<1> QED
  BY <1>1 DEF Release, SessionRows

LEMMA RequeuedTyped ==
  ASSUME NEW row \in DeliveryRows PROVE Requeued(row) \in DeliveryRows
<1>1. row.attempt + 1 \in Nat
  BY DEF DeliveryRows
<1> QED
  BY <1>1 DEF Requeued, DeliveryRows, Unsettled

LEMMA AppendTyped ==
  ASSUME ShapeInv, NEW row \in SessionRows, AppendDelivery(row),
         row.generation >= session.generation
  PROVE  ShapeInv'
<1>1. row.deliverySequence \in Nat
  BY BoundAssumption DEF SessionRows
<1>2. row.deliverySequence + 1 \in Numbers
  BY <1>1, BoundAssumption DEF AppendDelivery, Numbers
<1>3. session' \in SessionRows /\ session'.generation = row.generation
  <2>1. row.deliverySequence + 1 \in 0 .. MaxDeliveries
    BY <1>2, BoundAssumption DEF Numbers
  <2> QED
    BY <2>1 DEF AppendDelivery, SessionRows
<1>4. delivery' \in [Numbers -> DeliveryRows]
  BY <1>2 DEF AppendDelivery, ShapeInv, TypeOK, DeliveryRows, NoDelivery,
              Unsettled
<1>5. session.generation \in Nat /\ row.generation \in Nat
  BY BoundAssumption DEF ShapeInv, TypeOK, SessionRows
<1> QED
  BY <1>3, <1>4, <1>5
  DEF AppendDelivery, ShapeInv, TypeOK, HostsExist, Generations

LEMMA ShapeStep ==
  ASSUME ShapeInv, [Next]_vars PROVE ShapeInv'
<1> USE DEF ShapeInv
<1>1. CASE Post
  BY <1>1, AppendTyped, BoundAssumption DEF Post, TypeOK, SessionRows
<1>2. CASE PostRebound
  <2> DEFINE row == [session EXCEPT !.generation = @ + 1, !.checkpoint = 0,
                                    !.runtimeSession = 0]
  <2>1. row \in SessionRows /\ row.generation >= session.generation
    <3>1. session \in SessionRows /\ session.generation \in 0 .. MaxGeneration
      BY DEF TypeOK, SessionRows
    <3>2. session.generation + 1 \in 0 .. MaxGeneration
      BY <1>2, <3>1, BoundAssumption DEF PostRebound
    <3>3. 0 \in 0 .. MaxGeneration
      BY BoundAssumption
    <3>4. session.generation + 1 >= session.generation
      BY <3>1, BoundAssumption
    <3> QED
      BY <3>1, <3>2, <3>3, <3>4 DEF SessionRows
  <2> QED
    BY <1>2, <2>1, AppendTyped DEF PostRebound
<1>3. CASE Tick
  <2>1. session' \in SessionRows /\ session'.generation = session.generation
    BY <1>3, BoundAssumption DEF Tick, TypeOK, SessionRows
  <2> QED
    BY <1>3, <2>1 DEF Tick, TypeOK, HostsExist
<1>4. ASSUME NEW n \in Numbers, Elapse(n) PROVE ShapeInv'
  BY <1>4 DEF Elapse, TypeOK, DeliveryRows, HostsExist
<1>5. ASSUME NEW w \in Workers, NEW n \in Numbers, Claim(w, n)
      PROVE  ShapeInv'
  <2> DEFINE g == session.generation + 1
  <2>1. g \in Generations /\ g \in 0 .. MaxGeneration
    BY <1>5, BoundAssumption DEF Claim, Generations
  <2>2. Attempt(n) \in Nat
    BY DEF Attempt, TypeOK, DeliveryRows
  <2>3. PendingOutput(n) \in 0 .. MaxGeneration
    BY BoundAssumption DEF PendingOutput, TypeOK, SessionRows
  <2>4. session' \in SessionRows /\ session'.generation = g
    <3>1. n \in 0 .. MaxDeliveries /\ LeaseTerm \in 0 .. LeaseTerm
      BY BoundAssumption DEF Numbers
    <3> QED
      BY <1>5, <2>1, <3>1 DEF Claim, TypeOK, SessionRows
  <2>5. delivery' \in [Numbers -> DeliveryRows]
    BY <1>5, <2>2 DEF Claim, TypeOK, DeliveryRows, Unsettled
  <2> DEFINE activity ==
        [phase |-> "claimed", worker |-> w, delivery |-> n,
         attempt |-> Attempt(n), output |-> PendingOutput(n),
         checkpoint |-> session.checkpoint]
  <2>6. activity \in Activities
    BY <2>2, <2>3, BoundAssumption
    DEF Activities, TypeOK, SessionRows, Numbers
  <2>7. host' = [host EXCEPT ![g] = activity]
    BY <1>5 DEF Claim
  <2>8. host' \in [Generations -> Activities]
    BY <2>1, <2>6, <2>7 DEF TypeOK
  <2>9. HostsExist'
    <3>1. session.generation \in Nat
      BY BoundAssumption DEF TypeOK, SessionRows
    <3>2. host'[g].worker = w /\ host'[g].delivery = n
      BY <2>1, <2>7 DEF TypeOK
    <3>3. \A h \in Generations : h # g => host'[h] = host[h]
      BY <2>7 DEF TypeOK
    <3> QED
      BY <2>1, <2>4, <3>1, <3>2, <3>3 DEF HostsExist, Generations
  <2> QED
    BY <1>5, <2>4, <2>5, <2>8, <2>9 DEF Claim, TypeOK
<1>6. ASSUME NEW g \in Generations, HostStep(g) PROVE ShapeInv'
  <2>1. Live(g)
    BY <1>6, HostStepCases
  <2>2. g \in 0 .. MaxGeneration /\ 0 \in 0 .. MaxGeneration
    BY BoundAssumption DEF Generations
  <2>3. host[g].phase # "none" /\ host[g].delivery \in Numbers
    BY <2>1 DEF Live, HostsExist
  <2>4. ASSUME NEW phase \in {"ready", host[g].phase}, Renew(g, phase)
        PROVE  ShapeInv'
    <3>1. session' \in SessionRows /\ session'.generation = session.generation
      BY <2>4, BoundAssumption DEF Renew, TypeOK, SessionRows
    <3>2. host' \in [Generations -> Activities]
      BY <2>1, <2>4 DEF Renew, TypeOK, Activities, Live
    <3> QED
      BY <2>3, <2>4, <3>1, <3>2 DEF Renew, TypeOK, HostsExist
  <2>5. CASE BindRuntime(g)
    <3>1. session' \in SessionRows /\ session'.generation = session.generation
      BY <2>2, <2>5 DEF BindRuntime, TypeOK, SessionRows
    <3>2. host' \in [Generations -> Activities]
      BY <2>5 DEF BindRuntime, TypeOK, Activities
    <3> QED
      BY <2>3, <2>5, <3>1, <3>2 DEF BindRuntime, TypeOK, HostsExist
  <2>6. CASE MessageReady(g)
    <3>1. Event(g, "message-ready", g) \in EventRows
      BY <2>1, <2>2, EventTyped
    <3>2. host' \in [Generations -> Activities]
      BY <2>2, <2>6 DEF MessageReady, TypeOK, Activities
    <3> QED
      BY <2>3, <2>6, <3>1, <3>2 DEF MessageReady, TypeOK, HostsExist
  <2>7. CASE CheckpointReady(g)
    <3>1. session' \in SessionRows /\ session'.generation = session.generation
      BY <2>2, <2>7 DEF CheckpointReady, TypeOK, SessionRows
    <3>2. host' \in [Generations -> Activities]
      BY <2>2, <2>7 DEF CheckpointReady, TypeOK, Activities
    <3> QED
      BY <2>3, <2>7, <3>1, <3>2 DEF CheckpointReady, TypeOK, HostsExist
  <2>8. ASSUME NEW outcome \in Settled, NEW c \in 0 .. MaxGeneration,
               FinishDelivery(g, outcome, c)
        PROVE  ShapeInv'
    <3>1. session' \in SessionRows /\ session'.generation = session.generation
      BY <2>8, ReleaseTyped DEF FinishDelivery, TypeOK
    <3>2. delivery' \in [Numbers -> DeliveryRows]
      BY <2>3, <2>8 DEF FinishDelivery, TypeOK, DeliveryRows
    <3>3. host' \in [Generations -> Activities]
      BY <2>8 DEF FinishDelivery, TypeOK, Activities
    <3>4. host[g].output \in 0 .. MaxGeneration
      BY DEF TypeOK, Activities
    <3>5. Event(g, outcome, 0) \in EventRows
      BY <2>1, <2>2, EventTyped
    <3>6. Answer(g, outcome) \subseteq EventRows
      BY <2>1, <3>4, EventTyped DEF Answer
    <3> QED
      BY <2>3, <2>8, <3>1, <3>2, <3>3, <3>5, <3>6
      DEF FinishDelivery, TypeOK, HostsExist
  <2>9. ASSUME NEW c \in 0 .. MaxGeneration, RetryDelivery(g, c)
        PROVE  ShapeInv'
    <3>1. session' \in SessionRows /\ session'.generation = session.generation
      BY <2>9, ReleaseTyped DEF RetryDelivery, TypeOK
    <3>2. delivery' \in [Numbers -> DeliveryRows]
      <4>1. Requeued(delivery[host[g].delivery]) \in DeliveryRows
        BY <2>3, RequeuedTyped DEF TypeOK
      <4> QED
        BY <2>3, <2>9, <4>1 DEF RetryDelivery, TypeOK
    <3>3. host' \in [Generations -> Activities]
      BY <2>9 DEF RetryDelivery, TypeOK, Activities
    <3>4. Event(g, "retrying", 0) \in EventRows
      BY <2>1, <2>2, EventTyped
    <3> QED
      BY <2>3, <2>9, <3>1, <3>2, <3>3, <3>4
      DEF RetryDelivery, TypeOK, HostsExist
  <2>10. CASE Abandon(g)
    <3>1. host' \in [Generations -> Activities]
      BY <2>10 DEF Abandon, TypeOK, Activities
    <3> QED
      BY <2>3, <2>10, <3>1 DEF Abandon, TypeOK, HostsExist
  <2> QED
    BY <1>6, <2>4, <2>5, <2>6, <2>7, <2>8, <2>9, <2>10, HostStepCases
    DEF Work, Settle, Requeue
<1>7. CASE UNCHANGED vars
  BY <1>7 DEF vars, TypeOK, HostsExist
<1> QED
  BY <1>1, <1>2, <1>3, <1>4, <1>5, <1>6, <1>7 DEF Next

LEMMA ShapeInit == ASSUME Init PROVE ShapeInv
<1>1. 0 \in 0 .. LeaseTerm /\ 0 \in 0 .. MaxDeliveries
        /\ 0 \in 0 .. MaxGeneration /\ 1 \in Nat /\ 0 \in Nat
  BY BoundAssumption
<1> QED
  BY <1>1 DEF Init, ShapeInv, TypeOK, HostsExist, NoSession, SessionRows,
              NoDelivery, DeliveryRows, NoActivity, Activities

(* The rows of a session, its inbox and its events, and the activities of  *)
(* its hosts have the shape their writers give them.                       *)
THEOREM Typing == Spec => []TypeOK
<1>1. Spec => []ShapeInv
  BY ShapeInit, ShapeStep, PTL DEF Spec
<1>2. ShapeInv => TypeOK
  BY DEF ShapeInv
<1> QED
  BY <1>1, <1>2, PTL

-----------------------------------------------------------------------------
(* The session row against its inbox.  InOrder is not inductive alone: that *)
(* the oldest unsettled delivery has only settled ones before it needs     *)
(* that there is no gap in the inbox, which is in SessionMatchesInbox.     *)

InboxInv == ShapeInv /\ SessionMatchesInbox /\ InOrder

LEMMA ReleaseEffect ==
  ASSUME session \in SessionRows, NEW c, Release(c)
  PROVE  /\ session'.deliverySequence = session.deliverySequence
         /\ session'.generation = session.generation
         /\ session'.runtimeSession = session.runtimeSession
         /\ session'.current = 0
         /\ session'.lease = 0
         /\ session'.leaseOwner = NoWorker
         /\ session'.checkpoint = IF c = 0 THEN session.checkpoint ELSE c
BY DEF Release, SessionRows

(* The owner of a lease handles the one claimed delivery.                  *)
LEMMA OwnerHandles ==
  ASSUME InboxInv, NEW g \in Generations, Live(g), Owns(g)
  PROVE  /\ host[g].delivery \in Numbers
         /\ session.current = host[g].delivery
         /\ session.generation = g
         /\ delivery[host[g].delivery].status = "claimed"
         /\ host[g].delivery <= session.deliverySequence
         /\ \A m \in Numbers : delivery[m].status = "claimed"
                                 => m = host[g].delivery
         /\ \A m \in 1 .. (host[g].delivery - 1) : delivery[m].status \in Settled
<1>1. host[g].delivery \in Numbers
  BY DEF InboxInv, ShapeInv, HostsExist, Live
<1>2. /\ session.current = host[g].delivery
      /\ session.generation = g
      /\ delivery[host[g].delivery].status = "claimed"
  BY DEF Owns
<1>3. host[g].delivery <= session.deliverySequence
  BY <1>1, <1>2 DEF InboxInv, SessionMatchesInbox
<1>4. \A m \in Numbers : delivery[m].status = "claimed" => m = host[g].delivery
  BY <1>2 DEF InboxInv, SessionMatchesInbox
<1>5. \A m \in 1 .. (host[g].delivery - 1) : delivery[m].status \in Settled
  BY <1>1, <1>2 DEF InboxInv, InOrder
<1> QED
  BY <1>1, <1>2, <1>3, <1>4, <1>5

(* Work changes neither the assignment of deliveries nor their statuses.   *)
LEMMA WorkEffect ==
  ASSUME ShapeInv, NEW g \in Generations, Live(g), Work(g)
  PROVE  /\ session'.current = session.current
         /\ session'.deliverySequence = session.deliverySequence
         /\ session'.generation = session.generation
         /\ session'.leaseOwner = session.leaseOwner
         /\ session'.lease = session.lease \/ session.current # 0
         /\ delivery' = delivery
         /\ \A h \in Generations : /\ host'[h].worker = host[h].worker
                                   /\ host'[h].delivery = host[h].delivery
<1> DEFINE Effect ==
      /\ session'.current = session.current
      /\ session'.deliverySequence = session.deliverySequence
      /\ session'.generation = session.generation
      /\ session'.leaseOwner = session.leaseOwner
      /\ session'.lease = session.lease \/ session.current # 0
      /\ delivery' = delivery
      /\ \A h \in Generations : /\ host'[h].worker = host[h].worker
                                /\ host'[h].delivery = host[h].delivery
<1>1. session \in SessionRows /\ host \in [Generations -> Activities]
  BY DEF ShapeInv, TypeOK
<1>2. host[g].delivery # 0
  BY DEF ShapeInv, HostsExist, Live, Numbers
<1>3. ASSUME NEW phase \in {"ready", host[g].phase}, Renew(g, phase)
      PROVE  Effect
  BY <1>1, <1>2, <1>3 DEF Renew, Owns, SessionRows, Activities
<1>4. CASE BindRuntime(g)
  BY <1>1, <1>4 DEF BindRuntime, SessionRows, Activities
<1>5. CASE MessageReady(g)
  BY <1>1, <1>5 DEF MessageReady, Activities
<1>6. CASE CheckpointReady(g)
  BY <1>1, <1>6 DEF CheckpointReady, SessionRows, Activities
<1> QED
  BY <1>3, <1>4, <1>5, <1>6 DEF Work

LEMMA AppendInbox ==
  ASSUME InboxInv, ShapeInv', NEW row \in SessionRows, AppendDelivery(row),
         row.deliverySequence = session.deliverySequence,
         row.current = session.current, row.lease = session.lease,
         row.leaseOwner = session.leaseOwner,
         row.generation = session.generation \/ session.current = 0
  PROVE  InboxInv'
<1> DEFINE k == session.deliverySequence + 1
<1>1. session.deliverySequence \in Nat
  BY BoundAssumption DEF InboxInv, ShapeInv, TypeOK, SessionRows
<1>2. k \in Numbers
  BY <1>1, BoundAssumption DEF AppendDelivery, Numbers
<1>3. /\ session'.deliverySequence = k
      /\ session'.current = session.current
      /\ session'.lease = session.lease
      /\ session'.leaseOwner = session.leaseOwner
      /\ session'.generation = row.generation
  BY DEF AppendDelivery, SessionRows
<1>4. /\ delivery'[k].status = "pending"
      /\ \A m \in Numbers : m # k => delivery'[m] = delivery[m]
  BY <1>2 DEF AppendDelivery, InboxInv, ShapeInv, TypeOK, NoDelivery
<1>5. /\ delivery[k].status = "none"
      /\ session.current # k
  BY <1>1, <1>2 DEF InboxInv, SessionMatchesInbox
<1>6. host' = host
  BY DEF AppendDelivery
<1>7. SessionMatchesInbox'
  <2>1. \A n \in Numbers :
          delivery'[n].status = "claimed" <=> session'.current = n
    BY <1>3, <1>4, <1>5 DEF InboxInv, SessionMatchesInbox
  <2>2. \A n \in Numbers :
          delivery'[n].status # "none" <=> n <= session'.deliverySequence
    BY <1>1, <1>3, <1>4 DEF InboxInv, SessionMatchesInbox, Numbers
  <2> QED
    BY <1>3, <1>6, <2>1, <2>2 DEF InboxInv, SessionMatchesInbox
<1>8. InOrder'
  <2>1. \A n \in Numbers : \A m \in 1 .. (n - 1) : m \in Numbers
    BY BoundAssumption DEF Numbers
  <2>2. \A n \in Numbers : n > k => delivery[n].status = "none"
    BY <1>1 DEF InboxInv, SessionMatchesInbox, Numbers
  <2>3. \A n \in Numbers : \A m \in 1 .. (n - 1) : m < n
    BY DEF Numbers
  <2> QED
    BY <1>1, <1>2, <1>4, <2>1, <2>2, <2>3
    DEF InboxInv, InOrder, Settled, Numbers
<1> QED
  BY <1>7, <1>8 DEF InboxInv

LEMMA InboxStep ==
  ASSUME InboxInv, [Next]_vars PROVE InboxInv'
<1>0. ShapeInv'
  BY ShapeStep DEF InboxInv
<1>1. TypeOK /\ HostsExist /\ TypeOK' /\ HostsExist'
  BY <1>0 DEF InboxInv, ShapeInv
<1>2. \A n \in Numbers : \A m \in 1 .. (n - 1) : m \in Numbers /\ m < n
  BY BoundAssumption DEF Numbers
<1>3. CASE Post
  BY <1>0, <1>1, <1>3, AppendInbox DEF Post, TypeOK
<1>4. CASE PostRebound
  <2> DEFINE row == [session EXCEPT !.generation = @ + 1, !.checkpoint = 0,
                                    !.runtimeSession = 0]
  <2>1. session.generation + 1 \in 0 .. MaxGeneration /\ 0 \in 0 .. MaxGeneration
    BY <1>1, <1>4, BoundAssumption DEF PostRebound, TypeOK, SessionRows
  <2>2. /\ row \in SessionRows
        /\ row.deliverySequence = session.deliverySequence
        /\ row.current = session.current /\ row.lease = session.lease
        /\ row.leaseOwner = session.leaseOwner
    BY <1>1, <2>1 DEF TypeOK, SessionRows
  <2> QED
    BY <1>0, <1>4, <2>2, AppendInbox DEF PostRebound
<1>5. CASE Tick
  <2>1. /\ session.current # 0
        /\ session'.current = session.current
        /\ session'.deliverySequence = session.deliverySequence
        /\ session'.generation = session.generation
        /\ session'.leaseOwner = session.leaseOwner
    BY <1>1, <1>5 DEF Tick, TypeOK, SessionRows, InboxInv, SessionMatchesInbox
  <2> QED
    BY <1>0, <1>5, <2>1 DEF Tick, InboxInv, SessionMatchesInbox, InOrder
<1>6. ASSUME NEW n \in Numbers, Elapse(n) PROVE InboxInv'
  <2>1. \A m \in Numbers : delivery'[m].status = delivery[m].status
    BY <1>1, <1>6 DEF Elapse, TypeOK, DeliveryRows
  <2> QED
    BY <1>0, <1>2, <1>6, <2>1 DEF Elapse, InboxInv, SessionMatchesInbox, InOrder
<1>7. ASSUME NEW w \in Workers, NEW n \in Numbers, Claim(w, n)
      PROVE  InboxInv'
  <2> DEFINE g == session.generation + 1
  <2>1. g \in Generations
    BY <1>7 DEF Claim
  <2>2. /\ session'.deliverySequence = session.deliverySequence
        /\ session'.generation = g
        /\ session'.leaseOwner = w
        /\ session'.current = n
    BY <1>1, <1>7 DEF Claim, TypeOK, SessionRows
  <2>3. host'[g].worker = w /\ host'[g].delivery = n
    BY <1>1, <1>7, <2>1 DEF Claim, TypeOK
  <2>4. /\ delivery'[n].status = "claimed"
        /\ \A m \in Numbers : m # n => delivery'[m] = delivery[m]
    BY <1>1, <1>7 DEF Claim, TypeOK, DeliveryRows
  <2>5. /\ delivery[n].status \in Unsettled
        /\ \A m \in 1 .. (n - 1) : delivery[m].status \notin Unsettled
    BY <1>7 DEF Claim, Oldest
  <2>6. n <= session.deliverySequence
    BY <2>5 DEF InboxInv, SessionMatchesInbox, Unsettled
  <2>7. \A m \in 1 .. (n - 1) : delivery[m].status \in Settled
    <3>1. \A m \in 1 .. (n - 1) : m \in Numbers /\ m <= session.deliverySequence
      BY <1>1, <1>2, <2>6, BoundAssumption DEF TypeOK, SessionRows, Numbers
    <3> QED
      BY <1>1, <2>5, <3>1
      DEF InboxInv, SessionMatchesInbox, TypeOK, DeliveryRows
  <2>8. \A m \in Numbers : m # n => delivery[m].status # "claimed"
    (* A claimed delivery is the oldest unsettled one.                     *)
    <3>1. SUFFICES ASSUME NEW m \in Numbers, m # n,
                          delivery[m].status = "claimed"
                   PROVE  FALSE
      OBVIOUS
    <3>2. CASE m < n
      BY <2>7, <3>1, <3>2 DEF Numbers, Settled
    <3>3. CASE n < m
      BY <2>5, <3>1, <3>3 DEF InboxInv, InOrder, Unsettled, Settled, Numbers
    <3> QED
      BY <3>1, <3>2, <3>3 DEF Numbers
  <2>9. SessionMatchesInbox'
    <3>1. \A m \in Numbers :
            delivery'[m].status = "claimed" <=> session'.current = m
      BY <2>2, <2>4, <2>8
    <3>2. \A m \in Numbers :
            delivery'[m].status # "none" <=> m <= session'.deliverySequence
      BY <2>2, <2>4, <2>6 DEF InboxInv, SessionMatchesInbox
    <3>3. n # 0
      BY DEF Numbers
    <3> QED
      BY <2>1, <2>2, <2>3, <3>1, <3>2, <3>3 DEF SessionMatchesInbox
  <2>10. InOrder'
    <3>1. SUFFICES ASSUME NEW l \in Numbers, NEW m \in 1 .. (l - 1),
                          delivery'[l].status \in {"claimed"} \cup Settled
                   PROVE  delivery'[m].status \in Settled
      BY DEF InOrder
    <3>2. m \in Numbers /\ m < l
      BY <1>2, <3>1
    <3>3. CASE l = n
      BY <2>4, <2>7, <3>1, <3>2, <3>3
    <3>4. CASE l # n
      <4>1. delivery[m].status \in Settled
        BY <2>4, <3>1, <3>4 DEF InboxInv, InOrder
      <4>2. m # n
        BY <2>5, <4>1 DEF Settled, Unsettled
      <4> QED
        BY <2>4, <3>2, <4>1, <4>2
    <3> QED
      BY <3>3, <3>4
  <2> QED
    BY <1>0, <2>9, <2>10 DEF InboxInv
<1>8. ASSUME NEW g \in Generations, HostStep(g) PROVE InboxInv'
  <2>1. Live(g)
    BY <1>1, <1>8, HostStepCases
  <2>2. CASE Work(g)
    <3>1. /\ session'.current = session.current
          /\ session'.deliverySequence = session.deliverySequence
          /\ session'.generation = session.generation
          /\ session'.leaseOwner = session.leaseOwner
          /\ session'.lease = session.lease \/ session.current # 0
          /\ delivery' = delivery
          /\ \A h \in Generations : /\ host'[h].worker = host[h].worker
                                    /\ host'[h].delivery = host[h].delivery
      BY <2>1, <2>2, WorkEffect DEF InboxInv
    <3> QED
      BY <1>0, <3>1 DEF InboxInv, SessionMatchesInbox, InOrder
  <2>3. ASSUME NEW status \in {"pending"} \cup Settled, NEW c, Owns(g),
               Release(c),
               \A m \in Numbers : delivery'[m].status =
                 IF m = host[g].delivery THEN status ELSE delivery[m].status
        PROVE  InboxInv'
    <3> DEFINE n == host[g].delivery
    <3>1. /\ n \in Numbers /\ n <= session.deliverySequence
          /\ \A m \in Numbers : delivery[m].status = "claimed" => m = n
          /\ \A m \in 1 .. (n - 1) : delivery[m].status \in Settled
          /\ delivery[n].status = "claimed"
      BY <2>1, <2>3, OwnerHandles
    <3>2. /\ session'.current = 0 /\ session'.lease = 0
          /\ session'.leaseOwner = NoWorker
          /\ session'.deliverySequence = session.deliverySequence
      BY <1>1, <2>3, ReleaseEffect DEF TypeOK
    <3>3. SessionMatchesInbox'
      <4>1. \A m \in Numbers :
              delivery'[m].status = "claimed" <=> session'.current = m
        BY <2>3, <3>1, <3>2 DEF Numbers, Settled
      <4>2. \A m \in Numbers :
              delivery'[m].status # "none" <=> m <= session'.deliverySequence
        BY <2>3, <3>1, <3>2 DEF InboxInv, SessionMatchesInbox, Settled
      <4> QED
        BY <3>2, <4>1, <4>2 DEF SessionMatchesInbox
    <3>4. InOrder'
      <4>1. SUFFICES ASSUME NEW l \in Numbers, NEW m \in 1 .. (l - 1),
                            delivery'[l].status \in {"claimed"} \cup Settled
                     PROVE  delivery'[m].status \in Settled
        BY DEF InOrder
      <4>2. m \in Numbers /\ m < l
        BY <1>2, <4>1
      <4>3. delivery[l].status \in {"claimed"} \cup Settled
        BY <2>3, <3>1, <4>1
      <4>4. delivery[m].status \in Settled
        BY <4>3 DEF InboxInv, InOrder
      <4>5. m # n
        BY <3>1, <4>4 DEF Settled
      <4> QED
        BY <2>3, <4>2, <4>4, <4>5
    <3> QED
      BY <1>0, <3>3, <3>4 DEF InboxInv
  <2>4. CASE Settle(g)
    <3>1. PICK outcome \in Settled, c \in 0 .. MaxGeneration :
            FinishDelivery(g, outcome, c)
      BY <2>4 DEF Settle
    <3>2. \A m \in Numbers : delivery'[m].status =
            IF m = host[g].delivery THEN outcome ELSE delivery[m].status
      BY <1>1, <3>1 DEF FinishDelivery, TypeOK, DeliveryRows
    <3> QED
      BY <2>3, <3>1, <3>2 DEF FinishDelivery
  <2>5. CASE Requeue(g)
    <3>1. PICK c \in 0 .. MaxGeneration : RetryDelivery(g, c)
      BY <2>5 DEF Requeue
    <3>2. \A m \in Numbers : delivery'[m].status =
            IF m = host[g].delivery THEN "pending" ELSE delivery[m].status
      BY <1>1, <3>1 DEF RetryDelivery, Requeued, TypeOK, DeliveryRows
    <3> QED
      BY <2>3, <3>1, <3>2 DEF RetryDelivery
  <2>6. CASE Abandon(g)
    <3>1. \A h \in Generations : /\ host'[h].worker = host[h].worker
                                 /\ host'[h].delivery = host[h].delivery
      BY <1>1, <2>6 DEF Abandon, TypeOK, Activities
    <3> QED
      BY <1>0, <2>6, <3>1 DEF Abandon, InboxInv, SessionMatchesInbox, InOrder
  <2> QED
    BY <1>1, <1>8, <2>2, <2>4, <2>5, <2>6, HostStepCases
<1>9. CASE UNCHANGED vars
  BY <1>0, <1>9 DEF vars, InboxInv, SessionMatchesInbox, InOrder
<1> QED
  BY <1>3, <1>4, <1>5, <1>6, <1>7, <1>8, <1>9 DEF Next

LEMMA InboxInit == ASSUME Init PROVE InboxInv
BY ShapeInit DEF Init, InboxInv, SessionMatchesInbox, InOrder, NoSession,
                 NoDelivery, Numbers, Settled

(* The session row and its inbox agree, whatever hosts and posters do: the *)
(* current delivery is the only claimed one, and the lease belongs to the  *)
(* host that was given the current generation.                             *)
THEOREM Matching == Spec => []SessionMatchesInbox
<1>1. Spec => []InboxInv
  BY InboxInit, InboxStep, PTL DEF Spec
<1>2. InboxInv => SessionMatchesInbox
  BY DEF InboxInv
<1> QED
  BY <1>1, <1>2, PTL

(* No delivery is handled before everything posted earlier is settled.     *)
THEOREM Fifo == Spec => []InOrder
<1>1. Spec => []InboxInv
  BY InboxInit, InboxStep, PTL DEF Spec
<1>2. InboxInv => InOrder
  BY DEF InboxInv
<1> QED
  BY <1>1, <1>2, PTL

-----------------------------------------------------------------------------
(* Settlement.                                                             *)

SettlementInv == InboxInv /\ SettledOnce

(* Drafts and retries, and status changes among unsettled ones, leave the  *)
(* correspondence of statuses and events alone.                            *)
LEMMA SettledOnceKept ==
  ASSUME SettledOnce, events \subseteq events',
         \A e \in events' : e \in events \/ e.type \in {"message-ready", "retrying"},
         \A n \in Numbers, s \in Settled :
           delivery'[n].status = s <=> delivery[n].status = s
  PROVE  SettledOnce'
<1>1. \A e \in events' : e.type \in Settled \cup {"message"} => e \in events
  BY DEF Settled
<1>2. \A n \in Numbers, s \in Settled :
        delivery'[n].status = s <=>
          \E e \in events' : e.delivery = n /\ e.type = s
  BY <1>1 DEF SettledOnce
<1>3. \A d, e \in events' :
        /\ d.delivery = e.delivery
        /\ d.type \in Settled
        => /\ e.type \in Settled => e = d
           /\ e.type = "message" =>
                d.type = "completed" /\ e.generation = d.generation
  BY <1>1 DEF SettledOnce
<1>4. \A e \in events' : e.type = "message" =>
        \E d \in events' : d.delivery = e.delivery /\ d.type = "completed"
  BY <1>1 DEF SettledOnce
<1> QED
  BY <1>2, <1>3, <1>4 DEF SettledOnce

LEMMA SettledOnceUnchanged ==
  ASSUME SettledOnce, UNCHANGED <<delivery, events>> PROVE SettledOnce'
BY DEF SettledOnce

LEMMA SettledOnceAppended ==
  ASSUME SettlementInv, NEW row \in SessionRows, AppendDelivery(row),
         row.deliverySequence = session.deliverySequence
  PROVE  SettledOnce'
<1>1. TypeOK
  BY DEF SettlementInv, InboxInv, ShapeInv
<1>2. session.deliverySequence + 1 \in Numbers
  BY <1>1, BoundAssumption DEF AppendDelivery, TypeOK, SessionRows, Numbers
<1>3. delivery[session.deliverySequence + 1].status = "none"
  BY <1>1, <1>2, BoundAssumption
  DEF SettlementInv, InboxInv, SessionMatchesInbox, TypeOK, SessionRows
<1>4. \A n \in Numbers, s \in Settled :
        delivery'[n].status = s <=> delivery[n].status = s
  BY <1>1, <1>2, <1>3 DEF AppendDelivery, TypeOK, NoDelivery, Settled
<1> QED
  BY <1>4, SettledOnceKept DEF AppendDelivery, SettlementInv

(* What work leaves in the Room are drafts.                                *)
LEMMA WorkEvents ==
  ASSUME NEW g, Work(g)
  PROVE  /\ events \subseteq events'
         /\ \A e \in events' : e \in events \/ e = Event(g, "message-ready", g)
<1>1. ASSUME NEW phase, Renew(g, phase) PROVE events' = events
  BY <1>1 DEF Renew
<1>2. CASE BindRuntime(g)
  BY <1>2 DEF BindRuntime
<1>3. CASE MessageReady(g)
  BY <1>3 DEF MessageReady
<1>4. CASE CheckpointReady(g)
  BY <1>4 DEF CheckpointReady
<1> QED
  BY <1>1, <1>2, <1>3, <1>4 DEF Work

LEMMA SettledOnceFinished ==
  ASSUME SettlementInv, NEW g \in Generations, Live(g),
         NEW outcome \in Settled, NEW c, FinishDelivery(g, outcome, c)
  PROVE  SettledOnce'
<1> DEFINE n == host[g].delivery
           end == Event(g, outcome, 0)
<1>1. /\ n \in Numbers /\ delivery[n].status = "claimed"
  BY OwnerHandles DEF SettlementInv, FinishDelivery
<1>2. /\ end.type = outcome /\ end.delivery = n /\ end.generation = g
  BY DEF Event
<1>3. \A e \in Answer(g, outcome) :
        /\ e.type = "message" /\ e.delivery = n /\ e.generation = g
        /\ outcome = "completed"
  BY DEF Answer, Event
<1>4. events' = events \cup {end} \cup Answer(g, outcome)
  BY DEF FinishDelivery
<1>5. \A e \in events : e.delivery = n => e.type \notin Settled \cup {"message"}
  BY DEF FinishDelivery, SettlementInv, SettledOnce, Settled
<1>6. \A m \in Numbers : delivery'[m].status =
        IF m = n THEN outcome ELSE delivery[m].status
  BY DEF FinishDelivery, SettlementInv, InboxInv, ShapeInv, TypeOK, DeliveryRows
<1>7. "message" \notin Settled
  BY DEF Settled
<1>8. \A m \in Numbers, s \in Settled :
        delivery'[m].status = s <=>
          \E e \in events' : e.delivery = m /\ e.type = s
  <2>1. SUFFICES ASSUME NEW m \in Numbers, NEW s \in Settled
                 PROVE  delivery'[m].status = s <=>
                          \E e \in events' : e.delivery = m /\ e.type = s
    OBVIOUS
  <2>2. CASE m = n
    BY <1>2, <1>3, <1>4, <1>5, <1>6, <1>7, <2>1, <2>2
  <2>3. CASE m # n
    <3>1. delivery'[m].status = delivery[m].status
      BY <1>6, <2>3
    <3>2. \A e \in events' : e.delivery = m => e \in events
      BY <1>2, <1>3, <1>4, <2>3
    <3>3. delivery[m].status = s <=>
            \E e \in events : e.delivery = m /\ e.type = s
      BY <2>1 DEF SettlementInv, SettledOnce
    <3> QED
      BY <1>4, <3>1, <3>2, <3>3
  <2> QED
    BY <2>2, <2>3
<1>9. ASSUME NEW d \in events', NEW e \in events',
             d.delivery = e.delivery, d.type \in Settled
      PROVE  /\ e.type \in Settled => e = d
             /\ e.type = "message" =>
                  d.type = "completed" /\ e.generation = d.generation
  <2>1. CASE d.delivery = n
    <3>1. d = end
      BY <1>3, <1>4, <1>5, <1>7, <1>9, <2>1
    <3>2. e = end \/ e \in Answer(g, outcome)
            \/ e.type \notin Settled \cup {"message"}
      BY <1>4, <1>5, <1>9, <2>1
    <3> QED
      BY <1>2, <1>3, <1>7, <3>1, <3>2
  <2>2. CASE d.delivery # n
    <3>1. d \in events /\ e \in events
      BY <1>2, <1>3, <1>4, <1>9, <2>2
    <3> QED
      BY <1>9, <3>1 DEF SettlementInv, SettledOnce
  <2> QED
    BY <2>1, <2>2
<1>10. \A e \in events' : e.type = "message" =>
         \E d \in events' : d.delivery = e.delivery /\ d.type = "completed"
  <2>1. SUFFICES ASSUME NEW e \in events', e.type = "message"
                 PROVE  \E d \in events' : /\ d.delivery = e.delivery
                                           /\ d.type = "completed"
    OBVIOUS
  <2>2. CASE e \in events
    BY <1>4, <2>1, <2>2 DEF SettlementInv, SettledOnce
  <2>3. CASE e \in Answer(g, outcome)
    BY <1>2, <1>3, <1>4, <2>3
  <2> QED
    BY <1>2, <1>4, <1>7, <2>1, <2>2, <2>3
<1> QED
  BY <1>8, <1>9, <1>10 DEF SettledOnce

LEMMA SettlementStep ==
  ASSUME SettlementInv, [Next]_vars PROVE SettlementInv'
<1>0. InboxInv'
  BY InboxStep DEF SettlementInv
<1>1. TypeOK /\ HostsExist /\ ShapeInv
  BY DEF SettlementInv, InboxInv, ShapeInv
<1>3. CASE Post
  BY <1>0, <1>1, <1>3, SettledOnceAppended DEF Post, TypeOK, SettlementInv
<1>4. CASE PostRebound
  <2> DEFINE row == [session EXCEPT !.generation = @ + 1, !.checkpoint = 0,
                                    !.runtimeSession = 0]
  <2>1. session.generation + 1 \in 0 .. MaxGeneration /\ 0 \in 0 .. MaxGeneration
    BY <1>1, <1>4, BoundAssumption DEF PostRebound, TypeOK, SessionRows
  <2>2. row \in SessionRows /\ row.deliverySequence = session.deliverySequence
    BY <1>1, <2>1 DEF TypeOK, SessionRows
  <2> QED
    BY <1>0, <1>4, <2>2, SettledOnceAppended DEF PostRebound, SettlementInv
<1>5. CASE Tick
  BY <1>0, <1>5, SettledOnceUnchanged DEF Tick, SettlementInv
<1>6. ASSUME NEW n \in Numbers, Elapse(n) PROVE SettledOnce'
  <2>1. \A m \in Numbers : delivery'[m].status = delivery[m].status
    BY <1>1, <1>6 DEF Elapse, TypeOK, DeliveryRows
  <2> QED
    BY <1>6, <2>1, SettledOnceKept DEF Elapse, SettlementInv
<1>7. ASSUME NEW w \in Workers, NEW n \in Numbers, Claim(w, n)
      PROVE  SettledOnce'
  <2>1. \A m \in Numbers : delivery'[m].status =
          IF m = n THEN "claimed" ELSE delivery[m].status
    BY <1>1, <1>7 DEF Claim, TypeOK, DeliveryRows
  <2>2. delivery[n].status \in Unsettled
    BY <1>7 DEF Claim, Oldest
  <2>3. \A m \in Numbers, s \in Settled :
          delivery'[m].status = s <=> delivery[m].status = s
    BY <2>1, <2>2 DEF Settled, Unsettled
  <2> QED
    BY <1>7, <2>3, SettledOnceKept DEF Claim, SettlementInv
<1>8. ASSUME NEW g \in Generations, HostStep(g) PROVE SettledOnce'
  <2>1. Live(g)
    BY <1>1, <1>8, HostStepCases
  <2>2. CASE Work(g)
    <3>1. delivery' = delivery
      BY <1>1, <2>1, <2>2, WorkEffect
    <3>2. /\ events \subseteq events'
          /\ \A e \in events' : e \in events \/ e.type = "message-ready"
      BY <2>2, WorkEvents DEF Event
    <3> QED
      BY <3>1, <3>2, SettledOnceKept DEF SettlementInv
  <2>3. CASE Settle(g)
    BY <2>1, <2>3, SettledOnceFinished DEF Settle
  <2>4. CASE Requeue(g)
    <3>1. PICK c \in 0 .. MaxGeneration : RetryDelivery(g, c)
      BY <2>4 DEF Requeue
    <3>2. \A m \in Numbers : delivery'[m].status =
            IF m = host[g].delivery THEN "pending" ELSE delivery[m].status
      BY <1>1, <3>1 DEF RetryDelivery, Requeued, TypeOK, DeliveryRows
    <3>3. delivery[host[g].delivery].status = "claimed"
      BY <3>1 DEF RetryDelivery, Owns
    <3>4. \A m \in Numbers, s \in Settled :
            delivery'[m].status = s <=> delivery[m].status = s
      BY <3>2, <3>3 DEF Settled
    <3>5. /\ events \subseteq events'
          /\ \A e \in events' : e \in events \/ e.type = "retrying"
      BY <3>1 DEF RetryDelivery, Event
    <3> QED
      BY <3>4, <3>5, SettledOnceKept DEF SettlementInv
  <2>5. CASE Abandon(g)
    BY <2>5, SettledOnceUnchanged DEF Abandon, SettlementInv
  <2> QED
    BY <1>1, <1>8, <2>2, <2>3, <2>4, <2>5, HostStepCases
<1>9. CASE UNCHANGED vars
  BY <1>0, <1>9, SettledOnceUnchanged DEF vars, SettlementInv
<1> QED
  BY <1>0, <1>3, <1>4, <1>5, <1>6, <1>7, <1>8, <1>9 DEF Next, SettlementInv

LEMMA SettlementInit == ASSUME Init PROVE SettlementInv
BY InboxInit DEF Init, SettlementInv, SettledOnce, NoDelivery, Settled

(* A delivery has one terminal event when it is settled and none before,   *)
(* and at most one answer, of the generation that completed it.            *)
THEOREM Settlement == Spec => []SettledOnce
<1>1. Spec => []SettlementInv
  BY SettlementInit, SettlementStep, PTL DEF Spec
<1>2. SettlementInv => SettledOnce
  BY DEF SettlementInv
<1> QED
  BY <1>1, <1>2, PTL

-----------------------------------------------------------------------------
(* The fence.                                                              *)

LEMMA SpeakingStep ==
  ASSUME TypeOK, [Next]_vars
  PROVE  \A e \in events' \ events : e.generation = session.generation
<1>1. ASSUME NEW g \in Generations, HostStep(g)
      PROVE  \A e \in events' \ events : e.generation = session.generation
  <2>1. CASE Work(g)
    <3>1. CASE MessageReady(g)
      BY <3>1 DEF MessageReady, Bound, Owns, Event
    <3>2. CASE ~MessageReady(g)
      <4>1. ASSUME NEW phase, Renew(g, phase) PROVE events' = events
        BY <4>1 DEF Renew
      <4>2. events' = events
        BY <2>1, <3>2, <4>1 DEF Work, BindRuntime, CheckpointReady
      <4> QED
        BY <4>2
    <3> QED
      BY <3>1, <3>2
  <2>2. CASE Settle(g)
    <3>1. PICK outcome \in Settled, c \in 0 .. MaxGeneration :
            FinishDelivery(g, outcome, c)
      BY <2>2 DEF Settle
    <3>2. session.generation = g
      BY <3>1 DEF FinishDelivery, Owns
    <3>3. \A e \in events' \ events : e.generation = g
      BY <3>1 DEF FinishDelivery, Answer, Event
    <3> QED
      BY <3>2, <3>3
  <2>3. CASE Requeue(g)
    <3>1. PICK c \in 0 .. MaxGeneration : RetryDelivery(g, c)
      BY <2>3 DEF Requeue
    <3> QED
      BY <3>1 DEF RetryDelivery, Owns, Event
  <2>4. CASE Abandon(g)
    BY <2>4 DEF Abandon
  <2> QED
    BY <1>1, <2>1, <2>2, <2>3, <2>4, HostStepCases
<1>2. ASSUME NEW row, AppendDelivery(row) PROVE events' = events
  BY <1>2 DEF AppendDelivery
<1>3. CASE Post \/ PostRebound
  BY <1>2, <1>3 DEF Post, PostRebound
<1>4. CASE Tick
  BY <1>4 DEF Tick
<1>5. ASSUME NEW n \in Numbers, Elapse(n) PROVE events' = events
  BY <1>5 DEF Elapse
<1>6. ASSUME NEW w \in Workers, NEW n \in Numbers, Claim(w, n)
      PROVE  events' = events
  BY <1>6 DEF Claim
<1>7. CASE UNCHANGED vars
  BY <1>7 DEF vars
<1> QED
  BY <1>1, <1>3, <1>4, <1>5, <1>6, <1>7 DEF Next

(* Nothing appears in the Room but from the host of the generation that is *)
(* current when it appears, however late an earlier host writes.           *)
THEOREM Fence == Spec => OnlyCurrentHostSpeaks
<1>1. Spec => []ShapeInv
  BY ShapeInit, ShapeStep, PTL DEF Spec
<1>2. ShapeInv /\ [Next]_vars =>
        [\A e \in events' \ events : e.generation = session.generation]_vars
  BY SpeakingStep DEF ShapeInv
<1> QED
  BY <1>1, <1>2, PTL DEF Spec, OnlyCurrentHostSpeaks

-----------------------------------------------------------------------------
(* Rows, hosts and events implement the mailbox.                           *)

SettledSet == {n \in Numbers : delivery[n].status \in Settled}
AnsweredSet ==
  {n \in Numbers : \E e \in events : e.type = "message" /\ e.delivery = n}

LEMMA MailboxStutter ==
  ASSUME session'.deliverySequence = session.deliverySequence,
         \A n \in Numbers :
           delivery'[n].status \in Settled <=> delivery[n].status \in Settled,
         events \subseteq events',
         \A e \in events' : e \in events \/ e.type # "message"
  PROVE  UNCHANGED Mailbox!mailboxVars
<1>1. SettledSet' = SettledSet
  BY DEF SettledSet
<1>2. AnsweredSet' = AnsweredSet
  BY DEF AnsweredSet
<1> QED
  BY <1>1, <1>2 DEF Mailbox!mailboxVars, SettledSet, AnsweredSet

LEMMA MailboxPost ==
  ASSUME InboxInv, NEW row \in SessionRows, AppendDelivery(row),
         row.deliverySequence = session.deliverySequence
  PROVE  Mailbox!Post
<1>1. TypeOK
  BY DEF InboxInv, ShapeInv
<1>2. session.deliverySequence + 1 \in Numbers
  BY <1>1, BoundAssumption DEF AppendDelivery, TypeOK, SessionRows, Numbers
<1>3. delivery[session.deliverySequence + 1].status = "none"
  BY <1>1, <1>2, BoundAssumption
  DEF InboxInv, SessionMatchesInbox, TypeOK, SessionRows
<1>4. \A n \in Numbers :
        delivery'[n].status \in Settled <=> delivery[n].status \in Settled
  BY <1>1, <1>2, <1>3 DEF AppendDelivery, TypeOK, NoDelivery, Settled
<1>5. SettledSet' = SettledSet
  BY <1>4 DEF SettledSet
<1>6. AnsweredSet' = AnsweredSet
  BY DEF AppendDelivery, AnsweredSet
<1>7. session'.deliverySequence = session.deliverySequence + 1
  BY DEF AppendDelivery, SessionRows
<1> QED
  BY <1>5, <1>6, <1>7 DEF Mailbox!Post, SettledSet, AnsweredSet

LEMMA MailboxSettle ==
  ASSUME SettlementInv, NEW g \in Generations, Live(g),
         NEW outcome \in Settled, NEW c, FinishDelivery(g, outcome, c)
  PROVE  Mailbox!Next
<1> DEFINE n == host[g].delivery
<1>1. /\ n \in Numbers /\ n <= session.deliverySequence
      /\ delivery[n].status = "claimed"
      /\ \A m \in 1 .. (n - 1) : delivery[m].status \in Settled
  BY OwnerHandles DEF SettlementInv, FinishDelivery
<1>2. session.deliverySequence \in Nat /\ n \in 1 .. session.deliverySequence
  BY <1>1, BoundAssumption
  DEF SettlementInv, InboxInv, ShapeInv, TypeOK, SessionRows, Numbers
<1>3. n \notin SettledSet
  BY <1>1 DEF SettledSet, Settled
<1>4. \A m \in 1 .. (n - 1) : m \in SettledSet
  BY <1>1, BoundAssumption DEF SettledSet, Numbers
<1>5. SettledSet' = SettledSet \cup {n}
  <2>1. \A m \in Numbers : delivery'[m].status =
          IF m = n THEN outcome ELSE delivery[m].status
    BY DEF FinishDelivery, SettlementInv, InboxInv, ShapeInv, TypeOK,
           DeliveryRows
  <2> QED
    BY <1>1, <2>1 DEF SettledSet
<1>6. AnsweredSet' \in {AnsweredSet, AnsweredSet \cup {n}}
  <2>1. \A e \in Answer(g, outcome) : e.type = "message" /\ e.delivery = n
    BY DEF Answer, Event
  <2>2. Event(g, outcome, 0).type # "message"
    BY DEF Event, Settled
  <2>3. events' = events \cup {Event(g, outcome, 0)} \cup Answer(g, outcome)
    BY DEF FinishDelivery
  <2>4. CASE Answer(g, outcome) = {}
    BY <2>2, <2>3, <2>4 DEF AnsweredSet
  <2>5. CASE Answer(g, outcome) # {}
    BY <1>1, <2>1, <2>2, <2>3, <2>5 DEF AnsweredSet
  <2> QED
    BY <2>4, <2>5
<1>7. session'.deliverySequence = session.deliverySequence
  BY ReleaseEffect
  DEF FinishDelivery, SettlementInv, InboxInv, ShapeInv, TypeOK
<1>8. PICK m \in 1 .. session.deliverySequence : m = n
  BY <1>2
<1>9. Mailbox!Settle(m)
  BY <1>2, <1>3, <1>4, <1>5, <1>6, <1>7, <1>8
  DEF Mailbox!Settle, SettledSet, AnsweredSet
<1> QED
  BY <1>8, <1>9 DEF Mailbox!Next

LEMMA MailboxStep ==
  ASSUME SettlementInv, [Next]_vars
  PROVE  [Mailbox!Next]_(Mailbox!mailboxVars)
<1>1. TypeOK /\ ShapeInv /\ InboxInv
  BY DEF SettlementInv, InboxInv, ShapeInv
<1>2. CASE Post
  BY <1>1, <1>2, MailboxPost DEF Post, TypeOK, Mailbox!Next
<1>3. CASE PostRebound
  <2> DEFINE row == [session EXCEPT !.generation = @ + 1, !.checkpoint = 0,
                                    !.runtimeSession = 0]
  <2>1. session.generation + 1 \in 0 .. MaxGeneration /\ 0 \in 0 .. MaxGeneration
    BY <1>1, <1>3, BoundAssumption DEF PostRebound, TypeOK, SessionRows
  <2>2. row \in SessionRows /\ row.deliverySequence = session.deliverySequence
    BY <1>1, <2>1 DEF TypeOK, SessionRows
  <2> QED
    BY <1>1, <1>3, <2>2, MailboxPost DEF PostRebound, Mailbox!Next
<1>4. CASE Tick
  BY <1>1, <1>4, MailboxStutter DEF Tick, TypeOK, SessionRows
<1>5. ASSUME NEW n \in Numbers, Elapse(n)
      PROVE  UNCHANGED Mailbox!mailboxVars
  <2>1. \A m \in Numbers : delivery'[m].status = delivery[m].status
    BY <1>1, <1>5 DEF Elapse, TypeOK, DeliveryRows
  <2> QED
    BY <1>5, <2>1, MailboxStutter DEF Elapse
<1>6. ASSUME NEW w \in Workers, NEW n \in Numbers, Claim(w, n)
      PROVE  UNCHANGED Mailbox!mailboxVars
  <2>1. \A m \in Numbers : delivery'[m].status =
          IF m = n THEN "claimed" ELSE delivery[m].status
    BY <1>1, <1>6 DEF Claim, TypeOK, DeliveryRows
  <2>2. delivery[n].status \in Unsettled
    BY <1>6 DEF Claim, Oldest
  <2>3. \A m \in Numbers :
          delivery'[m].status \in Settled <=> delivery[m].status \in Settled
    BY <2>1, <2>2 DEF Settled, Unsettled
  <2>4. session'.deliverySequence = session.deliverySequence
    BY <1>1, <1>6 DEF Claim, TypeOK, SessionRows
  <2> QED
    BY <1>6, <2>3, <2>4, MailboxStutter DEF Claim
<1>7. ASSUME NEW g \in Generations, HostStep(g)
      PROVE  [Mailbox!Next]_(Mailbox!mailboxVars)
  <2>1. Live(g)
    BY <1>1, <1>7, HostStepCases
  <2>2. CASE Work(g)
    <3>1. /\ session'.deliverySequence = session.deliverySequence
          /\ delivery' = delivery
      BY <1>1, <2>1, <2>2, WorkEffect
    <3>2. /\ events \subseteq events'
          /\ \A e \in events' : e \in events \/ e.type # "message"
      BY <2>2, WorkEvents DEF Event
    <3> QED
      BY <3>1, <3>2, MailboxStutter
  <2>3. CASE Settle(g)
    BY <2>1, <2>3, MailboxSettle DEF Settle
  <2>4. CASE Requeue(g)
    <3>1. PICK c \in 0 .. MaxGeneration : RetryDelivery(g, c)
      BY <2>4 DEF Requeue
    <3>2. \A m \in Numbers : delivery'[m].status =
            IF m = host[g].delivery THEN "pending" ELSE delivery[m].status
      BY <1>1, <3>1 DEF RetryDelivery, Requeued, TypeOK, DeliveryRows
    <3>3. delivery[host[g].delivery].status = "claimed"
      BY <3>1 DEF RetryDelivery, Owns
    <3>4. \A m \in Numbers :
            delivery'[m].status \in Settled <=> delivery[m].status \in Settled
      BY <3>2, <3>3 DEF Settled
    <3>5. session'.deliverySequence = session.deliverySequence
      BY <1>1, <3>1, ReleaseEffect DEF RetryDelivery, TypeOK
    <3>6. /\ events \subseteq events'
          /\ \A e \in events' : e \in events \/ e.type # "message"
      BY <3>1 DEF RetryDelivery, Event
    <3> QED
      BY <3>4, <3>5, <3>6, MailboxStutter
  <2>5. CASE Abandon(g)
    BY <2>5, MailboxStutter DEF Abandon
  <2> QED
    BY <1>1, <1>7, <2>2, <2>3, <2>4, <2>5, HostStepCases
<1>8. CASE UNCHANGED vars
  BY <1>8, MailboxStutter DEF vars
<1> QED
  BY <1>2, <1>3, <1>4, <1>5, <1>6, <1>7, <1>8 DEF Next

LEMMA MailboxInit == ASSUME Init PROVE Mailbox!Init
BY DEF Init, Mailbox!Init, NoSession, NoDelivery, Settled

(* The session implements the mailbox: first in, first out, every message  *)
(* settled at most once, an answer only in the step that settles it.       *)
THEOREM Implementation == Spec => KeepsMailbox
<1>1. Spec => []SettlementInv
  BY SettlementInit, SettlementStep, PTL DEF Spec
<1>2. SettlementInv /\ [Next]_vars => [Mailbox!Next]_(Mailbox!mailboxVars)
  BY MailboxStep
<1>3. Init => Mailbox!Init
  BY MailboxInit
<1> QED
  BY <1>1, <1>2, <1>3, PTL DEF Spec, KeepsMailbox, Mailbox!Spec

-----------------------------------------------------------------------------
(* Checkpoints.  That a checkpoint which is stored later is of a later     *)
(* generation needs that the stored one is of a generation already given.  *)

CheckpointBehind == session.checkpoint <= session.generation

LEMMA CheckpointStep ==
  ASSUME ShapeInv, CheckpointBehind, [Next]_vars
  PROVE  /\ CheckpointBehind'
         /\ \/ session'.checkpoint >= session.checkpoint
            \/ session'.checkpoint = 0 /\ session'.runtimeSession = 0
<1> DEFINE Goal == /\ CheckpointBehind'
                   /\ \/ session'.checkpoint >= session.checkpoint
                      \/ session'.checkpoint = 0 /\ session'.runtimeSession = 0
<1>1. TypeOK
  BY DEF ShapeInv
<1>2. session \in SessionRows
  BY <1>1 DEF TypeOK
<1>3. session.checkpoint \in Nat /\ session.generation \in Nat
  BY <1>2, BoundAssumption DEF SessionRows
<1>4. ASSUME session'.checkpoint = session.checkpoint,
             session'.generation >= session.generation,
             session'.generation \in Nat
      PROVE  Goal
  BY <1>3, <1>4 DEF CheckpointBehind
<1>5. ASSUME NEW g \in Generations, session.generation = g,
             session'.checkpoint = g, session'.generation = session.generation
      PROVE  Goal
  BY <1>3, <1>5 DEF CheckpointBehind, Generations
<1>6. CASE Post
  BY <1>2, <1>3, <1>4, <1>6 DEF Post, AppendDelivery, SessionRows
<1>7. CASE PostRebound
  <2>1. session'.checkpoint = 0 /\ session'.runtimeSession = 0
          /\ session'.generation = session.generation + 1
    BY <1>2, <1>7 DEF PostRebound, AppendDelivery, SessionRows
  <2> QED
    BY <1>3, <2>1 DEF CheckpointBehind
<1>8. CASE Tick
  BY <1>2, <1>3, <1>4, <1>8 DEF Tick, SessionRows
<1>9. ASSUME NEW n \in Numbers, Elapse(n) PROVE Goal
  BY <1>3, <1>4, <1>9 DEF Elapse
<1>10. ASSUME NEW w \in Workers, NEW n \in Numbers, Claim(w, n) PROVE Goal
  <2>1. session'.checkpoint = session.checkpoint
          /\ session'.generation = session.generation + 1
    BY <1>2, <1>10 DEF Claim, SessionRows
  <2> QED
    BY <1>3, <1>4, <2>1
<1>11. ASSUME NEW g \in Generations, HostStep(g) PROVE Goal
  <2>1. ASSUME NEW phase, Renew(g, phase) PROVE Goal
    <3>1. session'.checkpoint = session.checkpoint
            /\ session'.generation = session.generation
      BY <1>2, <2>1 DEF Renew, SessionRows
    <3> QED
      BY <1>3, <1>4, <3>1
  <2>2. CASE BindRuntime(g)
    BY <1>2, <1>3, <1>4, <2>2 DEF BindRuntime, SessionRows
  <2>3. CASE MessageReady(g)
    BY <1>3, <1>4, <2>3 DEF MessageReady
  <2>4. CASE CheckpointReady(g)
    BY <1>2, <1>5, <2>4 DEF CheckpointReady, Bound, Owns, SessionRows
  <2>5. ASSUME NEW c, Owns(g), CheckpointFits(g, c), Release(c) PROVE Goal
    <3>1. /\ session'.generation = session.generation
          /\ session'.checkpoint = IF c = 0 THEN session.checkpoint ELSE c
      BY <1>2, <2>5, ReleaseEffect
    <3>2. CASE c = 0
      BY <1>3, <1>4, <3>1, <3>2
    <3>3. CASE c # 0
      BY <1>5, <2>5, <3>1, <3>3 DEF CheckpointFits, Owns
    <3> QED
      BY <3>2, <3>3
  <2>6. CASE Settle(g)
    <3>1. PICK outcome \in Settled, c \in 0 .. MaxGeneration :
            FinishDelivery(g, outcome, c)
      BY <2>6 DEF Settle
    <3> QED
      BY <2>5, <3>1 DEF FinishDelivery
  <2>7. CASE Requeue(g)
    <3>1. PICK c \in 0 .. MaxGeneration : RetryDelivery(g, c)
      BY <2>7 DEF Requeue
    <3> QED
      BY <2>5, <3>1 DEF RetryDelivery
  <2>8. CASE Abandon(g)
    BY <1>3, <1>4, <2>8 DEF Abandon
  <2> QED
    BY <1>1, <1>11, <2>1, <2>2, <2>3, <2>4, <2>6, <2>7, <2>8, HostStepCases
    DEF Work
<1>12. CASE UNCHANGED vars
  BY <1>3, <1>4, <1>12 DEF vars
<1> QED
  BY <1>6, <1>7, <1>8, <1>9, <1>10, <1>11, <1>12 DEF Next

(* A stored checkpoint is replaced by a later one only, or dropped with    *)
(* the binding it belonged to.                                             *)
THEOREM Checkpointing == Spec => CheckpointsAdvance
<1>1. Init => ShapeInv /\ CheckpointBehind
  BY ShapeInit DEF Init, CheckpointBehind, NoSession
<1>2. ShapeInv /\ CheckpointBehind /\ [Next]_vars
        => ShapeInv' /\ CheckpointBehind'
  BY ShapeStep, CheckpointStep
<1>3. ShapeInv /\ CheckpointBehind /\ [Next]_vars =>
        [\/ session'.checkpoint >= session.checkpoint
         \/ session'.checkpoint = 0 /\ session'.runtimeSession = 0]_vars
  BY CheckpointStep
<1> QED
  BY <1>1, <1>2, <1>3, PTL DEF Spec, CheckpointsAdvance

-----------------------------------------------------------------------------
(* Drafts.  The draft a live host remembers is one of its own delivery,    *)
(* and no retry came between the draft and this host; for the next host to *)
(* inherit that, the current generation has not retried what it handles.   *)

DraftOf(n, g) ==
  \E d \in events : d.type = "message-ready" /\ d.delivery = n /\ d.generation = g
RetriedWithin(n, from, to) ==
  \E r \in events : r.type = "retrying" /\ r.delivery = n
                    /\ r.generation \in from .. to

EventsBehind == \A e \in events : e.generation <= session.generation
DraftsKnown ==
  \A g \in Generations : Live(g) /\ host[g].output # 0 =>
    /\ DraftOf(host[g].delivery, host[g].output)
    /\ ~RetriedWithin(host[g].delivery, host[g].output, g)
CurrentNotRetried ==
  session.current # 0 =>
    ~RetriedWithin(session.current, session.generation, session.generation)

DraftInv ==
  /\ SettlementInv
  /\ EventsBehind
  /\ DraftsKnown
  /\ CurrentNotRetried
  /\ AnswerIsOfThisAttempt

(* Steps that add no event and bring no host with a new draft.             *)
LEMMA DraftsQuiet ==
  ASSUME DraftInv, SettlementInv', events' = events,
         session'.generation \in Nat, session'.generation >= session.generation,
         session'.current = 0 \/ /\ session'.current = session.current
                                 /\ session'.generation = session.generation,
         \A g \in Generations : Live(g)' =>
           /\ Live(g)
           /\ host'[g].output = host[g].output
           /\ host'[g].delivery = host[g].delivery
  PROVE  DraftInv'
<1>1. TypeOK /\ session.generation \in Nat
  BY BoundAssumption
  DEF DraftInv, SettlementInv, InboxInv, ShapeInv, TypeOK, SessionRows
<1>2. EventsBehind'
  BY <1>1 DEF DraftInv, EventsBehind, TypeOK, EventRows, Generations
<1>3. DraftsKnown'
  BY DEF DraftInv, DraftsKnown, DraftOf, RetriedWithin
<1>4. CurrentNotRetried'
  BY DEF DraftInv, CurrentNotRetried, RetriedWithin
<1>5. AnswerIsOfThisAttempt'
  BY DEF DraftInv, AnswerIsOfThisAttempt
<1> QED
  BY <1>2, <1>3, <1>4, <1>5 DEF DraftInv

LEMMA DraftsClaimed ==
  ASSUME DraftInv, SettlementInv', NEW w \in Workers, NEW n \in Numbers,
         Claim(w, n)
  PROVE  DraftInv'
<1> DEFINE g == session.generation + 1
<1>1. /\ TypeOK /\ session \in SessionRows
      /\ session.generation \in Nat
      /\ host \in [Generations -> Activities]
      /\ events \subseteq EventRows
  BY BoundAssumption
  DEF DraftInv, SettlementInv, InboxInv, ShapeInv, TypeOK, SessionRows
<1>2. /\ g \in Generations
      /\ session'.generation = g
      /\ session'.current = n
      /\ events' = events
  BY <1>1 DEF Claim, SessionRows
<1>3. /\ host'[g].output = PendingOutput(n)
      /\ host'[g].delivery = n
      /\ \A h \in Generations : h # g => host'[h] = host[h]
  BY <1>1, <1>2 DEF Claim
<1>4. \A e \in events : e.generation \in Nat /\ e.generation < g
  BY <1>1 DEF DraftInv, EventsBehind, EventRows, Generations
<1>5. EventsBehind'
  BY <1>1, <1>2, <1>4 DEF EventsBehind
<1>6. CurrentNotRetried'
  BY <1>1, <1>2, <1>4 DEF CurrentNotRetried, RetriedWithin
<1>7. DraftsKnown'
  <2>1. SUFFICES ASSUME NEW h \in Generations, Live(h)', host'[h].output # 0
                 PROVE  /\ \E d \in events' : /\ d.type = "message-ready"
                                              /\ d.delivery = host'[h].delivery
                                              /\ d.generation = host'[h].output
                        /\ ~\E r \in events' :
                              /\ r.type = "retrying"
                              /\ r.delivery = host'[h].delivery
                              /\ r.generation \in host'[h].output .. h
    BY DEF DraftsKnown, DraftOf, RetriedWithin
  <2>2. CASE h = g
    <3>1. /\ delivery[n].status = "claimed"
          /\ DraftOf(n, session.generation)
          /\ host'[h].output = session.generation
      BY <1>3, <2>1, <2>2 DEF PendingOutput, DraftOf
    <3>2. session.current = n /\ n # 0
      BY <3>1
      DEF DraftInv, SettlementInv, InboxInv, SessionMatchesInbox, Numbers
    <3>3. ~RetriedWithin(n, session.generation, session.generation)
      BY <3>2 DEF DraftInv, CurrentNotRetried
    <3>4. ~RetriedWithin(n, session.generation, g)
      BY <1>1, <1>4, <3>3 DEF RetriedWithin
    <3> QED
      BY <1>2, <1>3, <2>2, <3>1, <3>4 DEF DraftOf, RetriedWithin
  <2>3. CASE h # g
    <3>1. host'[h] = host[h]
      BY <1>3, <2>3
    <3>2. Live(h)
      BY <2>1, <3>1 DEF Live
    <3> QED
      BY <1>2, <2>1, <3>1, <3>2
      DEF DraftInv, DraftsKnown, DraftOf, RetriedWithin
  <2> QED
    BY <2>2, <2>3
<1>8. AnswerIsOfThisAttempt'
  BY <1>2 DEF DraftInv, AnswerIsOfThisAttempt
<1> QED
  BY <1>5, <1>6, <1>7, <1>8 DEF DraftInv

LEMMA DraftsStored ==
  ASSUME DraftInv, SettlementInv', NEW g \in Generations, MessageReady(g)
  PROVE  DraftInv'
<1> DEFINE draft == Event(g, "message-ready", g)
<1>1. /\ TypeOK
      /\ host \in [Generations -> Activities]
      /\ g \in Nat
  BY DEF DraftInv, SettlementInv, InboxInv, ShapeInv, TypeOK, Generations
<1>2. /\ session.generation = g
      /\ session.current = host[g].delivery
      /\ session' = session
      /\ events' = events \cup {draft}
  BY DEF MessageReady, Bound, Owns
<1>3. /\ draft.type = "message-ready" /\ draft.generation = g
      /\ draft.delivery = host[g].delivery
  BY DEF Event
<1>4. /\ host'[g].output = g
      /\ \A h \in Generations : /\ host'[h].delivery = host[h].delivery
                                /\ host'[h].phase = host[h].phase
                                /\ h # g => host'[h] = host[h]
  BY <1>1 DEF MessageReady, Activities
<1>6. EventsBehind'
  BY <1>1, <1>2, <1>3 DEF DraftInv, EventsBehind
<1>7. CurrentNotRetried'
  BY <1>2, <1>3 DEF DraftInv, CurrentNotRetried, RetriedWithin
<1>8. DraftsKnown'
  <2>1. SUFFICES ASSUME NEW h \in Generations, Live(h)', host'[h].output # 0
                 PROVE  /\ \E d \in events' : /\ d.type = "message-ready"
                                              /\ d.delivery = host'[h].delivery
                                              /\ d.generation = host'[h].output
                        /\ ~\E r \in events' :
                              /\ r.type = "retrying"
                              /\ r.delivery = host'[h].delivery
                              /\ r.generation \in host'[h].output .. h
    BY DEF DraftsKnown, DraftOf, RetriedWithin
  <2>2. CASE h = g
    <3>1. host[g].delivery # 0
      BY <1>1 DEF DraftInv, SettlementInv, InboxInv, ShapeInv, HostsExist,
                  MessageReady, Bound, Numbers
    <3>2. ~RetriedWithin(host[g].delivery, g, g)
      BY <1>2, <3>1 DEF DraftInv, CurrentNotRetried
    <3> QED
      BY <1>2, <1>3, <1>4, <2>2, <3>2 DEF DraftOf, RetriedWithin
  <2>3. CASE h # g
    <3>1. Live(h)
      BY <1>4, <2>1 DEF Live
    <3> QED
      BY <1>2, <1>3, <1>4, <2>1, <2>3, <3>1
      DEF DraftInv, DraftsKnown, DraftOf, RetriedWithin
  <2> QED
    BY <2>2, <2>3
<1>9. AnswerIsOfThisAttempt'
  BY <1>2, <1>3 DEF DraftInv, AnswerIsOfThisAttempt
<1> QED
  BY <1>6, <1>7, <1>8, <1>9 DEF DraftInv

LEMMA DraftsAnswered ==
  ASSUME DraftInv, SettlementInv', NEW g \in Generations, Live(g),
         NEW outcome \in Settled, NEW c, FinishDelivery(g, outcome, c)
  PROVE  DraftInv'
<1> DEFINE n == host[g].delivery
           end == Event(g, outcome, 0)
<1>1. /\ TypeOK /\ session \in SessionRows
      /\ host \in [Generations -> Activities]
      /\ g \in Nat
  BY DEF DraftInv, SettlementInv, InboxInv, ShapeInv, TypeOK, Generations
<1>2. session.generation = g
  BY DEF FinishDelivery, Owns
<1>3. session'.generation = session.generation /\ session'.current = 0
  BY <1>1, ReleaseEffect DEF FinishDelivery
<1>4. /\ end.type \in Settled /\ end.generation = g
      /\ \A e \in Answer(g, outcome) :
           /\ e.type = "message" /\ e.delivery = n /\ e.generation = g
           /\ e.draft = host[g].output /\ host[g].output # 0
  BY DEF Event, Answer
<1>5. events' = events \cup {end} \cup Answer(g, outcome)
  BY DEF FinishDelivery
<1>6. \A h \in Generations : /\ host'[h].output = host[h].output
                             /\ host'[h].delivery = host[h].delivery
                             /\ Live(h)' => Live(h)
  BY <1>1 DEF FinishDelivery, Activities, Live
<1>7. /\ "message-ready" \notin Settled /\ "retrying" \notin Settled
      /\ "message" \notin Settled
  BY DEF Settled
<1>8. EventsBehind'
  BY <1>1, <1>2, <1>3, <1>4, <1>5 DEF DraftInv, EventsBehind
<1>9. CurrentNotRetried'
  BY <1>3 DEF CurrentNotRetried
<1>10. DraftsKnown'
  BY <1>4, <1>5, <1>6, <1>7
  DEF DraftInv, DraftsKnown, DraftOf, RetriedWithin
<1>11. AnswerIsOfThisAttempt'
  <2>1. SUFFICES ASSUME NEW e \in events', e.type = "message"
                 PROVE  /\ \E d \in events' : /\ d.type = "message-ready"
                                              /\ d.delivery = e.delivery
                                              /\ d.generation = e.draft
                        /\ ~\E r \in events' :
                              /\ r.type = "retrying"
                              /\ r.delivery = e.delivery
                              /\ r.generation \in e.draft .. e.generation
    BY DEF AnswerIsOfThisAttempt
  <2>2. \A r \in events' : r.type = "retrying" => r \in events
    BY <1>4, <1>5, <1>7
  <2>3. CASE e \in events
    BY <1>5, <2>1, <2>2, <2>3 DEF DraftInv, AnswerIsOfThisAttempt
  <2>4. CASE e \in Answer(g, outcome)
    <3>1. /\ DraftOf(n, host[g].output)
          /\ ~RetriedWithin(n, host[g].output, g)
      BY <1>4, <2>4 DEF DraftInv, DraftsKnown
    <3> QED
      BY <1>4, <1>5, <2>2, <2>4, <3>1 DEF DraftOf, RetriedWithin
  <2> QED
    BY <1>4, <1>5, <1>7, <2>1, <2>3, <2>4
<1> QED
  BY <1>8, <1>9, <1>10, <1>11 DEF DraftInv

LEMMA DraftsRetried ==
  ASSUME DraftInv, SettlementInv', NEW g \in Generations, Live(g),
         NEW c, RetryDelivery(g, c)
  PROVE  DraftInv'
<1> DEFINE n == host[g].delivery
           retry == Event(g, "retrying", 0)
<1>1. /\ TypeOK /\ session \in SessionRows
      /\ host \in [Generations -> Activities]
      /\ events \subseteq EventRows
      /\ g \in Nat
  BY DEF DraftInv, SettlementInv, InboxInv, ShapeInv, TypeOK, Generations
<1>2. session.generation = g /\ delivery[n].status = "claimed"
  BY DEF RetryDelivery, Owns
<1>3. session'.generation = session.generation /\ session'.current = 0
  BY <1>1, ReleaseEffect DEF RetryDelivery
<1>4. /\ retry.type = "retrying" /\ retry.generation = g /\ retry.delivery = n
      /\ events' = events \cup {retry}
  BY DEF Event, RetryDelivery
<1>5. /\ host'[g].phase = "gone"
      /\ \A h \in Generations : h # g => host'[h] = host[h]
  BY <1>1 DEF RetryDelivery, Activities
<1>6. EventsBehind'
  BY <1>1, <1>2, <1>3, <1>4 DEF DraftInv, EventsBehind
<1>7. CurrentNotRetried'
  BY <1>3 DEF CurrentNotRetried
<1>8. DraftsKnown'
  <2>1. SUFFICES ASSUME NEW h \in Generations, Live(h)', host'[h].output # 0
                 PROVE  /\ \E d \in events' : /\ d.type = "message-ready"
                                              /\ d.delivery = host'[h].delivery
                                              /\ d.generation = host'[h].output
                        /\ ~\E r \in events' :
                              /\ r.type = "retrying"
                              /\ r.delivery = host'[h].delivery
                              /\ r.generation \in host'[h].output .. h
    BY DEF DraftsKnown, DraftOf, RetriedWithin
  <2>2. h # g
    BY <1>5, <2>1 DEF Live
  <2>3. host'[h] = host[h] /\ Live(h)
    BY <1>5, <2>1, <2>2 DEF Live
  <2>4. h < g
    (* An activity that exists is of a generation that was given.          *)
    BY <1>1, <1>2, <2>2, <2>3
    DEF DraftInv, SettlementInv, InboxInv, ShapeInv, HostsExist, Live, Generations
  <2>5. /\ DraftOf(host[h].delivery, host[h].output)
        /\ ~RetriedWithin(host[h].delivery, host[h].output, h)
    BY <2>1, <2>3 DEF DraftInv, DraftsKnown
  <2>6. \A from : g \notin from .. h
    BY <1>1, <2>4 DEF Generations
  <2> QED
    BY <1>4, <2>3, <2>5, <2>6 DEF DraftOf, RetriedWithin
<1>9. AnswerIsOfThisAttempt'
  <2>1. \A e \in events : e.type = "message" => e.delivery # n
    (* An answered delivery is settled, and this one is being handled.     *)
    <3>1. n \in Numbers
      BY OwnerHandles DEF DraftInv, SettlementInv, RetryDelivery
    <3>2. ~\E d \in events : d.delivery = n /\ d.type = "completed"
      BY <1>2, <3>1 DEF DraftInv, SettlementInv, SettledOnce, Settled
    <3> QED
      BY <3>2 DEF DraftInv, SettlementInv, SettledOnce
  <2> QED
    BY <1>4, <2>1 DEF DraftInv, AnswerIsOfThisAttempt
<1> QED
  BY <1>6, <1>7, <1>8, <1>9 DEF DraftInv

LEMMA DraftStep ==
  ASSUME DraftInv, [Next]_vars PROVE DraftInv'
<1>0. SettlementInv'
  BY SettlementStep DEF DraftInv
<1>1. /\ TypeOK /\ ShapeInv
      /\ session \in SessionRows /\ session.generation \in Nat
      /\ session'.generation \in Nat
      /\ host \in [Generations -> Activities]
  BY <1>0, BoundAssumption
  DEF DraftInv, SettlementInv, InboxInv, ShapeInv, TypeOK, SessionRows
<1>2. CASE Post
  BY <1>0, <1>1, <1>2, DraftsQuiet
  DEF Post, AppendDelivery, SessionRows, Live
<1>3. CASE PostRebound
  <2>1. /\ session'.generation = session.generation + 1
        /\ session'.current = 0
        /\ UNCHANGED <<host, events>>
    BY <1>1, <1>3 DEF PostRebound, AppendDelivery, SessionRows
  <2> QED
    BY <1>0, <1>1, <2>1, DraftsQuiet DEF Live
<1>4. CASE Tick
  BY <1>0, <1>1, <1>4, DraftsQuiet DEF Tick, SessionRows, Live
<1>5. ASSUME NEW n \in Numbers, Elapse(n) PROVE DraftInv'
  BY <1>0, <1>1, <1>5, DraftsQuiet DEF Elapse, Live
<1>6. ASSUME NEW w \in Workers, NEW n \in Numbers, Claim(w, n)
      PROVE  DraftInv'
  BY <1>0, <1>6, DraftsClaimed
<1>7. ASSUME NEW g \in Generations, HostStep(g) PROVE DraftInv'
  <2>1. Live(g)
    BY <1>1, <1>7, HostStepCases
  <2>2. CASE Work(g)
    <3>1. CASE MessageReady(g)
      BY <1>0, <3>1, DraftsStored
    <3>2. CASE ~MessageReady(g)
      <4>1. /\ session'.generation = session.generation
            /\ session'.current = session.current
        BY <1>1, <2>1, <2>2, WorkEffect
      <4>2. events' = events
        <5>1. ASSUME NEW phase, Renew(g, phase) PROVE events' = events
          BY <5>1 DEF Renew
        <5> QED
          BY <2>2, <3>2, <5>1 DEF Work, BindRuntime, CheckpointReady
      <4>3. \A h \in Generations : Live(h)' =>
              /\ Live(h)
              /\ host'[h].output = host[h].output
              /\ host'[h].delivery = host[h].delivery
        <5>1. ASSUME NEW phase, Renew(g, phase)
              PROVE  \A h \in Generations :
                       /\ h # g => host'[h] = host[h]
                       /\ host'[h].output = host[h].output
                       /\ host'[h].delivery = host[h].delivery
          BY <1>1, <5>1 DEF Renew, Activities
        <5>2. ASSUME BindRuntime(g) \/ CheckpointReady(g)
              PROVE  \A h \in Generations :
                       /\ h # g => host'[h] = host[h]
                       /\ host'[h].output = host[h].output
                       /\ host'[h].delivery = host[h].delivery
          <6>1. \/ host' = [host EXCEPT ![g].phase = "bound"]
                \/ host' = [host EXCEPT ![g].checkpoint = g]
            BY <5>2 DEF BindRuntime, CheckpointReady
          <6>2. CASE host' = [host EXCEPT ![g].phase = "bound"]
            BY <1>1, <6>2 DEF Activities
          <6>3. CASE host' = [host EXCEPT ![g].checkpoint = g]
            BY <1>1, <6>3 DEF Activities
          <6> QED
            BY <6>1, <6>2, <6>3
        <5> QED
          BY <2>1, <2>2, <3>2, <5>1, <5>2 DEF Work, Live
      <4> QED
        BY <1>0, <1>1, <4>1, <4>2, <4>3, DraftsQuiet
    <3> QED
      BY <3>1, <3>2
  <2>3. CASE Settle(g)
    BY <1>0, <2>1, <2>3, DraftsAnswered DEF Settle
  <2>4. CASE Requeue(g)
    BY <1>0, <2>1, <2>4, DraftsRetried DEF Requeue
  <2>5. CASE Abandon(g)
    <3>1. \A h \in Generations : Live(h)' =>
            /\ Live(h)
            /\ host'[h].output = host[h].output
            /\ host'[h].delivery = host[h].delivery
      BY <1>1, <2>5 DEF Abandon, Activities, Live
    <3> QED
      BY <1>0, <1>1, <2>5, <3>1, DraftsQuiet DEF Abandon
  <2> QED
    BY <1>1, <1>7, <2>2, <2>3, <2>4, <2>5, HostStepCases
<1>8. CASE UNCHANGED vars
  BY <1>0, <1>1, <1>8, DraftsQuiet DEF vars, Live
<1> QED
  BY <1>2, <1>3, <1>4, <1>5, <1>6, <1>7, <1>8 DEF Next

LEMMA DraftInit == ASSUME Init PROVE DraftInv
BY SettlementInit
DEF Init, DraftInv, EventsBehind, DraftsKnown, CurrentNotRetried,
    AnswerIsOfThisAttempt, NoSession, NoActivity, Live

(* What is published as the answer of a delivery was stored as a draft of  *)
(* this delivery, and never a draft of an attempt that was retried.        *)
THEOREM Drafts == Spec => []AnswerIsOfThisAttempt
<1>1. Spec => []DraftInv
  BY DraftInit, DraftStep, PTL DEF Spec
<1>2. DraftInv => AnswerIsOfThisAttempt
  BY DEF DraftInv
<1> QED
  BY <1>1, <1>2, PTL

-----------------------------------------------------------------------------
(* Attempt numbers.  The count of the hosts a delivery was handed to grows *)
(* only at a claim, and by the one host of the new generation, because the *)
(* generations to come have no host yet and a row that is not posted keeps *)
(* the number it will be posted with.                                      *)

HostsUnborn ==
  \A g \in Generations : session.generation < g => host[g].delivery = 0
NumberedFromOne ==
  \A n \in Numbers : delivery[n].status = "none" => delivery[n].attempt = 1

CountInv == HostsUnborn /\ NumberedFromOne /\ AttemptsCounted

Waiting(row) == IF row.status \in {"none", "pending"} THEN 1 ELSE 0

(* A step that hands nothing over, but may requeue a claimed delivery.     *)
LEMMA CountsKept ==
  ASSUME InboxInv, InboxInv', CountInv,
         session'.generation >= session.generation,
         \A g \in Generations : host'[g].delivery = host[g].delivery,
         \A n \in Numbers :
           /\ delivery'[n].status = "none" => delivery[n].status = "none"
           /\ delivery[n].status = "none" => delivery'[n].attempt = 1
           /\ delivery'[n].attempt - Waiting(delivery'[n])
                = delivery[n].attempt - Waiting(delivery[n])
  PROVE  CountInv'
<1>1. session.generation \in Nat /\ session'.generation \in Nat
  BY BoundAssumption DEF InboxInv, ShapeInv, TypeOK, SessionRows
<1>2. HostsUnborn'
  BY <1>1 DEF CountInv, HostsUnborn, Generations
<1>3. NumberedFromOne'
  BY DEF CountInv, NumberedFromOne
<1>4. AttemptsCounted'
  <2> SUFFICES ASSUME NEW n \in Numbers
               PROVE  delivery'[n].attempt = Cardinality(ClaimsOf(n))' +
                        IF delivery'[n].status \in {"none", "pending"} THEN 1 ELSE 0
    BY DEF AttemptsCounted
  <2>1. ClaimsOf(n)' = ClaimsOf(n)
    BY DEF ClaimsOf
  <2> DEFINE k == Cardinality(ClaimsOf(n))
  <2>2. k \in Nat
    <3>1. IsFiniteSet(Generations)
      <4>1. 1 \in Int /\ MaxGeneration \in Int
        BY BoundAssumption
      <4>2. IsFiniteSet(1 .. MaxGeneration)
        BY <4>1, FS_Interval
      <4> QED
        BY <4>2 DEF Generations
    <3>2. ClaimsOf(n) \in SUBSET Generations
      BY DEF ClaimsOf
    <3> QED
      BY <3>1, <3>2, FS_Subset, FS_CardinalityType
  <2>3. Cardinality(ClaimsOf(n))' = k
    BY <2>1
  <2>4. delivery[n].attempt = k + Waiting(delivery[n])
    BY DEF CountInv, AttemptsCounted, Waiting
  <2>5. delivery'[n].attempt \in Nat /\ delivery[n].attempt \in Nat
    BY DEF InboxInv, ShapeInv, TypeOK, DeliveryRows
  <2>6. delivery'[n].attempt = k + Waiting(delivery'[n])
    <3> HIDE DEF k
    <3> QED
      BY <2>2, <2>4, <2>5 DEF Waiting
  <2> QED
    BY <2>3, <2>6 DEF Waiting
<1> QED
  BY <1>2, <1>3, <1>4 DEF CountInv

(* A delivery is handed to the host of a new generation.                   *)
LEMMA CountsClaimed ==
  ASSUME InboxInv, InboxInv', CountInv, NEW w \in Workers, NEW n \in Numbers,
         Claim(w, n)
  PROVE  CountInv'
<1> DEFINE g == session.generation + 1
<1>1. session.generation \in Nat /\ g \in Generations
  BY BoundAssumption DEF Claim, InboxInv, ShapeInv, TypeOK, SessionRows
<1>2. /\ session'.generation = g
      /\ delivery'[n].status = "claimed" /\ delivery'[n].attempt = Attempt(n)
      /\ \A m \in Numbers : m # n => delivery'[m] = delivery[m]
      /\ host'[g].delivery = n
      /\ \A h \in Generations : h # g => host'[h] = host[h]
  BY <1>1 DEF Claim, InboxInv, ShapeInv, TypeOK, SessionRows, DeliveryRows
<1>3. HostsUnborn'
  BY <1>1, <1>2 DEF CountInv, HostsUnborn, Generations
<1>4. NumberedFromOne'
  BY <1>2 DEF CountInv, NumberedFromOne
<1>5. host[g].delivery = 0
  BY <1>1 DEF CountInv, HostsUnborn
<1>6. delivery[n].attempt \in Nat /\ delivery[n].status \in {"pending", "claimed"}
  BY DEF Claim, Oldest, Unsettled, InboxInv, ShapeInv, TypeOK, DeliveryRows
<1>7. 0 \notin Numbers
  BY BoundAssumption DEF Numbers
<1>8. AttemptsCounted'
  <2> SUFFICES ASSUME NEW m \in Numbers
               PROVE  delivery'[m].attempt = Cardinality(ClaimsOf(m))' +
                        IF delivery'[m].status \in {"none", "pending"} THEN 1 ELSE 0
    BY DEF AttemptsCounted
  <2>1. IsFiniteSet(ClaimsOf(m))
    <3>1. IsFiniteSet(Generations)
      <4>1. 1 \in Int /\ MaxGeneration \in Int
        BY BoundAssumption
      <4>2. IsFiniteSet(1 .. MaxGeneration)
        BY <4>1, FS_Interval
      <4> QED
        BY <4>2 DEF Generations
    <3>2. ClaimsOf(m) \in SUBSET Generations
      BY DEF ClaimsOf
    <3> QED
      BY <3>1, <3>2, FS_Subset
  <2>2. delivery[m].attempt = Cardinality(ClaimsOf(m)) +
          IF delivery[m].status \in {"none", "pending"} THEN 1 ELSE 0
    BY DEF CountInv, AttemptsCounted
  <2>3. CASE m # n
    <3>1. ClaimsOf(m)' = ClaimsOf(m)
      BY <1>2, <1>5, <1>7, <2>3 DEF ClaimsOf
    <3> QED
      BY <1>2, <2>2, <2>3, <3>1
  <2>4. CASE m = n
    <3>1. ClaimsOf(n)' = ClaimsOf(n) \cup {g}
      BY <1>1, <1>2 DEF ClaimsOf
    <3>2. g \notin ClaimsOf(n)
      BY <1>5, <1>7 DEF ClaimsOf
    <3> DEFINE k == Cardinality(ClaimsOf(n))
    <3>3. k \in Nat /\ Cardinality(ClaimsOf(n) \cup {g}) = k + 1
      BY <2>1, <2>4, <3>2, FS_AddElement, FS_CardinalityType
    <3>4. Attempt(n) = k + 1
      <4>1. delivery[n].attempt = k +
              IF delivery[n].status \in {"none", "pending"} THEN 1 ELSE 0
        BY <2>2, <2>4
      <4> HIDE DEF k
      <4> QED
        BY <1>6, <3>3, <4>1 DEF Attempt
    <3>5. Cardinality(ClaimsOf(n))' = k + 1
      BY <3>1, <3>3
    <3>6. delivery'[n].attempt = Cardinality(ClaimsOf(n))'
      BY <1>2, <3>4, <3>5
    <3>7. Cardinality(ClaimsOf(n))' \in Nat
      BY <3>3, <3>5
    <3> HIDE DEF k
    <3> QED
      BY <1>2, <2>4, <3>6, <3>7
  <2> QED
    BY <2>3, <2>4
<1> QED
  BY <1>3, <1>4, <1>8 DEF CountInv

LEMMA CountStep ==
  ASSUME InboxInv, InboxInv', CountInv, [Next]_vars PROVE CountInv'
<1>0. /\ session \in SessionRows /\ session.generation \in Nat
      /\ session.deliverySequence \in Nat
      /\ host \in [Generations -> Activities]
      /\ delivery \in [Numbers -> DeliveryRows]
  BY BoundAssumption DEF InboxInv, ShapeInv, TypeOK, SessionRows
<1>1. \A n \in Numbers : delivery[n].attempt \in Nat
  BY <1>0 DEF DeliveryRows
<1>2. ASSUME NEW row \in SessionRows, AppendDelivery(row),
             row.deliverySequence = session.deliverySequence,
             row.generation >= session.generation
      PROVE  CountInv'
  <2> DEFINE k == session.deliverySequence + 1
  <2>1. k \in Numbers
    BY <1>0, <1>2, BoundAssumption DEF AppendDelivery, Numbers
  <2>2. /\ delivery'[k].status = "pending" /\ delivery'[k].attempt = 1
        /\ \A m \in Numbers : m # k => delivery'[m] = delivery[m]
    BY <1>0, <1>2, <2>1 DEF AppendDelivery, NoDelivery
  <2>3. delivery[k].status = "none"
    BY <1>0, <2>1 DEF InboxInv, SessionMatchesInbox
  <2>4. delivery[k].attempt = 1
    BY <2>1, <2>3 DEF CountInv, NumberedFromOne
  <2>5. session'.generation = row.generation /\ host' = host
    BY <1>2 DEF AppendDelivery, SessionRows
  <2>6. \A n \in Numbers :
          /\ delivery'[n].status = "none" => delivery[n].status = "none"
          /\ delivery[n].status = "none" => delivery'[n].attempt = 1
          /\ delivery'[n].attempt - Waiting(delivery'[n])
               = delivery[n].attempt - Waiting(delivery[n])
    <3> TAKE n \in Numbers
    <3>1. CASE n = k
      BY <2>2, <2>3, <2>4, <3>1 DEF Waiting
    <3>2. CASE n # k
      BY <2>2, <3>2 DEF Waiting, CountInv, NumberedFromOne
    <3> QED
      BY <3>1, <3>2
  <2> QED
    BY <1>2, <2>5, <2>6, CountsKept
<1>3. ASSUME session'.generation >= session.generation,
             \A g \in Generations : host'[g].delivery = host[g].delivery,
             \A n \in Numbers : /\ delivery'[n].status = delivery[n].status
                                /\ delivery'[n].attempt = delivery[n].attempt
      PROVE  CountInv'
  BY <1>1, <1>3, CountsKept DEF Waiting, CountInv, NumberedFromOne
<1>4. CASE Post
  BY <1>0, <1>2, <1>4 DEF Post
<1>5. CASE PostRebound
  <2> DEFINE row == [session EXCEPT !.generation = @ + 1, !.checkpoint = 0,
                                    !.runtimeSession = 0]
  <2>1. session.generation + 1 \in 0 .. MaxGeneration /\ 0 \in 0 .. MaxGeneration
    BY <1>0, <1>5, BoundAssumption DEF PostRebound
  <2>2. /\ row \in SessionRows
        /\ row.deliverySequence = session.deliverySequence
        /\ row.generation >= session.generation
    <3>1. session.generation + 1 >= session.generation
      BY <1>0
    <3> QED
      BY <1>0, <2>1, <3>1 DEF SessionRows
  <2> QED
    BY <1>2, <1>5, <2>2 DEF PostRebound
<1>6. CASE Tick
  BY <1>0, <1>3, <1>6 DEF Tick, SessionRows
<1>7. ASSUME NEW n \in Numbers, Elapse(n) PROVE CountInv'
  BY <1>0, <1>3, <1>7 DEF Elapse, DeliveryRows
<1>8. ASSUME NEW w \in Workers, NEW n \in Numbers, Claim(w, n)
      PROVE  CountInv'
  BY <1>8, CountsClaimed
<1>9. ASSUME NEW g \in Generations, HostStep(g) PROVE CountInv'
  <2>1. Live(g) /\ (Work(g) \/ Settle(g) \/ Requeue(g) \/ Abandon(g))
    BY <1>9, HostStepCases DEF InboxInv, ShapeInv
  <2>2. host[g].delivery \in Numbers
    BY <2>1 DEF InboxInv, ShapeInv, HostsExist, Live
  <2>3. CASE Work(g)
    BY <1>0, <1>3, <2>1, <2>3, WorkEffect DEF InboxInv
  <2>4. ASSUME NEW outcome \in Settled, NEW c \in 0 .. MaxGeneration,
               FinishDelivery(g, outcome, c)
        PROVE  CountInv'
    <3> DEFINE n == host[g].delivery
    <3>1. session'.generation = session.generation
      BY <1>0, <2>4, ReleaseEffect DEF FinishDelivery
    <3>2. \A h \in Generations : host'[h].delivery = host[h].delivery
      BY <1>0, <2>4 DEF FinishDelivery, Activities
    <3>3. /\ delivery[n].status = "claimed" /\ delivery'[n].status \in Settled
          /\ delivery'[n].attempt = delivery[n].attempt
          /\ \A m \in Numbers : m # n => delivery'[m] = delivery[m]
      BY <1>0, <2>2, <2>4 DEF FinishDelivery, Owns, DeliveryRows
    <3> HIDE DEF n
    <3>4. \A m \in Numbers :
            /\ delivery'[m].status = "none" => delivery[m].status = "none"
            /\ delivery[m].status = "none" => delivery'[m].attempt = 1
            /\ delivery'[m].attempt - Waiting(delivery'[m])
                 = delivery[m].attempt - Waiting(delivery[m])
      BY <3>3 DEF Waiting, Settled, CountInv, NumberedFromOne
    <3> QED
      BY <1>0, <3>1, <3>2, <3>4, CountsKept
  <2>5. ASSUME NEW c \in 0 .. MaxGeneration, RetryDelivery(g, c)
        PROVE  CountInv'
    <3> DEFINE n == host[g].delivery
    <3>1. session'.generation = session.generation
      BY <1>0, <2>5, ReleaseEffect DEF RetryDelivery
    <3>2. \A h \in Generations : host'[h].delivery = host[h].delivery
      BY <1>0, <2>5 DEF RetryDelivery, Activities
    <3>3. /\ delivery[n].status = "claimed" /\ delivery'[n].status = "pending"
          /\ delivery'[n].attempt = delivery[n].attempt + 1
          /\ \A m \in Numbers : m # n => delivery'[m] = delivery[m]
      BY <1>0, <2>2, <2>5 DEF RetryDelivery, Owns, Requeued, DeliveryRows
    <3>4. n \in Numbers
      BY <2>2
    <3> HIDE DEF n
    <3>5. \A m \in Numbers :
            /\ delivery'[m].status = "none" => delivery[m].status = "none"
            /\ delivery[m].status = "none" => delivery'[m].attempt = 1
            /\ delivery'[m].attempt - Waiting(delivery'[m])
                 = delivery[m].attempt - Waiting(delivery[m])
      BY <1>1, <3>3, <3>4 DEF Waiting, CountInv, NumberedFromOne
    <3> QED
      BY <1>0, <3>1, <3>2, <3>5, CountsKept
  <2>6. CASE Abandon(g)
    BY <1>0, <1>3, <2>6 DEF Abandon, Activities
  <2> QED
    BY <2>1, <2>3, <2>4, <2>5, <2>6 DEF Settle, Requeue
<1>10. CASE UNCHANGED vars
  BY <1>0, <1>3, <1>10 DEF vars
<1> QED
  BY <1>4, <1>5, <1>6, <1>7, <1>8, <1>9, <1>10 DEF Next

LEMMA CountInit == ASSUME Init PROVE CountInv
<1>1. HostsUnborn /\ NumberedFromOne
  BY DEF Init, HostsUnborn, NumberedFromOne, NoActivity, NoDelivery
<1>2. \A n \in Numbers : ClaimsOf(n) = {}
  BY BoundAssumption DEF Init, ClaimsOf, NoActivity, Numbers
<1>3. AttemptsCounted
  BY <1>2, FS_EmptySet DEF Init, AttemptsCounted, NoDelivery
<1> QED
  BY <1>1, <1>3 DEF CountInv

(* The inbox is sound: rows have their shapes, session and inbox agree,    *)
(* deliveries are settled in order and once, and the attempt number of a   *)
(* delivery, which maxDeliveryAttempts is compared with, is the number of  *)
(* hosts it was handed to.                                                 *)
THEOREM Inbox == Spec => []InboxSound
<1>1. SettlementInv /\ CountInv /\ [Next]_vars => (SettlementInv /\ CountInv)'
  BY SettlementStep, CountStep DEF SettlementInv
<1>2. Init => SettlementInv /\ CountInv
  BY SettlementInit, CountInit
<1>3. Spec => [](SettlementInv /\ CountInv)
  BY <1>1, <1>2, PTL DEF Spec
<1>4. SettlementInv /\ CountInv => InboxSound
  BY DEF SettlementInv, InboxInv, ShapeInv, CountInv, InboxSound
<1> QED
  BY <1>3, <1>4, PTL

-----------------------------------------------------------------------------
(* A host that lost its lease leaves nothing behind: Fence for the events  *)
(* and answers in the Room, Checkpointing for the provider state.          *)
THEOREM Fenced == Spec => HostsAreFenced
BY Fence, Checkpointing DEF HostsAreFenced

-----------------------------------------------------------------------------
(* The chain of three agents.                                              *)

ChainProofs == INSTANCE RoomDelegationProofs WITH
  Agents <- {hostAgent, ada, bob}, Host <- hostAgent, Messages <- {message},
  MentionSets <- {{}},
  Offers <- {Offer(hostAgent, ada, "room", NoMessage),
             Offer(ada, bob, "once", NoMessage),
             Offer(ada, hostAgent, "once", NoMessage)},
  Switched <- {ada}, Rebound <- {}, MaxHops <- 2, MaxInvocations <- 2,
  HopLimit <- 2, GrantLimit <- 1, MaxGrants <- 2, MaxGeneration <- 1,
  session <- agentSession

LEMMA ChainInit ==
  /\ Chain!Init => ChainProofs!Init
  /\ Chain!DelegationAssumption => ChainProofs!DelegationAssumption
<1>1. Chain!Init => ChainProofs!Init
  BY DEF Chain!Init, ChainProofs!Init, Chain!Unused, ChainProofs!Unused,
         Chain!Unwritten, ChainProofs!Unwritten, Chain!Fresh,
         ChainProofs!Fresh, Chain!NoRun, ChainProofs!NoRun,
         Chain!Generations, ChainProofs!Generations
<1>2. Chain!DelegationAssumption => ChainProofs!DelegationAssumption
  BY DEF Chain!DelegationAssumption, ChainProofs!DelegationAssumption
<1> QED
  BY <1>1, <1>2

LEMMA ChainNext == Chain!Next => ChainProofs!Next
BY DEF Chain!Accept, ChainProofs!Accept, Chain!Accepted,
       ChainProofs!Accepted, Chain!Advanced, ChainProofs!Advanced,
       Chain!Answered, ChainProofs!Answered, Chain!Block,
       ChainProofs!Block, Chain!BindRun, ChainProofs!BindRun,
       Chain!Cardinality, ChainProofs!Cardinality, Chain!ChosenGrant,
       ChainProofs!ChosenGrant, Chain!Claim, ChainProofs!Claim, Chain!Code,
       ChainProofs!Code, Chain!Contains, ChainProofs!Contains,
       Chain!Delivery, ChainProofs!Delivery, Chain!Entry,
       ChainProofs!Entry, Chain!Generations, ChainProofs!Generations,
       Chain!GrantCode, ChainProofs!GrantCode, Chain!GrantExpires,
       ChainProofs!GrantExpires, Chain!Intent, ChainProofs!Intent,
       Chain!IssueGrant, ChainProofs!IssueGrant, Chain!LeaseExpires,
       ChainProofs!LeaseExpires, Chain!LineageRecorded,
       ChainProofs!LineageRecorded, Chain!Matching, ChainProofs!Matching,
       Chain!MayAdvance, ChainProofs!MayAdvance, Chain!Next,
       ChainProofs!Next, Chain!NoRun, ChainProofs!NoRun, Chain!OfRoot,
       ChainProofs!OfRoot, Chain!OpenRun, ChainProofs!OpenRun,
       Chain!PolicyCode, ChainProofs!PolicyCode, Chain!Post,
       ChainProofs!Post, Chain!Precedes, ChainProofs!Precedes, Chain!Rank,
       ChainProofs!Rank, Chain!Rebind, ChainProofs!Rebind, Chain!Refuse,
       ChainProofs!Refuse, Chain!Repeats, ChainProofs!Repeats,
       Chain!Respondents, ChainProofs!Respondents, Chain!RevokeGrant,
       ChainProofs!RevokeGrant, Chain!Revisits, ChainProofs!Revisits,
       Chain!Room, ChainProofs!Room, Chain!SetEnabled,
       ChainProofs!SetEnabled, Chain!Settle, ChainProofs!Settle,
       Chain!SourceDelivery, ChainProofs!SourceDelivery, Chain!SourceHeld,
       ChainProofs!SourceHeld, Chain!Spoke, ChainProofs!Spoke,
       Chain!StartCall, ChainProofs!StartCall, Chain!Unavailable,
       ChainProofs!Unavailable, Chain!Usable, ChainProofs!Usable,
       Chain!UsedGrant, ChainProofs!UsedGrant

LEMMA ChainSound ==
  ChainProofs!DelegationInv =>
    /\ Chain!TypeOK /\ Chain!BudgetsMatchLedger
    /\ Chain!LineageSound /\ Chain!DelegatedOnce
<1> SUFFICES ASSUME ChainProofs!DelegationInv
             PROVE  /\ Chain!TypeOK /\ Chain!BudgetsMatchLedger
               /\ Chain!LineageSound /\ Chain!DelegatedOnce
  OBVIOUS
<1>1. Chain!TypeOK
  <2>1. ChainProofs!TypeOK
    BY ChainProofs!InvTyped
  <2> QED
    BY <2>1 DEF Chain!TypeOK, ChainProofs!TypeOK, Chain!Codes, ChainProofs!Codes,
                Chain!Generations, ChainProofs!Generations
<1>2. Chain!BudgetsMatchLedger
  <2>1. ChainProofs!BudgetsMatchLedger
    BY ChainProofs!InvBudgets
  <2> QED
    BY <2>1 DEF Chain!BudgetsMatchLedger, ChainProofs!BudgetsMatchLedger,
                Chain!Accepted, ChainProofs!Accepted, Chain!OfRoot,
                ChainProofs!OfRoot, Chain!Cardinality, ChainProofs!Cardinality
<1>3. Chain!LineageSound
  <2>1. ChainProofs!LineageSound
    BY ChainProofs!InvLineage
  <2> QED
    BY <2>1 DEF Chain!LineageSound, ChainProofs!LineageSound, Chain!IsInjective,
                ChainProofs!IsInjective, Chain!Last, ChainProofs!Last, Chain!Front,
                ChainProofs!Front
<1>4. Chain!DelegatedOnce
  <2>1. ChainProofs!DelegatedOnce
    BY ChainProofs!InvHandedOnce
  <2> QED
    BY <2>1 DEF Chain!DelegatedOnce, ChainProofs!DelegatedOnce, Chain!Accepted,
                ChainProofs!Accepted, Chain!LineageRecorded,
                ChainProofs!LineageRecorded
<1> QED
  BY <1>1, <1>2, <1>3, <1>4

LEMMA ChainAuthorized ==
  ChainProofs!DelegationInv /\ Chain!Next => Chain!AuthorizedOnly
<1> SUFFICES ASSUME ChainProofs!DelegationInv, Chain!Next
             PROVE  Chain!AuthorizedOnly
  OBVIOUS
<1>1. ChainProofs!AuthorizedOnly
  BY ChainNext, ChainProofs!StepAuthorized
<1> QED
  BY <1>1 DEF Chain!AuthorizedOnly, ChainProofs!AuthorizedOnly

-----------------------------------------------------------------------------
(* The pair of agents whose run is repeated.                               *)

PairProofs == INSTANCE RoomDelegationProofs WITH
  Agents <- {hostAgent, ada}, Host <- hostAgent, Messages <- {message},
  MentionSets <- {{}},
  Offers <- {Offer(hostAgent, ada, "room", NoMessage),
             Offer(hostAgent, ada, "once", message)},
  Switched <- {}, Rebound <- {ada}, MaxHops <- 2, MaxInvocations <- 2,
  HopLimit <- 2, GrantLimit <- 2, MaxGrants <- 1, MaxGeneration <- 2,
  session <- agentSession

LEMMA PairInit ==
  /\ Pair!Init => PairProofs!Init
  /\ Pair!DelegationAssumption => PairProofs!DelegationAssumption
<1>1. Pair!Init => PairProofs!Init
  BY DEF Pair!Init, PairProofs!Init, Pair!Unused, PairProofs!Unused,
         Pair!Unwritten, PairProofs!Unwritten, Pair!Fresh, PairProofs!Fresh,
         Pair!NoRun, PairProofs!NoRun, Pair!Generations,
         PairProofs!Generations
<1>2. Pair!DelegationAssumption => PairProofs!DelegationAssumption
  BY DEF Pair!DelegationAssumption, PairProofs!DelegationAssumption
<1> QED
  BY <1>1, <1>2

LEMMA PairNext == Pair!Next => PairProofs!Next
BY DEF Pair!Accept, PairProofs!Accept, Pair!Accepted, PairProofs!Accepted,
       Pair!Advanced, PairProofs!Advanced, Pair!Answered,
       PairProofs!Answered, Pair!Block, PairProofs!Block, Pair!BindRun,
       PairProofs!BindRun, Pair!Cardinality, PairProofs!Cardinality,
       Pair!ChosenGrant, PairProofs!ChosenGrant, Pair!Claim,
       PairProofs!Claim, Pair!Code, PairProofs!Code, Pair!Contains,
       PairProofs!Contains, Pair!Delivery, PairProofs!Delivery, Pair!Entry,
       PairProofs!Entry, Pair!Generations, PairProofs!Generations,
       Pair!GrantCode, PairProofs!GrantCode, Pair!GrantExpires,
       PairProofs!GrantExpires, Pair!Intent, PairProofs!Intent,
       Pair!IssueGrant, PairProofs!IssueGrant, Pair!LeaseExpires,
       PairProofs!LeaseExpires, Pair!LineageRecorded,
       PairProofs!LineageRecorded, Pair!Matching, PairProofs!Matching,
       Pair!MayAdvance, PairProofs!MayAdvance, Pair!Next, PairProofs!Next,
       Pair!NoRun, PairProofs!NoRun, Pair!OfRoot, PairProofs!OfRoot,
       Pair!OpenRun, PairProofs!OpenRun, Pair!PolicyCode,
       PairProofs!PolicyCode, Pair!Post, PairProofs!Post, Pair!Precedes,
       PairProofs!Precedes, Pair!Rank, PairProofs!Rank, Pair!Rebind,
       PairProofs!Rebind, Pair!Refuse, PairProofs!Refuse, Pair!Repeats,
       PairProofs!Repeats, Pair!Respondents, PairProofs!Respondents,
       Pair!RevokeGrant, PairProofs!RevokeGrant, Pair!Revisits,
       PairProofs!Revisits, Pair!Room, PairProofs!Room, Pair!SetEnabled,
       PairProofs!SetEnabled, Pair!Settle, PairProofs!Settle,
       Pair!SourceDelivery, PairProofs!SourceDelivery, Pair!SourceHeld,
       PairProofs!SourceHeld, Pair!Spoke, PairProofs!Spoke, Pair!StartCall,
       PairProofs!StartCall, Pair!Unavailable, PairProofs!Unavailable,
       Pair!Usable, PairProofs!Usable, Pair!UsedGrant, PairProofs!UsedGrant

LEMMA PairSound ==
  PairProofs!DelegationInv =>
    /\ Pair!TypeOK /\ Pair!BudgetsMatchLedger
    /\ Pair!DelegatedOnce /\ Pair!FenceIsOwn
<1> SUFFICES ASSUME PairProofs!DelegationInv
             PROVE  /\ Pair!TypeOK /\ Pair!BudgetsMatchLedger
               /\ Pair!DelegatedOnce /\ Pair!FenceIsOwn
  OBVIOUS
<1>1. Pair!TypeOK
  <2>1. PairProofs!TypeOK
    BY PairProofs!InvTyped
  <2> QED
    BY <2>1 DEF Pair!TypeOK, PairProofs!TypeOK, Pair!Codes, PairProofs!Codes,
                Pair!Generations, PairProofs!Generations
<1>2. Pair!BudgetsMatchLedger
  <2>1. PairProofs!BudgetsMatchLedger
    BY PairProofs!InvBudgets
  <2> QED
    BY <2>1 DEF Pair!BudgetsMatchLedger, PairProofs!BudgetsMatchLedger,
                Pair!Accepted, PairProofs!Accepted, Pair!OfRoot, PairProofs!OfRoot,
                Pair!Cardinality, PairProofs!Cardinality
<1>3. Pair!DelegatedOnce
  <2>1. PairProofs!DelegatedOnce
    BY PairProofs!InvHandedOnce
  <2> QED
    BY <2>1 DEF Pair!DelegatedOnce, PairProofs!DelegatedOnce, Pair!Accepted,
                PairProofs!Accepted, Pair!LineageRecorded,
                PairProofs!LineageRecorded
<1>4. Pair!FenceIsOwn
  <2>1. PairProofs!FenceIsOwn
    BY PairProofs!InvFence
  <2> QED
    BY <2>1 DEF Pair!FenceIsOwn, PairProofs!FenceIsOwn, Pair!Generations,
                PairProofs!Generations
<1> QED
  BY <1>1, <1>2, <1>3, <1>4

LEMMA PairAuthorized ==
  PairProofs!DelegationInv /\ Pair!Next => Pair!AuthorizedOnly
<1> SUFFICES ASSUME PairProofs!DelegationInv, Pair!Next
             PROVE  Pair!AuthorizedOnly
  OBVIOUS
<1>1. PairProofs!AuthorizedOnly
  BY PairNext, PairProofs!StepAuthorized
<1> QED
  BY <1>1 DEF Pair!AuthorizedOnly, PairProofs!AuthorizedOnly

-----------------------------------------------------------------------------
(* Both, in a behaviour that chose one of them                             *)

WorkInv ==
  /\ part = "chain" => ChainProofs!DelegationInv
  /\ part = "pair" => PairProofs!DelegationInv

LEMMA WorkStarts == RoomInit => WorkInv
<1>1. Chain!Init => ChainProofs!DelegationInv
  BY RoomAssumption, ChainInit, ChainProofs!DelegationStarts
<1>2. Pair!Init => PairProofs!DelegationInv
  BY RoomAssumption, PairInit, PairProofs!DelegationStarts
<1> QED
  BY <1>1, <1>2 DEF RoomInit, WorkInv

LEMMA WorkStep ==
  WorkInv /\ [RoomNext]_<<part, vars, delegationVars, jobVars>> => WorkInv'
<1> SUFFICES ASSUME WorkInv,
                    [RoomNext]_<<part, vars, delegationVars, jobVars>>
             PROVE  WorkInv'
  OBVIOUS
<1>1. /\ part' = part
      /\ \/ part = "chain" /\ Chain!Next
         \/ part = "pair" /\ Pair!Next
         \/ UNCHANGED delegationVars
         \/ part \notin {"chain", "pair"}
  BY DEF RoomNext
<1>2. CASE part = "chain" /\ Chain!Next
  <2>1. ChainProofs!DelegationInv /\ ChainProofs!Next
    BY <1>2, ChainNext DEF WorkInv
  <2>2. ChainProofs!DelegationInv'
    BY <2>1, ChainProofs!DelegationStep
  <2> QED
    BY <1>1, <1>2, <2>2 DEF WorkInv
<1>3. CASE part = "pair" /\ Pair!Next
  <2>1. PairProofs!DelegationInv /\ PairProofs!Next
    BY <1>3, PairNext DEF WorkInv
  <2>2. PairProofs!DelegationInv'
    BY <2>1, PairProofs!DelegationStep
  <2> QED
    BY <1>1, <1>3, <2>2 DEF WorkInv
<1>4. CASE UNCHANGED delegationVars
  <2>1. (UNCHANGED ChainProofs!vars) /\ (UNCHANGED PairProofs!vars)
    BY <1>4 DEF delegationVars, ChainProofs!vars, PairProofs!vars
  <2>2. ChainProofs!DelegationInv => ChainProofs!DelegationInv'
    BY <2>1, ChainProofs!DelegationStutters
  <2>3. PairProofs!DelegationInv => PairProofs!DelegationInv'
    BY <2>1, PairProofs!DelegationStutters
  <2> QED
    BY <1>1, <2>2, <2>3 DEF WorkInv
<1>5. CASE part \notin {"chain", "pair"}
  BY <1>1, <1>5 DEF WorkInv
<1> QED
  BY <1>1, <1>2, <1>3, <1>4, <1>5

LEMMA WorkSound == WorkInv => DelegationSound
BY ChainSound, PairSound DEF WorkInv, DelegationSound

(* The budgets, the chains and the fences of a Room are sound in every     *)
(* state, whichever part of its work a behaviour shows.                    *)
THEOREM Delegations == RoomSpec => []DelegationSound
<1>1. RoomInit => WorkInv
  BY WorkStarts
<1>2. WorkInv /\ [RoomNext]_<<part, vars, delegationVars, jobVars>> => WorkInv'
  BY WorkStep
<1>3. WorkInv => DelegationSound
  BY WorkSound
<1> QED
  BY <1>1, <1>2, <1>3, PTL DEF RoomSpec

(* Nothing is handed on but by the holder of the lease, between enabled    *)
(* agents and under a grant that a person issued and that still counts.    *)
THEOREM Authorization == RoomSpec => OnlyAuthorized
<1> DEFINE Goal == /\ part = "chain" => Chain!AuthorizedOnly
                   /\ part = "pair" => Pair!AuthorizedOnly
<1>1. RoomInit => WorkInv
  BY WorkStarts
<1>2. WorkInv /\ [RoomNext]_<<part, vars, delegationVars, jobVars>> => WorkInv'
  BY WorkStep
<1>3. WorkInv /\ [RoomNext]_<<part, vars, delegationVars, jobVars>>
        => [Goal]_delegationVars
  <2> SUFFICES ASSUME WorkInv,
                      [RoomNext]_<<part, vars, delegationVars, jobVars>>,
                      ~UNCHANGED delegationVars
               PROVE  Goal
    OBVIOUS
  <2>1. \/ part = "chain" /\ Chain!Next
        \/ part = "pair" /\ Pair!Next
        \/ part \notin {"chain", "pair"}
    BY DEF RoomNext
  <2> QED
    BY <2>1, ChainAuthorized, PairAuthorized DEF WorkInv
<1> QED
  BY <1>1, <1>2, <1>3, PTL DEF RoomSpec, OnlyAuthorized

-----------------------------------------------------------------------------
(* The task that two executions share.                                     *)

TeamProofs == INSTANCE ExecutionJobProofs WITH
  Workers <- {Daemon}, NoWorker <- NoDaemon, Runtimes <- {Runtime},
  NoRuntime <- NoDaemon, Tasks <- {TeamTask}, CapacityChoices <- {2},
  EnabledChoices <- {TRUE}, DiscardChoices <- {TRUE}, LeaseTerm <- 1,
  MaxGeneration <- 2

(* The constants of the instance satisfy the assumptions of ExecutionJob.  *)
LEMMA TeamConstants ==
  /\ TeamProofs!IsFiniteSet(Jobs)
  /\ NoDaemon \notin {Daemon} /\ NoDaemon \notin {Runtime}
  /\ NoTask \notin {TeamTask}
  /\ {2} \subseteq Nat /\ {TRUE} \subseteq BOOLEAN
  /\ 1 \in Nat \ {0} /\ 2 \in Nat
<1>1. TeamProofs!IsFiniteSet(Jobs)
  BY TeamAssumption DEF TeamProofs!IsFiniteSet, IsFiniteSet
<1> QED
  BY <1>1, TeamAssumption

LEMMA TeamInit == Team!Init => TeamProofs!Init
BY Zenon
  DEF Team!Init, TeamProofs!Init, Team!NoJobRow, TeamProofs!NoJobRow,
      Team!NoAttemptRow, TeamProofs!NoAttemptRow, Team!Generations,
      TeamProofs!Generations, Team!NoIncidentRow, TeamProofs!NoIncidentRow

LEMMA TeamNext == Team!Next => TeamProofs!Next
BY Zenon
  DEF Team!Next, TeamProofs!Next, Team!Admission, TeamProofs!Admission,
      Team!Claim, TeamProofs!Claim, Team!Generations,
      TeamProofs!Generations, Team!Granted, TeamProofs!Granted,
      Team!WorkerCommand, TeamProofs!WorkerCommand, Team!HumanCommand,
      TeamProofs!HumanCommand, Team!ReadForAdmission,
      TeamProofs!ReadForAdmission, Team!CommitCancel,
      TeamProofs!CommitCancel, Team!AbortCancel, TeamProofs!AbortCancel,
      Team!Tick, TeamProofs!Tick, Team!RegisterRuntime,
      TeamProofs!RegisterRuntime, Team!TaskStatuses,
      TeamProofs!TaskStatuses, Team!MoveTask, TeamProofs!MoveTask,
      Team!CreateQueued, TeamProofs!CreateQueued, Team!CreateBlocked,
      TeamProofs!CreateBlocked, Team!ClaimPending, TeamProofs!ClaimPending,
      Team!ClaimSuspended, TeamProofs!ClaimSuspended, Team!Reclaim,
      TeamProofs!Reclaim, Team!Heartbeat, TeamProofs!Heartbeat,
      Team!WaitForInput, TeamProofs!WaitForInput, Team!Outcomes,
      TeamProofs!Outcomes, Team!Complete, TeamProofs!Complete,
      Team!Quarantine, TeamProofs!Quarantine, Team!ResolveRecovery,
      TeamProofs!ResolveRecovery, Team!ReadForCancel,
      TeamProofs!ReadForCancel, Team!AnswerInput, TeamProofs!AnswerInput,
      Team!RequestRecovery, TeamProofs!RequestRecovery,
      Team!AvailableRuntimes, TeamProofs!AvailableRuntimes,
      Team!CallIsCurrent, TeamProofs!CallIsCurrent, Team!CommitGracefully,
      TeamProofs!CommitGracefully, Team!CommitDirectly,
      TeamProofs!CommitDirectly, Team!TaskMoves, TeamProofs!TaskMoves,
      Team!StartTask, TeamProofs!StartTask, Team!NoAttemptRow,
      TeamProofs!NoAttemptRow, Team!ReserveSlot, TeamProofs!ReserveSlot,
      Team!Grant, TeamProofs!Grant, Team!MoveJob, TeamProofs!MoveJob,
      Team!JobOpen, TeamProofs!JobOpen, Team!Fenced, TeamProofs!Fenced,
      Team!Unleased, TeamProofs!Unleased, Team!ReleaseSlot,
      TeamProofs!ReleaseSlot, Team!Enqueue, TeamProofs!Enqueue,
      Team!InputRow, TeamProofs!InputRow, Team!OutcomeAllowed,
      TeamProofs!OutcomeAllowed, Team!CompletedRow, TeamProofs!CompletedRow,
      Team!CancelledInputs, TeamProofs!CancelledInputs, Team!FinishTask,
      TeamProofs!FinishTask, Team!NoIncidentRow, TeamProofs!NoIncidentRow,
      Team!AttemptIsIdle, TeamProofs!AttemptIsIdle, Team!TaskTarget,
      TeamProofs!TaskTarget, Team!TaskSources, TeamProofs!TaskSources

LEMMA TeamTyped ==
  ASSUME TeamProofs!TypeOK, [Team!Next]_jobVars
  PROVE  TeamProofs!TypeOK'
<1>1. [TeamProofs!Next]_TeamProofs!vars
  BY TeamNext DEF jobVars, TeamProofs!vars
<1> QED
  BY <1>1, TeamConstants, TeamProofs!TypingStep

(* What a step may do to the task, in either instance.                     *)
TeamMoves ==
  /\ \A j \in Jobs :
       ~Team!Terminal(j) /\ Team!Terminal(j)' /\ job[j].teamTask \in {TeamTask} =>
         task'[job[j].teamTask] \in
           {Team!TaskTarget(job'[j].status), "done", "cancelled"}
  /\ \A t \in {TeamTask} :
       /\ task[t] # "done" /\ task'[t] = "done" =>
            UNCHANGED <<job, attempt, outbox>>
       /\ task[t] \in {"done", "cancelled"} => task'[t] = task[t]

LEMMA TeamStep ==
  ASSUME TeamProofs!TypeOK, [Team!Next]_jobVars
  PROVE  TeamMoves
<1>1. [TeamProofs!Next]_TeamProofs!vars
  BY TeamNext DEF jobVars, TeamProofs!vars
<1>2. TeamProofs!TasksMove
  BY <1>1, TeamConstants, TeamProofs!TaskStep
<1> QED
  BY <1>2, Zenon DEF TeamMoves, TeamProofs!TasksMove, Team!Terminal, TeamProofs!Terminal,
      Team!Outcomes, TeamProofs!Outcomes, Team!TaskTarget, TeamProofs!TaskTarget

(* Two executions share a task: it follows the one that ends, a closed one *)
(* is not opened again, and only a person closes it as done.               *)
THEOREM Tasks == RoomSpec => TasksFollow
<1>1. RoomInit => TeamProofs!TypeOK
  BY TeamInit, TeamConstants, TeamProofs!TypingInit DEF RoomInit
<1>2. TeamProofs!TypeOK /\ [RoomNext]_<<part, vars, delegationVars, jobVars>>
        => TeamProofs!TypeOK' /\ TeamMoves
  <2>1. [RoomNext]_<<part, vars, delegationVars, jobVars>> => [Team!Next]_jobVars
    BY DEF RoomNext
  <2> QED
    BY <2>1, TeamTyped, TeamStep
<1>3. TeamMoves => [\A j \in Jobs :
                      ~Team!Terminal(j) /\ Team!Terminal(j)' /\ job[j].teamTask \in {TeamTask} =>
                        task'[job[j].teamTask] \in
                          {Team!TaskTarget(job'[j].status), "done", "cancelled"}]_Team!vars
  BY DEF TeamMoves
<1>4. TeamMoves => [\A t \in {TeamTask} :
                      /\ task[t] # "done" /\ task'[t] = "done" =>
                           UNCHANGED <<job, attempt, outbox>>
                      /\ task[t] \in {"done", "cancelled"} => task'[t] = task[t]]_Team!vars
  BY DEF TeamMoves
<1> QED
  BY <1>1, <1>2, <1>3, <1>4, PTL
  DEF RoomSpec, TasksFollow, Team!TasksFollow, Team!OutcomeReachesTask, Team!DoneIsHuman
=============================================================================
