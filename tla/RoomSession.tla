----------------------------- MODULE RoomSession -----------------------------
(***************************************************************************)
(* One RoomAgentSession: the inbox of one agent in one Room, the store     *)
(* commands that claim, renew, answer, retry and settle its deliveries,    *)
(* and the host processes that issue them.  Sessions share nothing but the *)
(* counters of their Room, which each transaction allocates from, so one   *)
(* session is modelled.                                                    *)
(*                                                                         *)
(* A claim counts the generation of the session up.  At most one activity  *)
(* of one host process belongs to a generation, so the memory of the hosts *)
(* is indexed by it; a runtime session, a checkpoint and a draft are named *)
(* by the generation whose host made them, 0 is none.                      *)
(*                                                                         *)
(* A store command that is fenced or throws leaves no trace, and the host  *)
(* that sees it abandons its activity.  Abandon may happen at any time and *)
(* so stands for those cases and for the crash of the process.  A command  *)
(* replayed after its answer was lost is a duplicate or fenced: no step.   *)
(***************************************************************************)
EXTENDS Naturals, FiniteSets

CONSTANTS
  Workers,         \* host processes
  NoWorker,        \* NULL lease owner
  MaxAttempts,     \* maxDeliveryAttempts of the host
  Checkpoints,     \* whether the runtime can make a checkpoint when asked
  LeaseTerm,       \* lease length, in ticks
  MaxDeliveries,   \* bound on the messages posted
  MaxGeneration    \* bound on the generations of the session

ASSUME WorkersAssumption == NoWorker \notin Workers
ASSUME BoundAssumption ==
  /\ MaxAttempts \in Nat \ {0}
  /\ Checkpoints \subseteq BOOLEAN
  /\ LeaseTerm \in Nat \ {0}
  /\ MaxDeliveries \in Nat
  /\ MaxGeneration \in Nat

VARIABLES
  session,   \* RoomAgentSession
  delivery,  \* RoomInboxDelivery, by deliverySequence
  host,      \* ActiveRoomSession in the memory of the claiming process
  events     \* RoomEvent and agent RoomMessage rows of this session

vars == <<session, delivery, host, events>>

-----------------------------------------------------------------------------
(* The shapes of the rows and of the memory.                               *)

Generations == 1 .. MaxGeneration
Numbers == 1 .. MaxDeliveries
Settled == {"completed", "failed"}
Unsettled == {"pending", "claimed"}

SessionRows == [deliverySequence: 0 .. MaxDeliveries,
                generation: 0 .. MaxGeneration,
                leaseOwner: Workers \cup {NoWorker}, lease: 0 .. LeaseTerm,
                current: 0 .. MaxDeliveries,
                runtimeSession: 0 .. MaxGeneration,
                checkpoint: 0 .. MaxGeneration]
DeliveryRows == [status: {"none"} \cup Unsettled \cup Settled,
                 attempt: Nat, available: BOOLEAN]
Activities == [phase: {"none", "claimed", "ready", "bound", "gone"},
               worker: Workers \cup {NoWorker}, delivery: 0 .. MaxDeliveries,
               attempt: Nat, output: 0 .. MaxGeneration,
               checkpoint: 0 .. MaxGeneration]
EventRows == [type: {"message-ready", "retrying", "message"} \cup Settled,
              delivery: Numbers, generation: Generations,
              draft: 0 .. MaxGeneration]

NoSession == [deliverySequence |-> 0, generation |-> 0,
              leaseOwner |-> NoWorker, lease |-> 0, current |-> 0,
              runtimeSession |-> 0, checkpoint |-> 0]
NoDelivery == [status |-> "none", attempt |-> 1, available |-> FALSE]
NoActivity == [phase |-> "none", worker |-> NoWorker, delivery |-> 0,
               attempt |-> 0, output |-> 0, checkpoint |-> 0]

Init ==
  /\ session = NoSession
  /\ delivery = [n \in Numbers |-> NoDelivery]
  /\ host = [g \in Generations |-> NoActivity]
  /\ events = {}

(* The bound on generations: what costs an extra one (a lost lease, a      *)
(* retry, a new binding) happens while one is left beyond those that the   *)
(* unclaimed deliveries still need.                                        *)
Unclaimed == {n \in Numbers : delivery[n].status \in {"none", "pending"}}
SpareGeneration == session.generation + Cardinality(Unclaimed) < MaxGeneration

-----------------------------------------------------------------------------
(* Posting: upsertAndAdvanceSession and the new inbox row.                 *)

AppendDelivery(row) ==
  /\ row.deliverySequence < MaxDeliveries
  /\ session' = [row EXCEPT !.deliverySequence = @ + 1]
  /\ delivery' = [delivery EXCEPT ![row.deliverySequence + 1] =
                    [NoDelivery EXCEPT !.status = "pending",
                                       !.available = TRUE]]
  /\ UNCHANGED <<host, events>>

Post == AppendDelivery(session)

(* The agent's runtime binding changed since the last message: refused     *)
(* while a delivery is being handled, otherwise the provider state is      *)
(* dropped and every earlier lease fenced.                                 *)
PostRebound ==
  /\ session.deliverySequence > 0
  /\ session.current = 0
  /\ SpareGeneration
  /\ session.generation < MaxGeneration
  /\ AppendDelivery([session EXCEPT
                       !.generation = @ + 1, !.checkpoint = 0, !.runtimeSession = 0])

(* The backoff of a retried delivery passes.                               *)
Elapse(n) ==
  /\ delivery[n].status = "pending"
  /\ ~delivery[n].available
  /\ delivery' = [delivery EXCEPT ![n].available = TRUE]
  /\ UNCHANGED <<session, host, events>>

(* Time passing on a lease nobody renews.                                  *)
Tick ==
  /\ session.lease > 0
  /\ session.lease = 1 => SpareGeneration
  /\ session' = [session EXCEPT !.lease = @ - 1]
  /\ UNCHANGED <<delivery, host, events>>

-----------------------------------------------------------------------------
(* Claiming.                                                               *)

Oldest(n) ==
  /\ delivery[n].status \in Unsettled
  /\ \A m \in 1 .. (n - 1) : delivery[m].status \notin Unsettled

NeverLost(n) == FALSE   \* mutant of Lost
Lost(n) ==
  /\ delivery[n].status = "claimed"
  /\ session.current = n
  /\ session.lease = 0
Available(n) ==
  /\ delivery[n].status = "pending"
  /\ delivery[n].available
  /\ session.current = 0 \/ session.lease = 0

(* Mapping the claimed row refuses a checkpoint of another runtime session *)
(* than the one that is bound.                                             *)
CheckpointReadable ==
  \/ session.checkpoint = 0
  \/ session.checkpoint = session.runtimeSession

(* Mutant of PendingOutput: the draft is looked up for retries as well.    *)
AnyDraft(n) ==
  IF \E e \in events : e.type = "message-ready" /\ e.delivery = n
                       /\ e.generation = session.generation
    THEN session.generation ELSE 0
(* loadPendingOutput: of a lost activity, the draft of the generation that *)
(* was lost; a delivery that was pending has none in its new generation.   *)
PendingOutput(n) ==
  IF /\ delivery[n].status = "claimed"
     /\ \E e \in events : /\ e.type = "message-ready"
                          /\ e.delivery = n
                          /\ e.generation = session.generation
    THEN session.generation
    ELSE 0

Live(g) == host[g].phase \in {"claimed", "ready", "bound"}
AttemptPlusOne(n) == delivery[n].attempt + 1   \* mutant of Attempt
Attempt(n) ==
  delivery[n].attempt + IF delivery[n].status = "claimed" THEN 1 ELSE 0

Claim(w, n) ==
  LET g == session.generation + 1
  IN  /\ \A h \in Generations : Live(h) => host[h].worker # w
      /\ Oldest(n)
      /\ Available(n) \/ Lost(n)
      /\ CheckpointReadable
      /\ g \in Generations
      /\ session' = [session EXCEPT !.generation = g, !.leaseOwner = w,
                                    !.lease = LeaseTerm, !.current = n]
      /\ delivery' = [delivery EXCEPT ![n].status = "claimed",
                                      ![n].attempt = Attempt(n)]
      /\ host' = [host EXCEPT ![g] =
           [phase |-> "claimed", worker |-> w, delivery |-> n,
            attempt |-> Attempt(n), output |-> PendingOutput(n),
            checkpoint |-> session.checkpoint]]
      /\ UNCHANGED events

-----------------------------------------------------------------------------
(* The activity of a host, up to its settlement.                           *)

(* Mutant of Owns: only the delivery and the lease are compared.           *)
OwnsDelivery(g) ==
  /\ session.current = host[g].delivery
  /\ delivery[host[g].delivery].status = "claimed"
  /\ session.lease > 0

(* The fence of every store command.                                       *)
Owns(g) ==
  /\ session.generation = g
  /\ session.leaseOwner = host[g].worker
  /\ session.current = host[g].delivery
  /\ delivery[host[g].delivery].status = "claimed"
  /\ session.lease > 0

Abandon(g) ==
  /\ Live(g)
  /\ Owns(g) => SpareGeneration
  /\ host' = [host EXCEPT ![g].phase = "gone"]
  /\ UNCHANGED <<session, delivery, events>>

Renew(g, phase) ==
  /\ Owns(g)
  /\ session' = [session EXCEPT !.lease = LeaseTerm]
  /\ host' = [host EXCEPT ![g].phase = phase]
  /\ UNCHANGED <<delivery, events>>

(* The first heartbeat must succeed before anything else is done.          *)
Handshake(g) == host[g].phase = "claimed" /\ Renew(g, "ready")
Heartbeat(g) == Live(g) /\ Renew(g, host[g].phase)

(* The runtime opened or resumed a session of its own, a new one each time. *)
BindRuntime(g) ==
  /\ host[g].phase = "ready"
  /\ Owns(g)
  /\ session' = [session EXCEPT !.runtimeSession = g]
  /\ host' = [host EXCEPT ![g].phase = "bound"]
  /\ UNCHANGED <<delivery, events>>

(* Events carry the bound runtime session.                                 *)
Bound(g) ==
  /\ host[g].phase = "bound"
  /\ Owns(g)
  /\ session.runtimeSession = g

Event(g, type, draft) ==
  [type |-> type, delivery |-> host[g].delivery, generation |-> g,
   draft |-> draft]

(* Mutant of MessageReady: the draft is published when it is stored.       *)
MessagePublished(g) ==
  /\ Bound(g)
  /\ events' = events \cup {Event(g, "message-ready", g),
                            Event(g, "message", g)}
  /\ host' = [host EXCEPT ![g].output = g]
  /\ UNCHANGED <<session, delivery>>

MessageReady(g) ==
  /\ Bound(g)
  /\ events' = events \cup {Event(g, "message-ready", g)}
  /\ host' = [host EXCEPT ![g].output = g]
  /\ UNCHANGED <<session, delivery>>

CheckpointReady(g) ==
  /\ TRUE \in Checkpoints
  /\ Bound(g)
  /\ session' = [session EXCEPT !.checkpoint = g]
  /\ host' = [host EXCEPT ![g].checkpoint = g]
  /\ UNCHANGED <<delivery, events>>

-----------------------------------------------------------------------------
(* Settlement.                                                             *)

(* A checkpoint handed to the store must be of this very generation and of *)
(* the bound runtime session.                                              *)
CheckpointFits(g, c) == c = 0 \/ (c = g /\ session.runtimeSession = g)

(* What createCheckpoint returns: a new checkpoint when the runtime makes  *)
(* one, otherwise whatever the host remembers.                             *)
CheckpointOf(g, made) == IF made THEN g ELSE host[g].checkpoint

Release(c) ==
  session' = [session EXCEPT !.leaseOwner = NoWorker, !.lease = 0,
                             !.current = 0,
                             !.checkpoint = IF c = 0 THEN @ ELSE c]

Answer(g, outcome) ==
  IF outcome = "completed" /\ host[g].output # 0
    THEN {Event(g, "message", host[g].output)}
    ELSE {}

FinishDelivery(g, outcome, c) ==
  LET n == host[g].delivery
  IN  /\ Owns(g)
      /\ ~\E e \in events : e.delivery = n /\ e.type \in Settled
      /\ CheckpointFits(g, c)
      /\ events' = events \cup {Event(g, outcome, 0)} \cup Answer(g, outcome)
      /\ delivery' = [delivery EXCEPT ![n].status = outcome]
      /\ Release(c)
      /\ host' = [host EXCEPT ![g].phase = "gone"]

Requeued(row) ==
  [row EXCEPT !.status = "pending", !.available = FALSE, !.attempt = @ + 1]

RetryDelivery(g, c) ==
  LET n == host[g].delivery
  IN  /\ Owns(g)
      /\ SpareGeneration
      /\ CheckpointFits(g, c)
      /\ events' = events \cup {Event(g, "retrying", 0)}
      /\ delivery' = [delivery EXCEPT ![n] = Requeued(@)]
      /\ Release(c)
      /\ host' = [host EXCEPT ![g].phase = "gone"]

(* The runtime ended the delivery.                                         *)
Complete(g) ==
  /\ host[g].phase = "bound"
  /\ session.runtimeSession = g
  /\ \E made \in Checkpoints :
       FinishDelivery(g, "completed", CheckpointOf(g, made))

(* The delivery failed, in the runtime or before it was bound: again while *)
(* attempts are left and the failure allows it, otherwise for good.        *)
Fail(g) ==
  /\ host[g].phase \in {"ready", "bound"}
  /\ \/ /\ host[g].attempt < MaxAttempts
        /\ RetryDelivery(g, host[g].checkpoint)
     \/ FinishDelivery(g, "failed", host[g].checkpoint)

(* The claimed runtime is not registered with this host.                   *)
FailWithoutRuntime(g) ==
  /\ host[g].phase = "claimed"
  /\ FinishDelivery(g, "failed", 0)

(* Forced shutdown: every activity is checkpointed and requeued.           *)
Interrupt(g) ==
  /\ Live(g)
  /\ \E made \in Checkpoints :
       /\ made => host[g].phase = "bound"
       /\ RetryDelivery(g, CheckpointOf(g, made))

-----------------------------------------------------------------------------
HostStep(g) ==
  \/ Handshake(g)
  \/ Heartbeat(g)
  \/ BindRuntime(g)
  \/ MessageReady(g)
  \/ CheckpointReady(g)
  \/ Complete(g)
  \/ Fail(g)
  \/ FailWithoutRuntime(g)
  \/ Interrupt(g)
  \/ Abandon(g)

Next ==
  \/ Post
  \/ PostRebound
  \/ Tick
  \/ \E n \in Numbers : Elapse(n)
  \/ \E w \in Workers, n \in Numbers : Claim(w, n)
  \/ \E g \in Generations : HostStep(g)

Spec == Init /\ [][Next]_vars

(* Time passes; hosts keep polling; the heartbeat of a host that lost its  *)
(* lease tells it so, and it abandons; one that keeps its lease gets its   *)
(* delivery opened, bound and completed at last.                           *)
NoticeLoss(g) == Live(g) /\ ~Owns(g) /\ Abandon(g)
Progress(g) == Handshake(g) \/ BindRuntime(g) \/ Complete(g)

FairSpec ==
  /\ Spec
  /\ WF_vars(Tick)
  /\ \A n \in Numbers : WF_vars(Elapse(n))
  /\ WF_vars(\E w \in Workers, n \in Numbers : Claim(w, n))
  /\ \A g \in Generations : WF_vars(NoticeLoss(g))
  /\ \A g \in Generations : WF_vars(Progress(g))

-----------------------------------------------------------------------------
(* What must hold in every state.                                          *)

(* Every row and every activity has the shape its writers give it.         *)
TypeOK ==
  /\ session \in SessionRows
  /\ delivery \in [Numbers -> DeliveryRows]
  /\ host \in [Generations -> Activities]
  /\ events \subseteq EventRows

(* The session row and its inbox agree: the current delivery is the only   *)
(* claimed one, its lease belongs to the host of the current generation,   *)
(* and a session that handles nothing is owned by nobody.                  *)
SessionMatchesInbox ==
  /\ \A n \in Numbers : delivery[n].status = "claimed" <=> session.current = n
  /\ \A n \in Numbers :
       delivery[n].status # "none" <=> n <= session.deliverySequence
  /\ IF session.current = 0
       THEN session.leaseOwner = NoWorker /\ session.lease = 0
       ELSE /\ session.generation \in Generations
            /\ host[session.generation].worker = session.leaseOwner
            /\ host[session.generation].delivery = session.current
            /\ session.leaseOwner \in Workers

(* First in, first out: nothing is handled before what came earlier is     *)
(* settled, through crashes, retries and backoff.                          *)
InOrder ==
  \A n \in Numbers : \A m \in 1 .. (n - 1) :
    delivery[n].status \in {"claimed"} \cup Settled
      => delivery[m].status \in Settled

(* A delivery has one terminal event when it is settled and none before,   *)
(* and at most one answer, of the generation that completed it.            *)
SettledOnce ==
  /\ \A n \in Numbers, s \in Settled :
       delivery[n].status = s <=>
         \E e \in events : e.delivery = n /\ e.type = s
  /\ \A d, e \in events :
       /\ d.delivery = e.delivery
       /\ d.type \in Settled
       => /\ e.type \in Settled => e = d
          /\ e.type = "message" =>
               d.type = "completed" /\ e.generation = d.generation
  /\ \A e \in events : e.type = "message" =>
       \E d \in events : d.delivery = e.delivery /\ d.type = "completed"

(* An answer is a draft that was stored for this delivery, and the draft   *)
(* of an attempt that was retried is never published by a later one.       *)
AnswerIsOfThisAttempt ==
  \A e \in events : e.type = "message" =>
    /\ \E d \in events : /\ d.type = "message-ready"
                         /\ d.delivery = e.delivery
                         /\ d.generation = e.draft
    /\ ~\E r \in events : /\ r.type = "retrying"
                          /\ r.delivery = e.delivery
                          /\ r.generation \in e.draft .. e.generation

(* The attempt number of a delivery is the number of times it was handed   *)
(* to a host, counting the hand-over a pending one still waits for.        *)
ClaimsOf(n) == {g \in Generations : host[g].delivery = n}
AttemptsCounted ==
  \A n \in Numbers :
    delivery[n].attempt = Cardinality(ClaimsOf(n)) +
      IF delivery[n].status \in {"none", "pending"} THEN 1 ELSE 0

(* The inbox is sound: the parts above, but for the answers.               *)
InboxSound ==
  TypeOK /\ SessionMatchesInbox /\ InOrder /\ SettledOnce /\ AttemptsCounted

(* A lost activity can be claimed again: those deliveries recover after    *)
(* lease expiry, as the comment on interruptActive has it.                 *)
LostIsRecoverable ==
  session.current # 0 /\ session.lease = 0 => CheckpointReadable

(* A forced shutdown can requeue every activity it finds: whatever the     *)
(* host remembers is a checkpoint the store accepts.                       *)
InterruptRequeues ==
  \A g \in Generations :
    Live(g) /\ Owns(g) => CheckpointFits(g, host[g].checkpoint)

(* The draft handed to a new host is the last durable one of the delivery, *)
(* not counting drafts of attempts that were retried.                      *)
DraftsSinceRetry(n) ==
  {g \in Generations :
     /\ \E e \in events : /\ e.type = "message-ready"
                          /\ e.delivery = n /\ e.generation = g
     /\ ~\E r \in events : /\ r.type = "retrying"
                           /\ r.delivery = n /\ r.generation >= g}
PendingOutputIsLastDraft ==
  \A g \in Generations : g = session.generation /\ host[g].phase = "claimed" =>
    IF DraftsSinceRetry(host[g].delivery) = {}
      THEN host[g].output = 0
      ELSE /\ host[g].output \in DraftsSinceRetry(host[g].delivery)
           /\ \A h \in DraftsSinceRetry(host[g].delivery) :
                h <= host[g].output

-----------------------------------------------------------------------------
(* What a step may never do.                                               *)

(* Only the host of the current generation leaves a trace in the Room.     *)
OnlyCurrentHostSpeaks ==
  [][\A e \in events' \ events : e.generation = session.generation]_vars

(* The stored checkpoint is only replaced by a later one, or dropped with  *)
(* the whole binding.                                                      *)
CheckpointsAdvance ==
  [][\/ session'.checkpoint >= session.checkpoint
     \/ session'.checkpoint = 0 /\ session'.runtimeSession = 0]_vars

(* A host that lost its lease leaves nothing behind, neither in the Room   *)
(* nor in the provider state: both of the above.                           *)
HostsAreFenced == OnlyCurrentHostSpeaks /\ CheckpointsAdvance

-----------------------------------------------------------------------------
(* Rows and hosts keep the promises of RoomMailbox.                        *)
Mailbox ==
  INSTANCE RoomMailbox WITH
    posted <- session.deliverySequence,
    settled <- {n \in Numbers : delivery[n].status \in Settled},
    answered <- {n \in Numbers :
                   \E e \in events : e.type = "message" /\ e.delivery = n}

KeepsMailbox == Mailbox!Spec

-----------------------------------------------------------------------------
(* What must finally happen, under FairSpec.                               *)

(* Every message that was posted is answered or given up, although hosts   *)
(* crash and attempts fail on the way.                                     *)
EveryDeliverySettles ==
  \A n \in Numbers :
    delivery[n].status = "pending" ~> delivery[n].status \in Settled
=============================================================================
