---------------------------- MODULE RoomDelegation ----------------------------
(***************************************************************************)
(* How a message of a Room reaches agents, and how agents pass work on.    *)
(*                                                                         *)
(* A person's message is routed to the agents it mentions, to the agent it *)
(* replies to and to the host; each of them has one session with an inbox. *)
(* A session host claims the oldest delivery of a session under a lease,   *)
(* opens a run of the agent, and the run may ask for a delegation to       *)
(* another agent.  The control plane checks the lease, the lineage of the  *)
(* request, the policy of the Room, the grants that people issued and two  *)
(* budgets, and records the answer under the id of the tool call.          *)
(*                                                                         *)
(* What a run asks with is a fence (generation and worker) that it read    *)
(* from the session when it was opened, which may be after its lease went  *)
(* to another host.  A worker never claims one session twice in the same   *)
(* generation, so the generation stands for the pair.                      *)
(***************************************************************************)
EXTENDS Naturals, Sequences, FiniteSets, SequencesExt

CONSTANTS
  Agents,          \* agent profiles of the organization
  Host,            \* the host agent of the Room
  NoAgent,         \* no agent
  Messages,        \* messages people post: the roots of delegations
  NoMessage,       \* a grant for any root
  Calls,           \* ids of tool calls
  NoCall,          \* a delivery that no tool call caused
  MentionSets,     \* the sets of agents a message may mention
  Offers,          \* the grants a person may issue: from, to, scope, root
  Switched,        \* agents a person may disable and enable
  Rebound,         \* agents whose runtime a person may change
  MaxHops,         \* policy.delegation.maxHops
  MaxInvocations,  \* policy.delegation.maxInvocations
  HopLimit,        \* hopLimit of a grant
  GrantLimit,      \* invocationLimit of a grant
  MaxGrants,       \* bound on the grants issued
  MaxGeneration    \* bound on the generations of a session

\* What the parameters must be; the instances assume it.
DelegationAssumption ==
  /\ Host \in Agents
  /\ MentionSets \subseteq SUBSET Agents
  /\ Offers \subseteq [from: Agents, to: Agents, scope: {"once", "room"},
                      root: Messages \cup {NoMessage}]
  /\ Switched \subseteq Agents /\ Rebound \subseteq Agents
  /\ NoAgent \notin Agents /\ NoMessage \notin Messages /\ NoCall \notin Calls
  /\ {MaxHops, MaxInvocations, HopLimit, GrantLimit, MaxGrants, MaxGeneration}
       \subseteq Nat \ {0}

VARIABLES
  enabled,  \* the agents that are enabled
  posted,   \* the messages posted
  inbox,    \* RoomInboxDelivery rows of each agent's session, in order
  session,  \* RoomAgentSession rows
  run,      \* the run a host opened in each generation of a session
  grants,   \* RoomDelegationGrant rows, in the order of their issue
  budget,   \* invocationCount of the RoomDelegationRootBudget of a message
  call,     \* the tool calls and the source each presents
  ledger    \* RoomDelegationInvocation rows, by the id of the tool call

vars == <<enabled, posted, inbox, session, run, grants, budget, call, ledger>>

Generations == 1 .. MaxGeneration
Codes == {"none", "max-invocations-reached", "self-delegation",
          "cycle-detected", "max-hops-reached", "duplicate-delegation",
          "agent-unavailable", "grant-required", "grant-expired",
          "grant-hop-limit-reached", "root-invocation-limit-reached",
          "grant-invocation-limit-reached"}

\* An agent without deliveries has no session row.
Fresh == [done |-> 0, current |-> FALSE, generation |-> 0, lease |-> FALSE,
          bound |-> TRUE]
NoRun == [stage |-> "none", fence |-> 0]
Unused == [stage |-> "unused", agent |-> NoAgent, generation |-> 0,
           fence |-> 0, delivery |-> 0, target |-> NoAgent]
Unwritten == [status |-> "none", code |-> "none", root |-> NoMessage,
              from |-> NoAgent, to |-> NoAgent, grant |-> 0, hop |-> 0,
              delivery |-> 0]

Init ==
  /\ enabled = Agents
  /\ posted = {}
  /\ inbox = [a \in Agents |-> <<>>]
  /\ session = [a \in Agents |-> Fresh]
  /\ run = [a \in Agents |-> [g \in Generations |-> NoRun]]
  /\ grants = <<>>
  /\ budget = [m \in Messages |-> 0]
  /\ call = [c \in Calls |-> Unused]
  /\ ledger = [c \in Calls |-> Unwritten]

-----------------------------------------------------------------------------
(* The routing of a message and the inbox it goes to.                      *)

Delivery(m, c, intent, lineage) ==
  [root |-> m, call |-> c, intent |-> intent, lineage |-> lineage]

\* The session of a target may be advanced: its binding did not change while
\* it is busy with a delivery.
MayAdvance(a) == session[a].bound \/ ~session[a].current

\* A session whose binding changed starts over in a new generation.
Advanced(a) ==
  IF session[a].bound THEN session[a]
  ELSE [session[a] EXCEPT !.bound = TRUE,
                          !.generation = session[a].generation + 1]

Room(a) == session[a].bound \/ session[a].generation < MaxGeneration

\* An agent a message can reply to: one that has answered or delegated.
Spoke(a) ==
  \/ session[a].done > 0
  \/ \E c \in Calls : ledger[c].status = "accepted" /\ ledger[c].from = a

\* The agents that get a delivery of a message, and how they are to take it.
Respondents(mentions, reply) == mentions \cup ({reply} \ {NoAgent})
Intent(a, respondents) ==
  IF a \in respondents \/ respondents = {} THEN "respond" ELSE "observe"

Post(m, mentions, reply) ==
  LET respondents == Respondents(mentions, reply)
      targets == respondents \cup {Host}
  IN /\ m \notin posted
     /\ targets \subseteq enabled
     /\ reply # NoAgent => Spoke(reply)
     /\ \A a \in targets : MayAdvance(a) /\ Room(a)
     /\ posted' = posted \cup {m}
     /\ session' = [a \in Agents |->
                      IF a \in targets THEN Advanced(a) ELSE session[a]]
     /\ inbox' = [a \in Agents |->
                    IF a \in targets
                    THEN Append(inbox[a], Delivery(m, NoCall,
                                            Intent(a, respondents), <<a>>))
                    ELSE inbox[a]]
     /\ UNCHANGED <<enabled, run, grants, budget, call, ledger>>

-----------------------------------------------------------------------------
(* What people change: agents and grants.                                  *)

SetEnabled(a) ==
  /\ a \in Switched
  /\ enabled' = IF a \in enabled THEN enabled \ {a} ELSE enabled \cup {a}
  /\ UNCHANGED <<posted, inbox, session, run, grants, budget, call, ledger>>

\* The runtime of an agent profile is changed; its session still names the
\* old one.
Rebind(a) ==
  /\ a \in Rebound
  /\ inbox[a] # <<>>
  /\ session[a].bound
  /\ session' = [session EXCEPT ![a].bound = FALSE]
  /\ UNCHANGED <<enabled, posted, inbox, run, grants, budget, call, ledger>>

IssueGrant(offer) ==
  /\ Len(grants) < MaxGrants
  /\ offer.from # offer.to
  /\ {offer.from, offer.to} \subseteq enabled
  /\ offer.root \in posted \cup {NoMessage}
  /\ grants' = Append(grants,
       [from |-> offer.from, to |-> offer.to, scope |-> offer.scope,
        root |-> offer.root, status |-> "active", expired |-> FALSE, count |-> 0])
  /\ UNCHANGED <<enabled, posted, inbox, session, run, budget, call, ledger>>

RevokeGrant(g) ==
  /\ grants[g].status = "active"
  /\ grants' = [grants EXCEPT ![g].status = "revoked"]
  /\ UNCHANGED <<enabled, posted, inbox, session, run, budget, call, ledger>>

\* The expiresAt of a grant passes; its row does not change.
GrantExpires(g) ==
  /\ ~grants[g].expired
  /\ grants' = [grants EXCEPT ![g].expired = TRUE]
  /\ UNCHANGED <<enabled, posted, inbox, session, run, budget, call, ledger>>

-----------------------------------------------------------------------------
(* The lease of a session and the run a host opens under it.               *)

\* The oldest delivery that has not ended is claimed, or claimed again once
\* the lease on it expired.
Claim(a) ==
  /\ session[a].done < Len(inbox[a])
  /\ ~session[a].lease
  /\ session[a].generation < MaxGeneration
  /\ session' = [session EXCEPT
       ![a] = [@ EXCEPT !.current = TRUE, !.lease = TRUE,
                        !.generation = session[a].generation + 1]]
  /\ run' = [run EXCEPT ![a] = [@ EXCEPT ![session[a].generation + 1] =
                                  [stage |-> "claimed", fence |-> 0]]]
  /\ UNCHANGED <<enabled, posted, inbox, grants, budget, call, ledger>>

LeaseExpires(a) ==
  /\ session[a].lease
  /\ session' = [session EXCEPT ![a].lease = FALSE]
  /\ UNCHANGED <<enabled, posted, inbox, run, grants, budget, call, ledger>>

\* The tools of a run are built with the fence the session has by then.
OpenRun(a, g) ==
  /\ run[a][g].stage = "claimed"
  /\ session[a].current
  /\ run' = [run EXCEPT ![a] = [@ EXCEPT ![g] =
               [stage |-> "opened", fence |-> session[a].generation]]]
  /\ UNCHANGED <<enabled, posted, inbox, session, grants, budget, call, ledger>>

\* A run is consumed only once its host could write its handle to the session.
BindRun(a, g) ==
  /\ run[a][g].stage = "opened"
  /\ session[a].lease
  /\ session[a].generation = g
  /\ run' = [run EXCEPT ![a] = [@ EXCEPT ![g].stage = "bound"]]
  /\ UNCHANGED <<enabled, posted, inbox, session, grants, budget, call, ledger>>

\* The host settles the delivery: it ends, with an answer or a terminal failure,
\* or it is left for another attempt.
Settle(a, g, ended) ==
  /\ run[a][g].stage # "none"
  /\ session[a].lease
  /\ session[a].generation = g
  /\ session' = [session EXCEPT ![a] = [@ EXCEPT !.current = FALSE,
       !.lease = FALSE, !.done = session[a].done + IF ended THEN 1 ELSE 0]]
  /\ run' = [run EXCEPT ![a] = [@ EXCEPT ![g] = NoRun]]
  /\ UNCHANGED <<enabled, posted, inbox, grants, budget, call, ledger>>

-----------------------------------------------------------------------------
(* A delegation: the tool call, then the transaction of the control plane. *)

\* The source of the call is resolved from the session under the run's fence.
StartCall(c, a, g, to) ==
  /\ call[c].stage = "unused"
  /\ run[a][g].stage = "bound"
  /\ session[a].current /\ session[a].lease
  /\ session[a].generation = run[a][g].fence
  /\ call' = [call EXCEPT ![c] =
                [stage |-> "sent", agent |-> a, generation |-> g,
                 fence |-> run[a][g].fence, delivery |-> session[a].done + 1,
                 target |-> to]]
  /\ UNCHANGED <<enabled, posted, inbox, session, run, grants, budget, ledger>>

Accepted == {c \in Calls : ledger[c].status = "accepted"}
OfRoot(m) == {c \in Calls : ledger[c].status # "none" /\ ledger[c].root = m}

(* Mutant of SourceHeld: the claim is compared, not whose lease it is.     *)
SourceClaimed(c) ==
  LET s == session[call[c].agent]
  IN s.current /\ s.done + 1 = call[c].delivery

\* The session still holds the lease and the delivery the call was made for.
SourceHeld(c) ==
  LET s == session[call[c].agent]
  IN /\ s.current /\ s.lease
     /\ s.generation = call[c].fence
     /\ s.done + 1 = call[c].delivery

SourceDelivery(c) == inbox[call[c].agent][call[c].delivery]

\* A delivery caused by a delegation agrees with the ledger about it.
LineageRecorded(a, i) ==
  LET d == inbox[a][i]
  IN d.call # NoCall =>
       /\ ledger[d.call].status = "accepted"
       /\ ledger[d.call].root = d.root
       /\ ledger[d.call].to = a
       /\ ledger[d.call].delivery = i

(* Mutant of Revisits, Repeats and Unavailable: the check is missing.      *)
NotChecked(c) == FALSE

\* The target is on the chain that leads to the source.
Revisits(c) == Contains(SourceDelivery(c).lineage, call[c].target)

\* The source already handed work of this message to the target.
Repeats(c) ==
  \E o \in Accepted \cap OfRoot(SourceDelivery(c).root) :
    ledger[o].from = call[c].agent /\ ledger[o].to = call[c].target

Unavailable(c) == ~({call[c].agent, call[c].target} \subseteq enabled)

\* Why the policy of the Room forbids the call, or "none".
PolicyCode(c) ==
  CASE Cardinality(OfRoot(SourceDelivery(c).root)) >= MaxInvocations
         -> "max-invocations-reached"
    [] call[c].target = call[c].agent -> "self-delegation"
    [] Revisits(c) -> "cycle-detected"
    [] Len(SourceDelivery(c).lineage) - 1 >= MaxHops -> "max-hops-reached"
    [] Repeats(c) -> "duplicate-delegation"
    [] Unavailable(c) -> "agent-unavailable"
    [] OTHER -> "none"

\* The active grants for the pair, the narrowest first and then the oldest.
Rank(g, m) == CASE grants[g].scope = "once" /\ grants[g].root = m -> 1
                [] grants[g].scope = "once" -> 2
                [] OTHER -> 3
Matching(c) ==
  {g \in DOMAIN grants :
     /\ grants[g].status = "active"
     /\ grants[g].from = call[c].agent
     /\ grants[g].to = call[c].target
     /\ grants[g].root \in {NoMessage, SourceDelivery(c).root}}
Precedes(g, h, m) == \/ Rank(g, m) < Rank(h, m)
                     \/ Rank(g, m) = Rank(h, m) /\ g =< h
Usable(c) == {g \in Matching(c) : ~grants[g].expired}
ChosenGrant(c) ==
  CHOOSE g \in Usable(c) :
    \A h \in Usable(c) : Precedes(g, h, SourceDelivery(c).root)

\* Why the grants and the budgets forbid the call, or "none".
GrantCode(c) ==
  LET m == SourceDelivery(c).root
      g == ChosenGrant(c)
  IN CASE Matching(c) = {} -> "grant-required"
       [] Usable(c) = {} -> "grant-expired"
       [] Len(SourceDelivery(c).lineage) > HopLimit -> "grant-hop-limit-reached"
       [] budget[m] >= MaxInvocations -> "root-invocation-limit-reached"
       [] grants[g].count >= GrantLimit -> "grant-invocation-limit-reached"
       [] OTHER -> "none"

Code(c) == IF PolicyCode(c) # "none" THEN PolicyCode(c) ELSE GrantCode(c)

Entry(c, status, code, grant, hop, delivery) ==
  [status |-> status, code |-> code, root |-> SourceDelivery(c).root,
   from |-> call[c].agent, to |-> call[c].target, grant |-> grant,
   hop |-> hop, delivery |-> delivery]

Answered(c) == call' = [call EXCEPT ![c].stage = "answered"]

\* The transaction throws: the source lost its lease, or the target is busy
\* under another binding.  Nothing is recorded.
Refuse(c) ==
  /\ call[c].stage = "sent"
  /\ \/ ~SourceHeld(c)
     \/ ~LineageRecorded(call[c].agent, call[c].delivery)
     \/ Code(c) = "none" /\ ~MayAdvance(call[c].target)
  /\ Answered(c)
  /\ UNCHANGED <<enabled, posted, inbox, session, run, grants, budget, ledger>>

\* The call is blocked; the ledger keeps the code for a replay.
Block(c) ==
  /\ call[c].stage = "sent"
  /\ SourceHeld(c)
  /\ LineageRecorded(call[c].agent, call[c].delivery)
  /\ Code(c) # "none"
  /\ ledger' = [ledger EXCEPT ![c] =
       Entry(c, "blocked", Code(c), 0,
             IF SourceDelivery(c).call = NoCall THEN 1 ELSE 2, 0)]
  /\ Answered(c)
  /\ UNCHANGED <<enabled, posted, inbox, session, run, grants, budget>>

UsedGrant(grant) ==
  [grant EXCEPT !.count = grant.count + 1,
                !.status = IF grant.scope = "once" THEN "consumed" ELSE @]

\* The budgets are reserved, the instruction becomes a delivery of the target
\* and the call is accepted.
Accept(c) ==
  LET d == SourceDelivery(c)
      to == call[c].target
      g == ChosenGrant(c)
  IN /\ call[c].stage = "sent"
     /\ SourceHeld(c)
     /\ LineageRecorded(call[c].agent, call[c].delivery)
     /\ Code(c) = "none"
     /\ MayAdvance(to) /\ Room(to)
     /\ budget' = [budget EXCEPT ![d.root] = @ + 1]
     /\ grants' = [grants EXCEPT ![g] = UsedGrant(grants[g])]
     /\ session' = [session EXCEPT ![to] = Advanced(to)]
     /\ inbox' = [inbox EXCEPT ![to] =
          Append(@, Delivery(d.root, c, "respond", Append(d.lineage, to)))]
     /\ ledger' = [ledger EXCEPT ![c] =
          Entry(c, "accepted", "none", g, Len(d.lineage), Len(inbox[to]) + 1)]
     /\ Answered(c)
     /\ UNCHANGED <<enabled, posted, run>>

Next ==
  \/ \E m \in Messages, mentions \in MentionSets,
        reply \in Agents \cup {NoAgent} : Post(m, mentions, reply)
  \/ \E a \in Agents : \/ SetEnabled(a)
                       \/ Rebind(a)
                       \/ Claim(a)
                       \/ LeaseExpires(a)
  \/ \E offer \in Offers : IssueGrant(offer)
  \/ \E g \in DOMAIN grants : RevokeGrant(g) \/ GrantExpires(g)
  \/ \E a \in Agents, g \in Generations : \/ OpenRun(a, g)
                                          \/ BindRun(a, g)
                                          \/ Settle(a, g, TRUE)
                                          \/ Settle(a, g, FALSE)
  \/ \E c \in Calls, a, to \in Agents, g \in Generations : StartCall(c, a, g, to)
  \/ \E c \in Calls : Refuse(c) \/ Block(c) \/ Accept(c)

Spec == Init /\ [][Next]_vars

-----------------------------------------------------------------------------
(* Properties                                                              *)

\* Every variable keeps its shape.
TypeOK ==
  /\ enabled \subseteq Agents
  /\ posted \subseteq Messages
  /\ \A a \in Agents : \A i \in DOMAIN inbox[a] :
       inbox[a][i] \in [root: Messages, call: Calls \cup {NoCall},
                        intent: {"respond", "observe"}, lineage: Seq(Agents)]
  /\ session \in [Agents -> [done: Nat, current: BOOLEAN,
       generation: 0 .. MaxGeneration, lease: BOOLEAN, bound: BOOLEAN]]
  /\ run \in [Agents -> [Generations ->
       [stage: {"none", "claimed", "opened", "bound"},
        fence: 0 .. MaxGeneration]]]
  /\ grants \in Seq([from: Agents, to: Agents, scope: {"once", "room"},
       root: Messages \cup {NoMessage}, status: {"active", "consumed", "revoked"},
       expired: BOOLEAN, count: 0 .. GrantLimit])
  /\ budget \in [Messages -> 0 .. MaxInvocations]
  /\ call \in [Calls -> [stage: {"unused", "sent", "answered"},
       agent: Agents \cup {NoAgent}, generation: 0 .. MaxGeneration,
       fence: 0 .. MaxGeneration, delivery: Nat, target: Agents \cup {NoAgent}]]
  /\ ledger \in [Calls -> [status: {"none", "blocked", "accepted"}, code: Codes,
       root: Messages \cup {NoMessage}, from: Agents \cup {NoAgent},
       to: Agents \cup {NoAgent}, grant: 0 .. MaxGrants,
       hop: 0 .. MaxHops + 1, delivery: Nat]]

\* The two budgets agree with the ledger: a root message and a grant have
\* counted exactly the delegations accepted for them, and a grant for one use
\* is consumed by the only call it let through.
BudgetsMatchLedger ==
  /\ \A m \in Messages : budget[m] = Cardinality(Accepted \cap OfRoot(m))
  /\ \A g \in DOMAIN grants :
       LET uses == {c \in Accepted : ledger[c].grant = g}
       IN /\ grants[g].count = Cardinality(uses)
          /\ grants[g].scope = "once" =>
               (grants[g].status = "consumed" <=> Cardinality(uses) = 1)

\* Work never comes back to an agent that passed it on, and no chain is longer
\* than the Room allows: the lineage of a delivery has no agent twice, ends
\* with the agent whose inbox holds it, and is the lineage of the delivery it
\* was delegated from, so that the hops of a chain add up across sessions.
LineageSound ==
  \A a \in Agents : \A i \in DOMAIN inbox[a] :
    LET line == inbox[a][i].lineage
    IN /\ IsInjective(line)
       /\ Last(line) = a
       /\ Len(line) =< MaxHops + 1
       /\ inbox[a][i].call # NoCall =>
            LET from == ledger[inbox[a][i].call].from
            IN \E j \in DOMAIN inbox[from] :
                 /\ inbox[from][j].lineage = Front(line)
                 /\ inbox[from][j].root = inbox[a][i].root

\* A source agent hands the work of one message to a target once, however
\* often its run is repeated after a crash with new ids of its tool calls; and
\* every accepted call has its own delivery, which the check of the lineage
\* will find in the ledger.
DelegatedOnce ==
  /\ \A c, d \in Accepted :
       /\ c # d
       /\ ledger[c].root = ledger[d].root
       => <<ledger[c].from, ledger[c].to>> # <<ledger[d].from, ledger[d].to>>
  /\ \A c \in Accepted :
       inbox[ledger[c].to][ledger[c].delivery].call = c
  /\ \A a \in Agents : \A i \in DOMAIN inbox[a] : LineageRecorded(a, i)

\* A run that uses its tools presents its own lease: a fence read after the
\* session went to another host belongs to a run that is never consumed.
FenceIsOwn ==
  \A a \in Agents, g \in Generations :
    run[a][g].stage = "bound" => run[a][g].fence = g

\* A delegation is accepted only from the run whose generation holds the lease
\* at that moment, between two enabled agents, under a grant a person issued
\* for that pair that is neither expired, revoked nor used up.
AuthorizedOnly ==
  \A c \in Calls :
    ledger'[c].status = "accepted" /\ ledger[c].status = "none" =>
      LET a == call[c].agent
          g == grants[ledger'[c].grant]
      IN /\ session[a].lease /\ session[a].generation = call[c].generation
         /\ {a, call[c].target} \subseteq enabled
         /\ g.from = a /\ g.to = call[c].target
         /\ g.status = "active" /\ ~g.expired /\ g.count < GrantLimit

OnlyAuthorized == [][AuthorizedOnly]_vars

=============================================================================
