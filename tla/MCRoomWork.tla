------------------------------ MODULE MCRoomWork ------------------------------
(* The work of a Room: the inbox of one agent, what agents hand on to one   *)
(* another, and the Team task that two executions share.  The components    *)
(* share no variable, so a step of one changes nothing of the others: a     *)
(* behaviour chooses its part and the rest keeps its initial state, which   *)
(* is the union of their state spaces and not the product.  Host processes, *)
(* ids of tool calls and jobs are interchangeable.                          *)
EXTENDS RoomSession, TLC

CONSTANTS hostAgent, ada, bob, message, Calls
CONSTANTS NoAgent, NoMessage, NoCall
CONSTANTS Jobs, TeamTask, NoTask, Runtime, Daemon, NoDaemon

Symmetry ==
  Permutations(Workers) \cup Permutations(Calls) \cup Permutations(Jobs)

VARIABLES
  part,  \* the part of this behaviour
  enabled, posted, inbox, agentSession, run, grants, budget, call, ledger,
  job, attempt, runtime, request, incident, task, outbox, admission,
  cancelCall, grant, writer

delegationVars ==
  <<enabled, posted, inbox, agentSession, run, grants, budget, call, ledger>>
jobVars == <<job, attempt, runtime, request, incident, task, outbox,
             admission, cancelCall, grant, writer>>

Offer(from, to, scope, root) ==
  [from |-> from, to |-> to, scope |-> scope, root |-> root]

(* The host may hand work to ada, ada to bob and back to the host, while    *)
(* ada is disabled and enabled.                                             *)
Chain == INSTANCE RoomDelegation WITH
  Agents <- {hostAgent, ada, bob}, Host <- hostAgent, Messages <- {message},
  MentionSets <- {{}},
  Offers <- {Offer(hostAgent, ada, "room", NoMessage),
             Offer(ada, bob, "once", NoMessage),
             Offer(ada, hostAgent, "once", NoMessage)},
  Switched <- {ada}, Rebound <- {}, MaxHops <- 2, MaxInvocations <- 2,
  HopLimit <- 2, GrantLimit <- 1, MaxGrants <- 2, MaxGeneration <- 1,
  session <- agentSession

(* One pair of agents, a grant of either scope, a run that is repeated by   *)
(* another host, and a change of ada's runtime.                             *)
Pair == INSTANCE RoomDelegation WITH
  Agents <- {hostAgent, ada}, Host <- hostAgent, Messages <- {message},
  MentionSets <- {{}},
  Offers <- {Offer(hostAgent, ada, "room", NoMessage),
             Offer(hostAgent, ada, "once", message)},
  Switched <- {}, Rebound <- {ada}, MaxHops <- 2, MaxInvocations <- 2,
  HopLimit <- 2, GrantLimit <- 2, MaxGrants <- 1, MaxGeneration <- 2,
  session <- agentSession

(* Two jobs of one task, on a runtime with a slot for each.                 *)
Team == INSTANCE ExecutionJob WITH
  Workers <- {Daemon}, NoWorker <- NoDaemon, Runtimes <- {Runtime},
  NoRuntime <- NoDaemon, Tasks <- {TeamTask}, CapacityChoices <- {2},
  EnabledChoices <- {TRUE}, DiscardChoices <- {TRUE}, LeaseTerm <- 1,
  MaxGeneration <- 2

ASSUME RoomAssumption ==
  Chain!DelegationAssumption /\ Pair!DelegationAssumption
ASSUME TeamAssumption ==
  /\ IsFiniteSet(Jobs)
  /\ NoDaemon \notin {Daemon, Runtime} /\ NoTask # TeamTask

RoomInit ==
  /\ Init
  /\ Team!Init
  /\ \/ part \in {"inbox", "chain", "team"} /\ Chain!Init
     \/ part = "pair" /\ Pair!Init
  /\ part # "team" => task[TeamTask] = "open"

RoomNext ==
  /\ UNCHANGED part
  /\ \/ part = "inbox" /\ Next /\ UNCHANGED <<delegationVars, jobVars>>
     \/ part = "chain" /\ Chain!Next /\ UNCHANGED <<vars, jobVars>>
     \/ part = "pair" /\ Pair!Next /\ UNCHANGED <<vars, jobVars>>
     \/ part = "team" /\ Team!Next /\ UNCHANGED <<vars, delegationVars>>

RoomSpec ==
  RoomInit /\ [][RoomNext]_<<part, vars, delegationVars, jobVars>>
-----------------------------------------------------------------------------
(* The budgets agree with the ledger, work is handed to an agent once and   *)
(* never comes back, and a run presents its own lease, in a chain of three  *)
(* agents and in a pair whose run is repeated.                              *)
DelegationSound ==
  /\ part = "chain" => /\ Chain!TypeOK /\ Chain!BudgetsMatchLedger
                       /\ Chain!LineageSound /\ Chain!DelegatedOnce
  /\ part = "pair" => /\ Pair!TypeOK /\ Pair!BudgetsMatchLedger
                      /\ Pair!DelegatedOnce /\ Pair!FenceIsOwn

(* A delegation is accepted only from the holder of the lease, between      *)
(* enabled agents, under a grant a person issued that is good for it.       *)
OnlyAuthorized ==
  [][/\ part = "chain" => Chain!AuthorizedOnly
     /\ part = "pair" => Pair!AuthorizedOnly]_delegationVars

(* A task follows the executions linked to it, and people close it.         *)
TasksFollow == Team!TasksFollow
=============================================================================
