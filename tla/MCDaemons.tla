------------------------------ MODULE MCDaemons ------------------------------
(* The daemons of the execution plane: the merge workers of a knowledge     *)
(* space, the attempts two execution daemons run in their clones, and the   *)
(* poll loops of those daemons.  The components share no variable, so a     *)
(* step of one changes nothing of the others: a behaviour chooses its part  *)
(* and the rest keeps its initial state, which is the union of their state  *)
(* spaces and not the product.  Daemons are interchangeable.                *)
EXTENDS KnowledgeMerge, TLC

CONSTANTS
  NoDaemon,       \* no daemon
  MaxGeneration,  \* bound on the claims and questions of an attempt
  MaxFaults,      \* bound on the faults of the daemons of an attempt
  NativeResume,   \* the runtime of an attempt resumes native runs
  Runtimes, WorkCount, RuntimeOf, CapacityTotal, Slots, PollBatchSize,
  MaxLosses, MaxStalls, MaxToggles   \* of the poll loops

Symmetry == Permutations(Workers)

VARIABLES
  part,  \* the part of this behaviour
  job, attempt, receipt, incident, clone, proposal, requests, daemon, faults,
  reasons,
  status, holder, enabled, loop, pc, limit, batch, driven, dropped, forced,
  losses, stalls, toggles

attemptVars == <<job, attempt, receipt, incident, clone, proposal, requests,
                 daemon, faults, reasons>>
pollVars == <<status, holder, enabled, loop, pc, limit, batch, driven,
              dropped, forced, losses, stalls, toggles>>

Attempt == INSTANCE WorkspaceAttempt WITH
  Daemons <- Workers, branch <- proposal

Poll == INSTANCE ClaimPoll WITH
  Daemons <- Workers, None <- NoDaemon, active <- driven

ASSUME AttemptAssumption == Attempt!WorkspaceAssumption

ASSUME PollAssumption ==
  /\ NoDaemon \notin Workers
  /\ WorkCount \in Nat
  /\ RuntimeOf \in [1 .. WorkCount -> Runtimes]
  /\ CapacityTotal \in [Runtimes -> Nat \ {0}]
  /\ Slots \in Nat \ {0} /\ PollBatchSize \in Nat \ {0}
  /\ {MaxLosses, MaxStalls, MaxToggles} \subseteq Nat

(* One runtime, of the same capacity for TLC as the daemons have slots. *)
OneRuntime == [w \in 1 .. WorkCount |-> CHOOSE r \in Runtimes : TRUE]
TwoEach == [r \in Runtimes |-> 2]

(* Of the poll loops, behaviours in which no heartbeat, query or lease      *)
(* comes too late, and behaviours in which the last attempt is never queued.*)
Timely == stalls' = 0
Fewer == status'[WorkCount] = "absent"

DaemonsInit ==
  /\ part \in {"merge", "attempt", "poll", "stalledPoll"}
  /\ Init /\ Attempt!Init /\ Poll!Init

DaemonsNext ==
  /\ UNCHANGED part
  /\ \/ part = "merge" /\ Next /\ UNCHANGED <<attemptVars, pollVars>>
     \/ part = "attempt" /\ Attempt!Next /\ UNCHANGED <<vars, pollVars>>
     \/ /\ part = "poll" /\ Poll!Next /\ Timely
        /\ UNCHANGED <<vars, attemptVars>>
     \/ /\ part = "stalledPoll" /\ Poll!Next /\ Fewer
        /\ UNCHANGED <<vars, attemptVars>>

DaemonsSpec ==
  DaemonsInit /\ [][DaemonsNext]_<<part, vars, attemptVars, pollVars>>
-----------------------------------------------------------------------------
(* An attempt proposes its work once, whoever repeats its steps, and it     *)
(* ends as succeeded only with its work proposed.                           *)
ProposalSound ==
  Attempt!TypeOK /\ Attempt!OneProposal /\ Attempt!DoneIsProposed

(* Finished work leaves the clone only when it is proposed, or on the       *)
(* discard a person asked for.                                              *)
WorkIsKept == Attempt!WorkIsKept

(* The receipt only moves forward, except by the discard a person asked     *)
(* for, and the job ends as the receipt says.                               *)
ReceiptDecides == Attempt!ReceiptAdvances /\ Attempt!OutcomeIsRecorded

(* However loops stop, crash and stall between their awaits, slots and      *)
(* capacity are not exceeded, no claim is forgotten or launched over a      *)
(* running attempt, a forced interrupt leaves at most the claim in flight,  *)
(* and a loop that has ended drives nothing.                                *)
PollSound ==
  /\ Poll!TypeOK /\ Poll!WithinLimits /\ Poll!NoLeakedClaim
  /\ Poll!NoneOverwritten /\ Poll!ForceLeavesOne /\ Poll!StoppedDrivesNothing
=============================================================================
