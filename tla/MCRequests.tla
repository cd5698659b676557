------------------------------ MODULE MCRequests ------------------------------
(* Requests to the server: calls that present one idempotency key, in the   *)
(* two disciplines of the code, the confirmation of one tool request, the   *)
(* conversation of a team and the research of a Wiki, and the connections   *)
(* to the database that every request uses.  The components share no        *)
(* variable, so a step of one changes nothing of the others: a behaviour    *)
(* chooses its part and the rest keeps its initial state, which is the      *)
(* union of their state spaces and not the product.                         *)
EXTENDS MutationRequest

CONSTANTS Owners, NoOwner, MaxRevision
CONSTANTS Connections, NoConnection, Callers, NoCaller, Disposer, MaxTries,
          MaxErrors
CONSTANTS Turns, Adoptions, Chats, PlanDecisions, Starts, MaxCrashes

VARIABLES
  part,  \* the part of this behaviour
  request, jobs, feed, decision, card,
  command, tx, lock, conn, handle, writer, applied, errors,
  scope, run, answers, reports, plan, step, firstText, crashes

toolVars == <<request, jobs, feed, decision, card>>
connectionVars == <<command, tx, lock, conn, handle, writer, applied, errors>>
talkVars == <<scope, run, answers, reports, plan, step, firstText, crashes>>

(* A server that may crash, and one that does not.                          *)
Tool == INSTANCE ToolConfirmation WITH Crashes <- TRUE
SteadyTool == INSTANCE ToolConfirmation WITH Crashes <- FALSE

Database == INSTANCE LocalConnection WITH call <- command

Talk == INSTANCE AssistantRun WITH Decisions <- PlanDecisions

ASSUME RequestsAssumption ==
  /\ Tool!ConfirmationAssumption /\ Database!ConnectionAssumption
  /\ Talk!AssistantAssumption

Parts == {"owned", "atomic", "tool", "steadyTool", "onboarding", "research",
          "database"}
OneOf(S) == CHOOSE x \in S : TRUE

(* A row that an earlier version left is met by the atomic discipline only. *)
RequestsInit ==
  /\ part \in Parts
  /\ Init
  /\ part # "atomic" => row = NoRow
  /\ Tool!Init
  /\ Database!Init
  /\ Talk!Init
  /\ scope = IF part = "onboarding" THEN "team" ELSE "wiki"
  /\ part # "database" =>
       \A c \in Callers : /\ command[c].kind = "statement"
                          /\ command[c].at = OneOf(Connections)

(* Messages and research of a conversation share only its scope, which the  *)
(* research does not change: a behaviour has the one or the other.          *)
TalkNext ==
  \/ part = "onboarding" /\ Talk!Next /\ UNCHANGED plan
  \/ /\ part = "research" /\ Talk!Next
     /\ \A q \in Talk!Streams \cup Adoptions : step'[q] = step[q]

RequestsNext ==
  /\ UNCHANGED part
  /\ \/ /\ part = "owned" /\ OwnedNext
        /\ UNCHANGED <<toolVars, connectionVars, talkVars>>
     \/ /\ part = "atomic" /\ AtomicNext
        /\ UNCHANGED <<toolVars, connectionVars, talkVars>>
     \/ /\ part = "tool" /\ Tool!Next
        /\ UNCHANGED <<vars, connectionVars, talkVars>>
     \/ /\ part = "steadyTool" /\ SteadyTool!Next
        /\ UNCHANGED <<vars, connectionVars, talkVars>>
     \/ TalkNext /\ UNCHANGED <<vars, toolVars, connectionVars>>
     \/ /\ part = "database" /\ Database!Next
        /\ UNCHANGED <<vars, toolVars, talkVars>>

In(p, A) == part = p /\ A

(* The fairness of each part: as the part does not change, fairness of a    *)
(* disjunction of steps of two parts is fairness of each in its own.        *)
RequestsSpec ==
  /\ RequestsInit
  /\ [][RequestsNext]_<<part, vars, toolVars, connectionVars, talkVars>>
  /\ \A c \in Calls : WF_vars(\/ In("owned", OwnedSteps(c))
                              \/ In("atomic", AtomicSteps(c)))
  /\ \A o \in Owners : /\ WF_toolVars(In("steadyTool", SteadyTool!Serve(o)))
                       /\ WF_toolVars(In("steadyTool", SteadyTool!Browse(o)))
  /\ \A c \in Callers : WF_connectionVars(In("database", Database!Caller(c)))
  /\ \A k \in Connections :
       WF_connectionVars(In("database", Database!Disposal(k)))
  /\ \A t \in Turns : WF_talkVars(In("onboarding", Talk!Serve(t)))
  /\ \A s \in Starts : WF_talkVars(In("research", Talk!Serve(s)))
-----------------------------------------------------------------------------
(* What withAtomicIdempotency adds: the action of a key took effect if and  *)
(* only if it is recorded, and then once.                                   *)
AtomicIsExact == part = "atomic" => EffectIsRecord

(* A confirmed tool call runs once, for an approval that stands: its job    *)
(* exists only for a request that is approved or executed, one approval at  *)
(* a time holds the request, and no browser that has seen every event shows *)
(* a card that was decided.                                                 *)
DecisionSound ==
  Tool!TypeOK /\ Tool!JobIsApproved /\ Tool!OneReservation /\ Tool!NoStaleCard

(* No failure of BEGIN, COMMIT, ROLLBACK or dispose leaves a transaction    *)
(* open, a command that is told that it failed has no effect and one that   *)
(* is told that it succeeded has one, and every statement enforces foreign  *)
(* keys.                                                                    *)
ConnectionSound ==
  /\ Database!TypeOK
  /\ Database!NoOrphanTransaction
  /\ Database!AppliedIfTold
  /\ Database!KeysEnforced

(* A conversation is answered one turn at a time until a Wiki adopts it at  *)
(* rest, what is called complete is stored, and no active turn or research  *)
(* is left without somebody to end it, but by a crash.                      *)
ConversationSound == Talk!ConversationSound

(* A run that ended stays as it ended, whatever was still under way, and no *)
(* answer arrives after the end of its run or after the adoption.           *)
EndedIsFinal == Talk!EndedIsFinal

(* Every call with a key returns; an approval ends with its job or is       *)
(* undone unless the server crashes; every command of a connection is       *)
(* answered and its dispose ends; a turn and a research end unless the      *)
(* server crashes.                                                          *)
EveryRequestEnds ==
  /\ EveryCallReturns
  /\ part = "steadyTool" => SteadyTool!ApprovalSettles
  /\ part = "database" => Database!EveryCallAnswered /\ Database!DisposeEnds
  /\ Talk!EveryRunEnds
=============================================================================
