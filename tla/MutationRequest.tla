--------------------------- MODULE MutationRequest ---------------------------
(***************************************************************************)
(* One key of the MutationRequest table and the calls that present it: the *)
(* two ways lib/platform/idempotency.ts makes an operation idempotent.     *)
(*                                                                         *)
(* withIdempotency claims the key, runs the action and records its result  *)
(* in three separate steps; a call may crash between any two of them, and  *)
(* the record may fail after the action took effect.  The agent tool that  *)
(* proposes document changes uses it.  withAtomicIdempotency does all of   *)
(* it in one transaction; jobs, Room messages and workspaces use it.       *)
(*                                                                         *)
(* A result is named by the call whose action produced it.  No code        *)
(* deletes a row, so the branches for a row that disappeared are left out. *)
(* An error of the write that records a failure leaves what Crash leaves.  *)
(***************************************************************************)
EXTENDS Naturals

CONSTANTS
  Calls,       \* calls that present this key
  NoCall,      \* no result
  Payloads,    \* request hashes
  NoPayload,   \* hash of no request
  Attempts,    \* rounds of a call, 3 in the code
  Inherited    \* statuses of rows that an earlier, non-atomic version left

ASSUME CallsAssumption == NoCall \notin Calls /\ NoPayload \notin Payloads
ASSUME AttemptsAssumption == Attempts \in Nat \ {0}
ASSUME InheritedAssumption == Inherited \subseteq {"in_progress", "failed"}

VARIABLES
  row,       \* the MutationRequest row of the key
  call,      \* what each call knows
  effects    \* calls whose action took effect

vars == <<row, call, effects>>

Statuses == {"none", "in_progress", "completed", "failed"}
Owning == {"act", "acted", "failing"}
Ended == {"replied", "conflict", "refused", "error", "gone"}
Phases == {"idle", "create", "read", "wait", "reclaim"} \cup Owning \cup Ended

Rows == [status: Statuses, hash: Payloads \cup {NoPayload},
         response: Calls \cup {NoCall}]
CallStates == [phase: Phases, hash: Payloads \cup {NoPayload},
               attempt: 0 .. Attempts, reply: Calls \cup {NoCall}]

NoRow == [status |-> "none", hash |-> NoPayload, response |-> NoCall]
IdleCall == [phase |-> "idle", hash |-> NoPayload, attempt |-> 0,
             reply |-> NoCall]

Init ==
  /\ \/ row = NoRow
     \/ \E s \in Inherited, h \in Payloads :
          row = [NoRow EXCEPT !.status = s, !.hash = h]
  /\ call = [c \in Calls |-> IdleCall]
  /\ effects = {}

-----------------------------------------------------------------------------
(* What both ways share.                                                   *)

Goto(c, phase) == call' = [call EXCEPT ![c].phase = phase]

Reply(c, result) ==
  call' = [call EXCEPT ![c].phase = "replied", ![c].reply = result]

(* The next round of the loop, or IdempotencyInProgressError.              *)
NextRound(c) ==
  IF call[c].attempt < Attempts
    THEN call' = [call EXCEPT ![c].phase = "create", ![c].attempt = @ + 1]
    ELSE Goto(c, "refused")

Claimed(hash) == [NoRow EXCEPT !.status = "in_progress", !.hash = hash]
Reclaimed == [row EXCEPT !.status = "in_progress", !.response = NoCall]
Completed(c) == [row EXCEPT !.status = "completed", !.response = c]
Failed == [row EXCEPT !.status = "failed", !.response = NoCall]

Start(c, h) ==
  /\ call[c].phase = "idle"
  /\ call' = [call EXCEPT ![c].phase = "create", ![c].hash = h,
                          ![c].attempt = 1]
  /\ UNCHANGED <<row, effects>>

Crash(c) ==
  /\ call[c].phase \notin Ended \cup {"idle"}
  /\ Goto(c, "gone")
  /\ UNCHANGED <<row, effects>>

(* 30 seconds of polling found the row in progress.                        *)
WaitTimeout(c) ==
  /\ call[c].phase = "wait"
  /\ NextRound(c)
  /\ UNCHANGED <<row, effects>>

-----------------------------------------------------------------------------
(* withIdempotency                                                         *)

Insert(c) ==
  /\ call[c].phase = "create"
  /\ IF row.status = "none"
       THEN row' = Claimed(call[c].hash) /\ Goto(c, "act")
       ELSE row' = row /\ Goto(c, "read")
  /\ UNCHANGED effects

(* The row as getMutationRequest returns it, at once or while polling.     *)
Read(c) ==
  /\ \/ call[c].phase = "read"
     \/ call[c].phase = "wait" /\ row.status # "in_progress"
  /\ \/ row.hash # call[c].hash /\ Goto(c, "conflict")
     \/ /\ row.hash = call[c].hash
        /\ \/ row.status = "completed" /\ Reply(c, row.response)
           \/ row.status = "failed" /\ Goto(c, "reclaim")
           \/ row.status = "in_progress" /\ Goto(c, "wait")
  /\ UNCHANGED <<row, effects>>

(* Mutant of Reclaim: the status read before is trusted.                   *)
ReclaimUnchecked(c) ==
  /\ call[c].phase = "reclaim"
  /\ row' = Reclaimed
  /\ Goto(c, "act")
  /\ UNCHANGED effects

(* reclaimFailedMutation compares the status it swaps.                     *)
Reclaim(c) ==
  /\ call[c].phase = "reclaim"
  /\ IF row.status = "failed"
       THEN row' = Reclaimed /\ Goto(c, "act")
       ELSE row' = row /\ NextRound(c)
  /\ UNCHANGED effects

Act(c) ==
  /\ call[c].phase = "act"
  /\ \/ effects' = effects \cup {c} /\ Goto(c, "acted")
     \/ effects' = effects /\ Goto(c, "failing")
  /\ UNCHANGED row

Record(c) ==
  /\ call[c].phase = "acted"
  /\ \/ row' = Completed(c) /\ Reply(c, c)
     \/ row' = row /\ Goto(c, "failing")
  /\ UNCHANGED effects

RecordFailure(c) ==
  /\ call[c].phase = "failing"
  /\ row' = Failed
  /\ Goto(c, "error")
  /\ UNCHANGED effects

OwnedSteps(c) == \/ Insert(c) \/ Read(c) \/ WaitTimeout(c) \/ Reclaim(c)
                 \/ Act(c) \/ Record(c) \/ RecordFailure(c)

OwnedNext == \E c \in Calls : \/ \E h \in Payloads : Start(c, h)
                              \/ OwnedSteps(c)
                              \/ Crash(c)

OwnedSpec == Init /\ [][OwnedNext]_vars /\ \A c \in Calls : WF_vars(OwnedSteps(c))

-----------------------------------------------------------------------------
(* withAtomicIdempotency: the claim, the action and the record commit or   *)
(* roll back together.                                                     *)

(* Mutant of Execute: the action writes outside the transaction.           *)
ExecuteOutside(c, claimed) ==
  /\ effects' = effects \cup {c}
  /\ \/ /\ row' = [claimed EXCEPT !.status = "completed", !.response = c]
        /\ Reply(c, c)
     \/ /\ UNCHANGED row
        /\ Goto(c, "error")

Execute(c, claimed) ==
  \/ /\ row' = [claimed EXCEPT !.status = "completed", !.response = c]
     /\ effects' = effects \cup {c}
     /\ Reply(c, c)
  \/ /\ UNCHANGED <<row, effects>>
     /\ Goto(c, "error")

Resolve(c) ==
  /\ call[c].phase = "create"
  /\ \/ row.status = "none" /\ Execute(c, Claimed(call[c].hash))
     \/ /\ row.status # "none" /\ row.hash # call[c].hash
        /\ Goto(c, "conflict")
        /\ UNCHANGED <<row, effects>>
     \/ /\ row.hash = call[c].hash
        /\ \/ row.status = "failed" /\ Execute(c, Reclaimed)
           \/ /\ \/ row.status = "completed" /\ Reply(c, row.response)
                 \/ row.status = "in_progress" /\ Goto(c, "wait")
              /\ UNCHANGED <<row, effects>>

AtomicSteps(c) == Resolve(c) \/ WaitTimeout(c)

AtomicNext == \E c \in Calls : \/ \E h \in Payloads : Start(c, h)
                               \/ AtomicSteps(c)
                               \/ Crash(c)

AtomicSpec == Init /\ [][AtomicNext]_vars /\ \A c \in Calls : WF_vars(AtomicSteps(c))
-----------------------------------------------------------------------------
(* Properties                                                              *)

(* The row and the calls keep their shape.                                 *)
TypeOK == row \in Rows /\ call \in [Calls -> CallStates] /\ effects \subseteq Calls

(* Two calls never run the action of a key at the same time, whatever      *)
(* failed or crashed before: withIdempotency hands the key to one of them. *)
OneOwner ==
  \A c \in Calls : call[c].phase \in Owning =>
    /\ row.status = "in_progress"
    /\ row.hash = call[c].hash
    /\ \A d \in Calls \ {c} : call[d].phase \notin Owning

(* Every call of a key that got an answer got the same one, the recorded   *)
(* one, of an action that took effect, for the payload it sent.            *)
RepliesAgree ==
  \A c \in Calls : call[c].phase = "replied" =>
    /\ row.status = "completed"
    /\ row.hash = call[c].hash
    /\ call[c].reply = row.response
    /\ call[c].reply \in effects

(* A key is sound: all of the above.                                       *)
KeySound == TypeOK /\ OneOwner /\ RepliesAgree

(* A call returns whatever the others do: waiting and retrying are bounded.*)
EveryCallReturns ==
  \A c \in Calls : call[c].phase = "create" ~> call[c].phase \in Ended

(* The action of a key took effect if and only if it is recorded, and then *)
(* once: what withAtomicIdempotency adds.                                  *)
EffectIsRecord ==
  effects = IF row.status = "completed" THEN {row.response} ELSE {}

(* What the test of the proposal tool expects of a replay and the separate *)
(* steps of withIdempotency do not give when the record fails.             *)
OneEffect == \A c, d \in effects : c = d
=============================================================================
