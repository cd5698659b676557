---------------------------- MODULE RequestsProofs ----------------------------
(***************************************************************************)
(* The requests of MCRequests, for every number of calls, payloads,        *)
(* owners, turns, connections, callers, ... : an idempotency key in both   *)
(* disciplines (KeyInv), the confirmation of a tool request (ToolInv), the *)
(* conversation with the assistant and its research (TalkInv), and the     *)
(* connections to the database (DatabaseInv).  For each part: the          *)
(* inductive invariant, that its steps keep it, and the theorem about the  *)
(* behaviours of all parts together.                                       *)
(***************************************************************************)
EXTENDS MCRequests, Sequences, FiniteSetTheorems, TLAPS

allVars == <<part, vars, toolVars, connectionVars, talkVars>>

-----------------------------------------------------------------------------
(* What a step does to the calls.                                          *)

(* A call moves to a phase and the others stay where they are.             *)
Moves(c, phase) ==
  /\ call'[c].phase = phase
  /\ call'[c].hash = call[c].hash
  /\ \A d \in Calls : d # c => call'[d] = call[d]

CallsTyped == call \in [Calls -> CallStates]

LEMMA GotoMoves ==
  ASSUME CallsTyped, NEW c \in Calls, NEW phase \in Phases, Goto(c, phase)
  PROVE  CallsTyped' /\ Moves(c, phase)
BY DEF CallsTyped, CallStates, Goto, Moves

LEMMA ReplyMoves ==
  ASSUME CallsTyped, NEW c \in Calls, NEW result \in Calls \cup {NoCall},
         Reply(c, result)
  PROVE  CallsTyped' /\ Moves(c, "replied") /\ call'[c].reply = result
<1>1. "replied" \in Phases
  BY DEF Phases, Ended
<1> QED
  BY <1>1 DEF CallsTyped, CallStates, Reply, Moves

LEMMA NextRoundMoves ==
  ASSUME CallsTyped, NEW c \in Calls, NextRound(c)
  PROVE  CallsTyped' /\ \E phase \in {"create", "refused"} : Moves(c, phase)
<1>1. "create" \in Phases /\ "refused" \in Phases
  BY DEF Phases, Ended
<1>2. CASE call[c].attempt < Attempts
  <2>1. call' = [call EXCEPT ![c] = [call[c] EXCEPT !.phase = "create",
                                       !.attempt = call[c].attempt + 1]]
    BY <1>2 DEF NextRound
  <2>2. call[c].attempt + 1 \in 0 .. Attempts
    BY <1>2, AttemptsAssumption DEF CallsTyped, CallStates
  <2> QED
    BY <1>1, <2>1, <2>2 DEF CallsTyped, CallStates, Moves
<1>3. CASE ~(call[c].attempt < Attempts)
  BY <1>1, <1>3, GotoMoves DEF NextRound
<1> QED
  BY <1>2, <1>3

LEMMA StartMoves ==
  ASSUME CallsTyped, NEW c \in Calls, NEW h \in Payloads, Start(c, h)
  PROVE  /\ CallsTyped'
         /\ call[c].phase = "idle" /\ call'[c].phase = "create"
         /\ \A d \in Calls : d # c => call'[d] = call[d]
<1>1. "create" \in Phases /\ 1 \in 0 .. Attempts
  BY AttemptsAssumption DEF Phases
<1> QED
  BY <1>1 DEF CallsTyped, CallStates, Start

-----------------------------------------------------------------------------
(* withIdempotency.  A call that means to reclaim has read a row of its    *)
(* own payload, and a row keeps its payload.                               *)

ReclaimsOwn ==
  \A c \in Calls : call[c].phase = "reclaim" =>
    row.status # "none" /\ row.hash = call[c].hash

(* What a call records, and what the row holds, took effect.               *)
RecordsEffect ==
  /\ row.status = "completed" => row.response \in effects
  /\ \A c \in Calls : call[c].phase = "acted" => c \in effects

OwnedInv == KeySound /\ ReclaimsOwn /\ RecordsEffect

(* A call gives up, waits or starts over: it owns nothing then.            *)
LEMMA OwnedAside ==
  ASSUME OwnedInv, CallsTyped', NEW c \in Calls, UNCHANGED <<row, effects>>,
         call'[c].phase \notin Owning \cup {"replied", "reclaim"},
         \A d \in Calls : d # c => call'[d] = call[d]
  PROVE  OwnedInv'
<1>1. OneOwner'
  BY DEF OwnedInv, KeySound, OneOwner
<1>2. RepliesAgree' /\ ReclaimsOwn'
  BY DEF OwnedInv, KeySound, RepliesAgree, ReclaimsOwn
<1>3. RecordsEffect'
  BY DEF OwnedInv, RecordsEffect, Owning
<1> QED
  BY <1>1, <1>2, <1>3 DEF OwnedInv, KeySound, TypeOK, CallsTyped

(* A call becomes the owner of a row that was in nobody's hands.           *)
LEMMA OwnedTaken ==
  ASSUME OwnedInv, CallsTyped', NEW c \in Calls, Moves(c, "act"),
         row.status \in {"none", "failed"},
         row' \in Rows, row'.status = "in_progress",
         row'.hash = call[c].hash,
         row.status # "none" => row'.hash = row.hash,
         effects' = effects
  PROVE  OwnedInv'
<1>1. \A d \in Calls : call[d].phase \notin Owning /\ call[d].phase # "replied"
  BY DEF OwnedInv, KeySound, OneOwner, RepliesAgree
<1>2. OneOwner'
  BY <1>1 DEF OneOwner, Moves
<1>3. RepliesAgree'
  BY <1>1 DEF RepliesAgree, Moves
<1>4. ReclaimsOwn'
  BY DEF OwnedInv, ReclaimsOwn, Moves
<1>5. RecordsEffect'
  BY <1>1 DEF RecordsEffect, Moves, Owning
<1> QED
  BY <1>2, <1>3, <1>4, <1>5 DEF OwnedInv, KeySound, TypeOK, CallsTyped

(* The owner goes on, and only adds itself to the effects.                 *)
LEMMA OwnedOn ==
  ASSUME OwnedInv, CallsTyped', NEW c \in Calls, call[c].phase \in Owning,
         NEW phase \in Owning, Moves(c, phase), row' = row,
         effects \subseteq effects', effects' \subseteq Calls,
         phase = "acted" => c \in effects'
  PROVE  OwnedInv'
<1>1. OneOwner'
  BY DEF OwnedInv, KeySound, OneOwner, Moves
<1>2. RepliesAgree'
  BY DEF OwnedInv, KeySound, RepliesAgree, Moves, Owning
<1>3. ReclaimsOwn'
  BY DEF OwnedInv, ReclaimsOwn, Moves, Owning
<1>4. RecordsEffect'
  BY DEF OwnedInv, RecordsEffect, Moves
<1> QED
  BY <1>1, <1>2, <1>3, <1>4 DEF OwnedInv, KeySound, TypeOK, CallsTyped

(* The owner records an end: its result, or that it failed.                *)
LEMMA OwnedEnd ==
  ASSUME OwnedInv, CallsTyped', NEW c \in Calls, call[c].phase \in Owning,
         NEW phase \in {"replied", "error"}, Moves(c, phase),
         row' \in Rows, row'.hash = row.hash, effects' = effects,
         row'.status = (IF phase = "replied" THEN "completed" ELSE "failed"),
         phase = "replied" => /\ row'.response = call'[c].reply
                              /\ call'[c].reply \in effects
  PROVE  OwnedInv'
<1>1. /\ row.status = "in_progress" /\ row.hash = call[c].hash
      /\ \A d \in Calls \ {c} : call[d].phase \notin Owning
  BY DEF OwnedInv, KeySound, OneOwner
<1>2. \A d \in Calls : call[d].phase # "replied"
  BY <1>1 DEF OwnedInv, KeySound, RepliesAgree
<1>3. OneOwner'
  BY <1>1 DEF OneOwner, Moves, Owning
<1>4. RepliesAgree'
  BY <1>1, <1>2 DEF RepliesAgree, Moves
<1>5. ReclaimsOwn'
  BY <1>1 DEF OwnedInv, ReclaimsOwn, Moves
<1>6. row'.status = "completed" => phase = "replied"
  OBVIOUS
<1>7. RecordsEffect'
  BY <1>6 DEF OwnedInv, RecordsEffect, Moves
<1> QED
  BY <1>3, <1>4, <1>5, <1>7 DEF OwnedInv, KeySound, TypeOK, CallsTyped

LEMMA OwnedStep ==
  ASSUME OwnedInv, [OwnedNext]_vars PROVE OwnedInv'
<1>1. /\ CallsTyped /\ row \in Rows /\ effects \subseteq Calls
  BY DEF OwnedInv, KeySound, TypeOK, CallsTyped
<1>2. /\ {"act", "acted", "failing"} \subseteq Phases
      /\ {"replied", "conflict", "refused", "error", "gone"} \subseteq Phases
      /\ {"create", "read", "wait", "reclaim"} \subseteq Phases
  BY DEF Phases, Owning, Ended
<1>3. ASSUME NEW c \in Calls, NEW h \in Payloads, Start(c, h)
      PROVE  OwnedInv'
  <2>1. UNCHANGED <<row, effects>>
    BY <1>3 DEF Start
  <2> QED
    BY <1>1, <1>3, <2>1, StartMoves, OwnedAside DEF Owning
<1>4. ASSUME NEW c \in Calls, Crash(c) PROVE OwnedInv'
  <2>1. CallsTyped' /\ Moves(c, "gone") /\ UNCHANGED <<row, effects>>
    BY <1>1, <1>2, <1>4, GotoMoves DEF Crash
  <2> QED
    BY <2>1, OwnedAside DEF Moves, Owning
<1>5. ASSUME NEW c \in Calls, WaitTimeout(c) PROVE OwnedInv'
  <2>1. UNCHANGED <<row, effects>> /\ NextRound(c)
    BY <1>5 DEF WaitTimeout
  <2>2. CallsTyped'
    BY <1>1, <2>1, NextRoundMoves
  <2>3. PICK phase \in {"create", "refused"} : Moves(c, phase)
    BY <1>1, <2>1, NextRoundMoves
  <2> QED
    BY <2>1, <2>2, <2>3, OwnedAside DEF Moves, Owning
<1>6. ASSUME NEW c \in Calls, Insert(c) PROVE OwnedInv'
  <2>1. CASE row.status = "none"
    <3>1. row' = Claimed(call[c].hash) /\ Goto(c, "act") /\ effects' = effects
      BY <1>6, <2>1 DEF Insert
    <3>2. CallsTyped' /\ Moves(c, "act")
      BY <1>1, <1>2, <3>1, GotoMoves
    <3>3. /\ row' \in Rows /\ row'.status = "in_progress"
          /\ row'.hash = call[c].hash
      BY <1>1, <3>1 DEF Claimed, NoRow, Rows, Statuses, CallsTyped, CallStates
    <3> QED
      BY <2>1, <3>1, <3>2, <3>3, OwnedTaken
  <2>2. CASE row.status # "none"
    <3>1. row' = row /\ Goto(c, "read") /\ effects' = effects
      BY <1>6, <2>2 DEF Insert
    <3>2. CallsTyped' /\ Moves(c, "read")
      BY <1>1, <1>2, <3>1, GotoMoves
    <3> QED
      BY <3>1, <3>2, OwnedAside DEF Moves, Owning
  <2> QED
    BY <2>1, <2>2
<1>7. ASSUME NEW c \in Calls, Read(c) PROVE OwnedInv'
  <2>1. UNCHANGED <<row, effects>> /\ call[c].phase \in {"read", "wait"}
    BY <1>7 DEF Read
  <2>2. CASE Goto(c, "conflict") \/ Goto(c, "wait")
    <3>1. CallsTyped' /\ (Moves(c, "conflict") \/ Moves(c, "wait"))
      BY <1>1, <1>2, <2>2, GotoMoves
    <3> QED
      BY <2>1, <3>1, OwnedAside DEF Moves, Owning
  <2>3. CASE row.hash = call[c].hash /\ row.status = "completed"
             /\ Reply(c, row.response)
    <3>1. row.response \in Calls \cup {NoCall}
      BY <1>1 DEF Rows
    <3>2. /\ CallsTyped' /\ Moves(c, "replied")
          /\ call'[c].reply = row.response
      BY <1>1, <2>3, <3>1, ReplyMoves
    <3>3. OneOwner'
      BY <2>1, <3>2 DEF OwnedInv, KeySound, OneOwner, Moves, Owning
    <3>4. row.response \in effects
      BY <2>3 DEF OwnedInv, RecordsEffect
    <3>5. RepliesAgree'
      BY <2>1, <2>3, <3>2, <3>4 DEF OwnedInv, KeySound, RepliesAgree, Moves
    <3>6. ReclaimsOwn'
      BY <2>1, <3>2 DEF OwnedInv, ReclaimsOwn, Moves
    <3>7. RecordsEffect'
      BY <2>1, <3>2 DEF OwnedInv, RecordsEffect, Moves
    <3> QED
      BY <2>1, <3>2, <3>3, <3>5, <3>6, <3>7
      DEF OwnedInv, KeySound, TypeOK, CallsTyped
  <2>4. CASE row.hash = call[c].hash /\ row.status = "failed"
             /\ Goto(c, "reclaim")
    <3>1. CallsTyped' /\ Moves(c, "reclaim")
      BY <1>1, <1>2, <2>4, GotoMoves
    <3>2. OneOwner'
      BY <2>1, <3>1 DEF OwnedInv, KeySound, OneOwner, Moves, Owning
    <3>3. RepliesAgree'
      BY <2>1, <3>1 DEF OwnedInv, KeySound, RepliesAgree, Moves
    <3>4. ReclaimsOwn'
      BY <2>1, <2>4, <3>1 DEF OwnedInv, ReclaimsOwn, Moves
    <3>5. RecordsEffect'
      BY <2>1, <3>1 DEF OwnedInv, RecordsEffect, Moves
    <3> QED
      BY <2>1, <3>1, <3>2, <3>3, <3>4, <3>5
      DEF OwnedInv, KeySound, TypeOK, CallsTyped
  <2> QED
    BY <1>7, <2>2, <2>3, <2>4 DEF Read
<1>8. ASSUME NEW c \in Calls, Reclaim(c) PROVE OwnedInv'
  <2>1. call[c].phase = "reclaim" /\ effects' = effects
    BY <1>8 DEF Reclaim
  <2>2. row.hash = call[c].hash
    BY <2>1 DEF OwnedInv, ReclaimsOwn
  <2>3. CASE row.status = "failed"
    <3>1. row' = Reclaimed /\ Goto(c, "act")
      BY <1>8, <2>3 DEF Reclaim
    <3>2. CallsTyped' /\ Moves(c, "act")
      BY <1>1, <1>2, <3>1, GotoMoves
    <3>3. /\ row' \in Rows /\ row'.status = "in_progress"
          /\ row'.hash = row.hash
      BY <1>1, <3>1 DEF Reclaimed, Rows, Statuses
    <3> QED
      BY <2>1, <2>2, <2>3, <3>2, <3>3, OwnedTaken
  <2>4. CASE row.status # "failed"
    <3>1. row' = row /\ NextRound(c)
      BY <1>8, <2>4 DEF Reclaim
    <3>2. CallsTyped'
      BY <1>1, <3>1, NextRoundMoves
    <3>3. PICK phase \in {"create", "refused"} : Moves(c, phase)
      BY <1>1, <3>1, NextRoundMoves
    <3> QED
      BY <2>1, <3>1, <3>2, <3>3, OwnedAside DEF Moves, Owning
  <2> QED
    BY <2>3, <2>4
<1>9. ASSUME NEW c \in Calls, Act(c) PROVE OwnedInv'
  <2>1. call[c].phase \in Owning /\ row' = row
    BY <1>9 DEF Act, Owning
  <2>2. CASE effects' = effects \cup {c} /\ Goto(c, "acted")
    <3>1. CallsTyped' /\ Moves(c, "acted") /\ "acted" \in Owning
      BY <1>1, <1>2, <2>2, GotoMoves DEF Owning
    <3> QED
      BY <1>1, <2>1, <2>2, <3>1, OwnedOn
  <2>3. CASE effects' = effects /\ Goto(c, "failing")
    <3>1. CallsTyped' /\ Moves(c, "failing") /\ "failing" \in Owning
      BY <1>1, <1>2, <2>3, GotoMoves DEF Owning
    <3> QED
      BY <1>1, <2>1, <2>3, <3>1, OwnedOn
  <2> QED
    BY <1>9, <2>2, <2>3 DEF Act
<1>10. ASSUME NEW c \in Calls, Record(c) PROVE OwnedInv'
  <2>1. call[c].phase = "acted" /\ call[c].phase \in Owning /\ effects' = effects
    BY <1>10 DEF Record, Owning
  <2>2. CASE row' = Completed(c) /\ Reply(c, c)
    <3>1. CallsTyped' /\ Moves(c, "replied") /\ call'[c].reply = c
      BY <1>1, <2>2, ReplyMoves
    <3>2. /\ row' \in Rows /\ row'.hash = row.hash
          /\ row'.status = "completed" /\ row'.response = c
      BY <1>1, <2>2 DEF Completed, Rows, Statuses
    <3>3. c \in effects
      BY <2>1 DEF OwnedInv, RecordsEffect
    <3> QED
      BY <2>1, <3>1, <3>2, <3>3, OwnedEnd
  <2>3. CASE row' = row /\ Goto(c, "failing")
    <3>1. CallsTyped' /\ Moves(c, "failing") /\ "failing" \in Owning
      BY <1>1, <1>2, <2>3, GotoMoves DEF Owning
    <3> QED
      BY <1>1, <2>1, <2>3, <3>1, OwnedOn
  <2> QED
    BY <1>10, <2>2, <2>3 DEF Record
<1>11. ASSUME NEW c \in Calls, RecordFailure(c) PROVE OwnedInv'
  <2>1. /\ call[c].phase \in Owning /\ row' = Failed /\ Goto(c, "error")
        /\ effects' = effects
    BY <1>11 DEF RecordFailure, Owning
  <2>2. CallsTyped' /\ Moves(c, "error")
    BY <1>1, <1>2, <2>1, GotoMoves
  <2>3. row' \in Rows /\ row'.hash = row.hash /\ row'.status = "failed"
    BY <1>1, <2>1 DEF Failed, Rows, Statuses
  <2> QED
    BY <2>1, <2>2, <2>3, OwnedEnd
<1>12. ASSUME UNCHANGED vars PROVE OwnedInv'
  BY <1>12 DEF vars, OwnedInv, KeySound, TypeOK, OneOwner, RepliesAgree,
     ReclaimsOwn, RecordsEffect
<1> QED
  BY <1>3, <1>4, <1>5, <1>6, <1>7, <1>8, <1>9, <1>10, <1>11, <1>12
  DEF OwnedNext, OwnedSteps

LEMMA InitTyped == Init => TypeOK /\ \A c \in Calls : call[c].phase = "idle"
<1> SUFFICES ASSUME Init PROVE TypeOK /\ \A c \in Calls : call[c].phase = "idle"
  OBVIOUS
<1>1. call \in [Calls -> CallStates] /\ \A c \in Calls : call[c].phase = "idle"
  <2>1. IdleCall \in CallStates /\ IdleCall.phase = "idle"
    BY AttemptsAssumption DEF IdleCall, CallStates, Phases
  <2> QED
    BY <2>1 DEF Init
<1>2. row \in Rows
  <2>1. NoRow \in Rows
    BY DEF NoRow, Rows, Statuses
  <2>2. ASSUME NEW s \in Inherited, NEW h \in Payloads,
               row = [NoRow EXCEPT !.status = s, !.hash = h]
        PROVE  row \in Rows
    BY <2>2, InheritedAssumption DEF NoRow, Rows, Statuses
  <2> QED
    BY <2>1, <2>2, Zenon DEF Init
<1> QED
  BY <1>1, <1>2 DEF Init, TypeOK

LEMMA InitUnrecorded == Init => row.status # "completed" /\ effects = {}
<1>1. ASSUME NEW s \in Inherited, NEW h \in Payloads,
             row = [NoRow EXCEPT !.status = s, !.hash = h]
      PROVE  row.status # "completed"
  BY <1>1, InheritedAssumption DEF NoRow
<1>2. row = NoRow => row.status # "completed"
  BY DEF NoRow
<1> QED
  BY <1>1, <1>2, Zenon DEF Init

(* withIdempotency: two calls never own a key at the same time, and every  *)
(* call that got an answer got the recorded one, of an action that took    *)
(* effect for the payload it sent.                                         *)
THEOREM OwnedKey == OwnedSpec => []KeySound
<1>1. Init => OwnedInv
  BY InitTyped, InitUnrecorded
  DEF OwnedInv, KeySound, OneOwner, RepliesAgree, ReclaimsOwn, RecordsEffect,
      Owning
<1>2. OwnedInv /\ [OwnedNext]_vars => OwnedInv'
  BY OwnedStep
<1>3. OwnedInv => KeySound
  BY DEF OwnedInv
<1> QED
  BY <1>1, <1>2, <1>3, PTL DEF OwnedSpec

-----------------------------------------------------------------------------
(* withAtomicIdempotency.  Nobody owns anything between two transactions.  *)

AtomicInv ==
  /\ TypeOK /\ RepliesAgree /\ EffectIsRecord
  /\ \A c \in Calls : call[c].phase \notin Owning

(* A call moves without touching the key, and without an answer.           *)
LEMMA AtomicAside ==
  ASSUME AtomicInv, CallsTyped', NEW c \in Calls, UNCHANGED <<row, effects>>,
         call'[c].phase \notin Owning \cup {"replied"},
         \A d \in Calls : d # c => call'[d] = call[d]
  PROVE  AtomicInv'
<1>1. RepliesAgree'
  BY DEF AtomicInv, RepliesAgree
<1>2. \A d \in Calls : call'[d].phase \notin Owning
  BY DEF AtomicInv
<1> QED
  BY <1>1, <1>2 DEF AtomicInv, TypeOK, CallsTyped, EffectIsRecord

(* The transaction of an unrecorded key: it commits or rolls back.         *)
LEMMA AtomicExecute ==
  ASSUME AtomicInv, NEW c \in Calls, NEW claimed \in Rows,
         row.status # "completed", claimed.hash = call[c].hash,
         Execute(c, claimed)
  PROVE  AtomicInv'
<1>1. CallsTyped /\ "error" \in Phases
  BY DEF AtomicInv, TypeOK, CallsTyped, Phases, Ended
<1>2. effects = {} /\ \A d \in Calls : call[d].phase # "replied"
  BY DEF AtomicInv, EffectIsRecord, RepliesAgree
<1>3. CASE /\ row' = [claimed EXCEPT !.status = "completed", !.response = c]
           /\ effects' = effects \cup {c}
           /\ Reply(c, c)
  <2>1. CallsTyped' /\ Moves(c, "replied") /\ call'[c].reply = c
    BY <1>1, <1>3, ReplyMoves
  <2>2. /\ row' \in Rows /\ row'.status = "completed" /\ row'.response = c
        /\ row'.hash = call[c].hash
    BY <1>3 DEF Rows, Statuses
  <2>3. effects' = {c}
    BY <1>2, <1>3
  <2>4. RepliesAgree'
    BY <1>2, <2>1, <2>2, <2>3 DEF RepliesAgree, Moves
  <2>5. EffectIsRecord'
    BY <2>2, <2>3 DEF EffectIsRecord
  <2>6. \A d \in Calls : call'[d].phase \notin Owning
    BY <2>1 DEF AtomicInv, Moves, Owning
  <2> QED
    BY <2>1, <2>2, <2>3, <2>4, <2>5, <2>6 DEF AtomicInv, TypeOK, CallsTyped
<1>4. CASE UNCHANGED <<row, effects>> /\ Goto(c, "error")
  <2>1. CallsTyped' /\ Moves(c, "error")
    BY <1>1, <1>4, GotoMoves
  <2> QED
    BY <1>4, <2>1, AtomicAside DEF Moves, Owning
<1> QED
  BY <1>3, <1>4 DEF Execute

LEMMA AtomicStep ==
  ASSUME AtomicInv, [AtomicNext]_vars PROVE AtomicInv'
<1>1. CallsTyped /\ row \in Rows
  BY DEF AtomicInv, TypeOK, CallsTyped
<1>2. {"conflict", "wait", "gone"} \subseteq Phases
  BY DEF Phases, Ended
<1>3. ASSUME NEW c \in Calls, NEW h \in Payloads, Start(c, h)
      PROVE  AtomicInv'
  <2>1. UNCHANGED <<row, effects>>
    BY <1>3 DEF Start
  <2> QED
    BY <1>1, <1>3, <2>1, StartMoves, AtomicAside DEF Owning
<1>4. ASSUME NEW c \in Calls, Crash(c) PROVE AtomicInv'
  <2>1. CallsTyped' /\ Moves(c, "gone") /\ UNCHANGED <<row, effects>>
    BY <1>1, <1>2, <1>4, GotoMoves DEF Crash
  <2> QED
    BY <2>1, AtomicAside DEF Moves, Owning
<1>5. ASSUME NEW c \in Calls, WaitTimeout(c) PROVE AtomicInv'
  <2>1. UNCHANGED <<row, effects>> /\ NextRound(c)
    BY <1>5 DEF WaitTimeout
  <2>2. CallsTyped'
    BY <1>1, <2>1, NextRoundMoves
  <2>3. PICK phase \in {"create", "refused"} : Moves(c, phase)
    BY <1>1, <2>1, NextRoundMoves
  <2> QED
    BY <2>1, <2>2, <2>3, AtomicAside DEF Moves, Owning
<1>6. ASSUME NEW c \in Calls, Resolve(c) PROVE AtomicInv'
  <2>1. CASE row.status = "none" /\ Execute(c, Claimed(call[c].hash))
    <3>1. /\ Claimed(call[c].hash) \in Rows
          /\ Claimed(call[c].hash).hash = call[c].hash
      BY <1>1 DEF Claimed, NoRow, Rows, Statuses, CallsTyped, CallStates
    <3> QED
      BY <2>1, <3>1, AtomicExecute
  <2>2. CASE Goto(c, "conflict") /\ UNCHANGED <<row, effects>>
    <3>1. CallsTyped' /\ Moves(c, "conflict")
      BY <1>1, <1>2, <2>2, GotoMoves
    <3> QED
      BY <2>2, <3>1, AtomicAside DEF Moves, Owning
  <2>3. CASE row.hash = call[c].hash /\ row.status = "failed"
             /\ Execute(c, Reclaimed)
    <3>1. Reclaimed \in Rows /\ Reclaimed.hash = call[c].hash
      BY <1>1, <2>3 DEF Reclaimed, Rows, Statuses
    <3> QED
      BY <2>3, <3>1, AtomicExecute
  <2>4. CASE /\ row.hash = call[c].hash /\ row.status = "completed"
             /\ Reply(c, row.response) /\ UNCHANGED <<row, effects>>
    <3>1. row.response \in Calls \cup {NoCall} /\ row.response \in effects
      BY <1>1, <2>4 DEF Rows, AtomicInv, EffectIsRecord
    <3>2. /\ CallsTyped' /\ Moves(c, "replied")
          /\ call'[c].reply = row.response
      BY <1>1, <2>4, <3>1, ReplyMoves
    <3>3. RepliesAgree'
      BY <2>4, <3>1, <3>2 DEF AtomicInv, RepliesAgree, Moves
    <3>4. \A d \in Calls : call'[d].phase \notin Owning
      BY <3>2 DEF AtomicInv, Moves, Owning
    <3> QED
      BY <2>4, <3>2, <3>3, <3>4
      DEF AtomicInv, TypeOK, CallsTyped, EffectIsRecord
  <2>5. CASE Goto(c, "wait") /\ UNCHANGED <<row, effects>>
    <3>1. CallsTyped' /\ Moves(c, "wait")
      BY <1>1, <1>2, <2>5, GotoMoves
    <3> QED
      BY <2>5, <3>1, AtomicAside DEF Moves, Owning
  <2> QED
    BY <1>6, <2>1, <2>2, <2>3, <2>4, <2>5 DEF Resolve
<1>7. ASSUME UNCHANGED vars PROVE AtomicInv'
  BY <1>7 DEF vars, AtomicInv, TypeOK, RepliesAgree, EffectIsRecord
<1> QED
  BY <1>3, <1>4, <1>5, <1>6, <1>7 DEF AtomicNext, AtomicSteps

LEMMA AtomicAlways == AtomicSpec => []AtomicInv
<1>1. Init => AtomicInv
  BY InitTyped, InitUnrecorded
  DEF AtomicInv, RepliesAgree, EffectIsRecord, Owning
<1>2. AtomicInv /\ [AtomicNext]_vars => AtomicInv'
  BY AtomicStep
<1> QED
  BY <1>1, <1>2, PTL DEF AtomicSpec

(* withAtomicIdempotency: every call that got an answer got the recorded   *)
(* one.                                                                    *)
THEOREM AtomicKey == AtomicSpec => []KeySound
<1>1. AtomicInv => KeySound
  BY DEF AtomicInv, KeySound, OneOwner
<1> QED
  BY <1>1, AtomicAlways, PTL

(* withAtomicIdempotency: the action of a key took effect exactly when it  *)
(* is recorded, and then once, however the calls fail or crash.            *)
THEOREM AtomicExact == AtomicSpec => []EffectIsRecord
<1>1. AtomicInv => EffectIsRecord
  BY DEF AtomicInv
<1> QED
  BY <1>1, AtomicAlways, PTL

(* The keys of MCRequests: the discipline is the one of the part.          *)
KeyInv ==
  /\ part = "owned" => OwnedInv
  /\ part = "atomic" => AtomicInv
  /\ part \notin {"owned", "atomic"} => KeySound

LEMMA KeyKept == KeyInv /\ UNCHANGED <<part, vars>> => KeyInv'
BY DEF KeyInv, vars, OwnedInv, AtomicInv, KeySound, TypeOK, OneOwner,
       RepliesAgree, ReclaimsOwn, RecordsEffect, EffectIsRecord

LEMMA KeyAlways == RequestsSpec => []KeyInv
<1>1. RequestsInit => KeyInv
  BY InitTyped, InitUnrecorded
  DEF RequestsInit, KeyInv, OwnedInv, AtomicInv, KeySound, OneOwner,
      RepliesAgree, ReclaimsOwn, RecordsEffect, EffectIsRecord, Owning
<1>2. KeyInv /\ [RequestsNext]_allVars => KeyInv'
  <2> SUFFICES ASSUME KeyInv, [RequestsNext]_allVars PROVE KeyInv'
    OBVIOUS
  <2>1. ASSUME part = "owned", OwnedNext, part' = part PROVE KeyInv'
    BY <2>1, OwnedStep DEF KeyInv
  <2>2. ASSUME part = "atomic", AtomicNext, part' = part PROVE KeyInv'
    BY <2>2, AtomicStep DEF KeyInv
  <2>3. CASE UNCHANGED <<part, vars>>
    BY <2>3, KeyKept
  <2> QED
    BY <2>1, <2>2, <2>3 DEF RequestsNext, allVars
<1> QED
  BY <1>1, <1>2, PTL DEF RequestsSpec, allVars

(* The same two facts, of the requests together: the calls of a key agree, *)
(* whatever its discipline ...                                             *)
THEOREM KeysSound == RequestsSpec => []KeySound
<1>1. KeyInv => KeySound
  BY DEF KeyInv, OwnedInv, AtomicInv, KeySound, OneOwner
<1> QED
  BY <1>1, KeyAlways, PTL

(* ... and the atomic one is exact.                                        *)
THEOREM AtomicKeysExact == RequestsSpec => []AtomicIsExact
<1>1. KeyInv => AtomicIsExact
  BY DEF KeyInv, AtomicInv, AtomicIsExact
<1> QED
  BY <1>1, KeyAlways, PTL


-----------------------------------------------------------------------------
(* The confirmation of a tool request                                      *)

(* The bound leaves a revision for what must still happen to the request.  *)
RevisionLeft ==
  /\ request.status = "pending" => request.revision <= MaxRevision
  /\ request.status = "approved" => request.revision + 1 <= MaxRevision

SeenIsPast == \A o \in Owners : card[o].seen <= Len(feed)

ToolInv ==
  /\ Tool!TypeOK /\ Tool!JobIsApproved /\ Tool!OneReservation
  /\ Tool!NoStaleCard
  /\ RevisionLeft /\ SeenIsPast

LEMMA ToolAssumption == /\ NoOwner \notin Owners
                        /\ MaxRevision \in Nat \ {0}
  BY RequestsAssumption DEF Tool!ConfirmationAssumption

LEMMA ToolInit == Tool!Init => ToolInv
BY ToolAssumption
   DEF Tool!Init, ToolInv, Tool!TypeOK, Tool!JobIsApproved, Tool!OneReservation,
       Tool!NoStaleCard, RevisionLeft, SeenIsPast, Tool!Requests, Tool!Statuses,
       Tool!Decisions, Tool!Holding, Tool!Cards, Tool!Reserved

LEMMA MovedRow ==
  ASSUME request \in Tool!Requests, NEW status \in Tool!Statuses,
         NEW next, next = Tool!Moved(status)
  PROVE  /\ next \in Tool!Requests /\ next.status = status
         /\ next.revision = request.revision + 1
         /\ next.holder = request.holder /\ next.late = request.late
<1> DEFINE mid == [request EXCEPT !.status = status]
<1>1. /\ mid \in Tool!Requests /\ mid.status = status
      /\ mid.revision = request.revision /\ mid.holder = request.holder
      /\ mid.late = request.late
  BY DEF Tool!Requests
<1>2. next = [mid EXCEPT !.revision = request.revision + 1]
  BY DEF Tool!Moved
<1> HIDE DEF mid
<1> QED
  BY <1>1, <1>2 DEF Tool!Requests

LEMMA HeldRow ==
  ASSUME NEW next \in Tool!Requests, NEW holder \in Owners \cup {NoOwner}
  PROVE  LET held == [next EXCEPT !.holder = holder]
         IN /\ held \in Tool!Requests /\ held.holder = holder
            /\ held.status = next.status /\ held.revision = next.revision
            /\ held.late = next.late
BY DEF Tool!Requests

LEMMA GotoPhase ==
  ASSUME decision \in [Owners -> Tool!Decisions], NEW o \in Owners,
         NEW phase \in {"idle", "reload"} \cup Tool!Holding, Tool!Goto(o, phase)
  PROVE  /\ decision' \in [Owners -> Tool!Decisions]
         /\ decision'[o].phase = phase
         /\ decision'[o].revision = decision[o].revision
         /\ \A other \in Owners \ {o} : decision'[other] = decision[other]
BY DEF Tool!Goto, Tool!Decisions

LEMMA NobodyHolds ==
  ASSUME Tool!OneReservation, request.status # "approved"
  PROVE  \A o \in Owners : decision[o].phase \notin Tool!Holding
BY DEF Tool!OneReservation, Tool!Reserved

LEMMA NobodyElseHolds ==
  ASSUME Tool!OneReservation, NEW o \in Owners,
         decision[o].phase \in Tool!Holding \/ Tool!Reserved(o)
  PROVE  \A other \in Owners \ {o} : decision[other].phase \notin Tool!Holding
BY DEF Tool!OneReservation, Tool!Reserved

(* The calls of the others hold nothing, or what they hold stays.          *)
LEMMA OthersKept ==
  ASSUME Tool!OneReservation, NEW o \in Owners,
         \A other \in Owners \ {o} : decision'[other] = decision[other],
         \/ UNCHANGED <<jobs, request>>
         \/ \A other \in Owners \ {o} : decision[other].phase \notin Tool!Holding,
         decision'[o].phase \in Tool!Holding =>
           Tool!Reserved(o)' /\ (decision'[o].phase = "created" <=> jobs' = 1)
  PROVE  Tool!OneReservation'
<1> SUFFICES ASSUME NEW p \in Owners, decision'[p].phase \in Tool!Holding
             PROVE  /\ Tool!Reserved(p)'
                    /\ decision'[p].phase = "created" <=> jobs' = 1
  BY DEF Tool!OneReservation
<1>1. CASE p = o
  BY <1>1
<1>2. CASE p # o
  <2>1. decision'[p] = decision[p] /\ UNCHANGED <<jobs, request>>
    BY <1>2
  <2> QED
    BY <2>1 DEF Tool!OneReservation, Tool!Reserved
<1> QED
  BY <1>1, <1>2

(* A card that stays, or is hidden, is as good as before: an event was     *)
(* appended that its browser has not seen, or the request is what it was,  *)
(* or was not pending.                                                     *)
LEMMA CardsKept ==
  ASSUME Tool!NoStaleCard, SeenIsPast, Len(feed) \in Nat,
         card \in [Owners -> Tool!Cards], card' \in [Owners -> Tool!Cards],
         \A o \in Owners : /\ card'[o].seen = card[o].seen
                           /\ card'[o].shown \in {0, card[o].shown},
         \/ Len(feed') = Len(feed) + 1
         \/ UNCHANGED <<feed, request>>
         \/ feed' = feed /\ request.status # "pending"
         \/ feed' = feed /\ request'.status = request.status
                         /\ request'.revision = request.revision
  PROVE  Tool!NoStaleCard' /\ SeenIsPast'
BY DEF Tool!NoStaleCard, SeenIsPast, Tool!Cards

LEMMA ToolStep == ToolInv /\ Tool!Next => ToolInv'
<1> SUFFICES ASSUME ToolInv, Tool!Next PROVE ToolInv'
  OBVIOUS
<1>0. /\ request \in Tool!Requests /\ request.revision <= MaxRevision + 1
      /\ request.status \in Tool!Statuses /\ request.revision \in Nat
      /\ jobs \in {0, 1} /\ feed \in Seq(Tool!Statuses \cup {"requested"})
      /\ Len(feed) \in Nat /\ decision \in [Owners -> Tool!Decisions]
      /\ card \in [Owners -> Tool!Cards]
      /\ Tool!JobIsApproved /\ Tool!OneReservation /\ Tool!NoStaleCard
      /\ RevisionLeft /\ SeenIsPast /\ MaxRevision \in Nat \ {0}
  BY ToolAssumption DEF ToolInv, Tool!TypeOK, Tool!Requests
<1> USE <1>0
<1>1. CASE Tool!RequestConfirmation
  <2> DEFINE mid == [request EXCEPT !.status = "pending"]
  <2>0. mid \in Tool!Requests /\ mid.status = "pending"
    BY DEF Tool!Requests, Tool!Statuses
  <2>1. /\ request.status = "none" /\ UNCHANGED <<jobs, decision, card>>
        /\ request' = [mid EXCEPT !.revision = 1]
        /\ feed' = Append(feed, "requested")
    BY <1>1 DEF Tool!RequestConfirmation
  <2> HIDE DEF mid
  <2>2. /\ request' \in Tool!Requests /\ request'.status = "pending"
        /\ request'.revision = 1
    BY <2>0, <2>1 DEF Tool!Requests
  <2>3. Tool!TypeOK'
    BY <2>1, <2>2 DEF Tool!TypeOK
  <2>4. Tool!JobIsApproved' /\ RevisionLeft'
    BY <2>1, <2>2 DEF Tool!JobIsApproved, RevisionLeft
  <2>5. Tool!OneReservation'
    BY <2>1, NobodyHolds DEF Tool!OneReservation
  <2>6. Tool!NoStaleCard' /\ SeenIsPast'
    BY <2>1, CardsKept DEF Tool!Cards
  <2> QED
    BY <2>3, <2>4, <2>5, <2>6 DEF ToolInv
<1>2. CASE Tool!PassDeadline
  <2>1. /\ request' = [request EXCEPT !.late = TRUE]
        /\ UNCHANGED <<jobs, feed, decision, card>>
    BY <1>2 DEF Tool!PassDeadline
  <2>2. /\ request' \in Tool!Requests /\ request'.status = request.status
        /\ request'.revision = request.revision
        /\ request'.holder = request.holder
    BY <2>1 DEF Tool!Requests
  <2>3. Tool!TypeOK'
    BY <2>1, <2>2 DEF Tool!TypeOK
  <2>4. Tool!JobIsApproved' /\ RevisionLeft'
    BY <2>1, <2>2 DEF Tool!JobIsApproved, RevisionLeft
  <2>5. Tool!OneReservation'
    BY <2>1, <2>2 DEF Tool!OneReservation, Tool!Reserved
  <2>6. Tool!NoStaleCard' /\ SeenIsPast'
    BY <2>1, <2>2, CardsKept DEF Tool!Cards
  <2> QED
    BY <2>3, <2>4, <2>5, <2>6 DEF ToolInv
<1>3. ASSUME NEW status \in Tool!Statuses, Tool!Transition(Tool!Moved(status))
      PROVE  /\ request' \in Tool!Requests /\ request'.status = status
             /\ request'.revision = request.revision + 1
             /\ feed' = Append(feed, status)
  BY <1>3, MovedRow DEF Tool!Transition
<1>4. ASSUME NEW status \in Tool!Statuses, NEW holder \in Owners \cup {NoOwner},
             request' = [Tool!Moved(status) EXCEPT !.holder = holder]
      PROVE  /\ request' \in Tool!Requests /\ request'.status = status
             /\ request'.revision = request.revision + 1
             /\ request'.holder = holder
  <2> DEFINE moved == Tool!Moved(status)
  <2>1. /\ moved \in Tool!Requests /\ moved.status = status
        /\ moved.revision = request.revision + 1
    BY MovedRow
  <2> HIDE DEF moved
  <2> QED
    BY <1>4, <2>1, HeldRow DEF moved
<1>5. ASSUME request.status = "pending", NEW status \in {"expired", "rejected"},
             Tool!Transition(Tool!Moved(status)), UNCHANGED jobs,
             decision' \in [Owners -> Tool!Decisions],
             \A o \in Owners : decision'[o].phase \in Tool!Holding =>
                                 decision[o].phase \in Tool!Holding
      PROVE  Tool!JobIsApproved' /\ RevisionLeft' /\ Tool!OneReservation'
             /\ (card' \in [Owners -> Tool!Cards] => Tool!TypeOK')
  <2>1. /\ request' \in Tool!Requests /\ request'.status = status
        /\ request'.revision = request.revision + 1
        /\ feed' = Append(feed, status)
    BY <1>3, <1>5 DEF Tool!Statuses
  <2>2. \A o \in Owners : decision'[o].phase \notin Tool!Holding
    BY <1>5, NobodyHolds
  <2>3. Tool!OneReservation'
    BY <2>2 DEF Tool!OneReservation
  <2>4. card' \in [Owners -> Tool!Cards] => Tool!TypeOK'
    BY <1>5, <2>1 DEF Tool!TypeOK, RevisionLeft, Tool!Statuses
  <2> QED
    BY <1>5, <2>1, <2>3, <2>4 DEF Tool!JobIsApproved, RevisionLeft
<1>6. ASSUME NEW o \in Owners, Tool!Refuse(o)
      PROVE  ToolInv'
  <2>1. /\ decision' \in [Owners -> Tool!Decisions]
        /\ decision'[o].phase = "reload"
        /\ \A other \in Owners \ {o} : decision'[other] = decision[other]
        /\ UNCHANGED <<jobs, card>>
    BY <1>6, GotoPhase DEF Tool!Refuse
  <2>2. decision'[o].phase \notin Tool!Holding
    BY <2>1 DEF Tool!Holding
  <2>3. CASE request.late /\ Tool!Decidable(o)
    <3>1. request.status = "pending" /\ Tool!Transition(Tool!Moved("expired"))
      BY <1>6, <2>3 DEF Tool!Refuse, Tool!Decidable
    <3>2. Len(feed') = Len(feed) + 1
      BY <1>3, <3>1 DEF Tool!Statuses
    <3>3. Tool!NoStaleCard' /\ SeenIsPast'
      BY <2>1, <3>2, CardsKept
    <3> QED
      BY <1>5, <2>1, <2>2, <3>1, <3>3 DEF ToolInv
  <2>4. CASE ~(request.late /\ Tool!Decidable(o))
    <3>1. UNCHANGED <<request, feed>>
      BY <1>6, <2>4 DEF Tool!Refuse, Tool!NoTransition
    <3>2. Tool!TypeOK'
      BY <2>1, <3>1 DEF Tool!TypeOK
    <3>3. Tool!JobIsApproved' /\ RevisionLeft'
      BY <2>1, <3>1 DEF Tool!JobIsApproved, RevisionLeft
    <3>4. Tool!OneReservation'
      BY <2>1, <2>2, <3>1, OthersKept
    <3>5. Tool!NoStaleCard' /\ SeenIsPast'
      BY <2>1, <3>1, CardsKept
    <3> QED
      BY <3>2, <3>3, <3>4, <3>5 DEF ToolInv
  <2> QED
    BY <2>3, <2>4
<1>7. ASSUME NEW o \in Owners, Tool!Reserve(o), request.revision + 2 <= MaxRevision
      PROVE  ToolInv'
  <2>1. /\ request' \in Tool!Requests /\ request'.status = "approved"
        /\ request'.revision = request.revision + 1 /\ request'.holder = o
    BY <1>4, <1>7 DEF Tool!Reserve, Tool!Transition, Tool!Statuses
  <2>2. /\ feed' = Append(feed, request'.status) /\ request.status = "pending"
        /\ UNCHANGED <<jobs, card>>
        /\ decision' = [decision EXCEPT ![o] = [phase |-> "reserved",
                                                revision |-> request.revision + 1]]
    BY <1>7, <2>1 DEF Tool!Reserve, Tool!Transition, Tool!Decidable
  <2>3. /\ decision' \in [Owners -> Tool!Decisions]
        /\ decision'[o].phase = "reserved"
        /\ decision'[o].revision = request.revision + 1
        /\ \A other \in Owners \ {o} : decision'[other] = decision[other]
    BY <2>2 DEF Tool!Decisions, Tool!Holding
  <2>4. Tool!TypeOK'
    BY <2>1, <2>2, <2>3 DEF Tool!TypeOK, Tool!Statuses, RevisionLeft
  <2>5. Tool!JobIsApproved' /\ RevisionLeft'
    BY <1>7, <2>1, <2>2 DEF Tool!JobIsApproved, RevisionLeft
  <2>6. Tool!OneReservation'
    BY <2>1, <2>2, <2>3, NobodyHolds, OthersKept
    DEF Tool!Reserved, Tool!JobIsApproved
  <2>7. Tool!NoStaleCard' /\ SeenIsPast'
    BY <2>2, CardsKept
  <2> QED
    BY <2>4, <2>5, <2>6, <2>7 DEF ToolInv
<1>8. ASSUME NEW o \in Owners, Tool!Reject(o)
      PROVE  ToolInv'
  <2>1. CASE /\ Tool!Decidable(o) /\ Tool!Transition(Tool!Moved("rejected"))
             /\ Tool!HideCard(o) /\ UNCHANGED <<jobs, decision>>
    <3>1. request.status = "pending" /\ Len(feed') = Len(feed) + 1
      BY <1>3, <2>1 DEF Tool!Decidable, Tool!Statuses
    <3>2. /\ card' \in [Owners -> Tool!Cards]
          /\ \A p \in Owners : /\ card'[p].seen = card[p].seen
                               /\ card'[p].shown \in {0, card[p].shown}
      BY <2>1 DEF Tool!HideCard, Tool!Cards
    <3>3. Tool!NoStaleCard' /\ SeenIsPast'
      BY <3>1, <3>2, CardsKept
    <3> QED
      BY <1>5, <2>1, <3>1, <3>2, <3>3 DEF ToolInv
  <2> QED
    BY <1>6, <1>8, <2>1 DEF Tool!Reject
<1>9. ASSUME NEW o \in Owners, Tool!CreateJob(o)
      PROVE  ToolInv'
  <2>1. decision[o].phase = "reserved" /\ UNCHANGED <<request, feed, card>>
    BY <1>9 DEF Tool!CreateJob
  <2>2. PICK phase \in {"created", "releasing"} :
          /\ Tool!Goto(o, phase)
          /\ jobs' = IF phase = "created" THEN 1 ELSE jobs
    BY <1>9 DEF Tool!CreateJob
  <2>3. /\ decision' \in [Owners -> Tool!Decisions]
        /\ decision'[o].phase = phase
        /\ decision'[o].revision = decision[o].revision
        /\ \A other \in Owners \ {o} : decision'[other] = decision[other]
    BY <2>2, GotoPhase DEF Tool!Holding
  <2>4. Tool!Reserved(o) /\ jobs = 0
    BY <2>1 DEF Tool!OneReservation, Tool!Holding
  <2>5. \A other \in Owners \ {o} : decision[other].phase \notin Tool!Holding
    BY <2>4, NobodyElseHolds
  <2>6. Tool!TypeOK'
    BY <2>1, <2>2, <2>3 DEF Tool!TypeOK
  <2>7. Tool!JobIsApproved' /\ RevisionLeft'
    BY <2>1, <2>2, <2>4 DEF Tool!JobIsApproved, RevisionLeft, Tool!Reserved
  <2>8. Tool!OneReservation'
    BY <2>1, <2>2, <2>3, <2>4, <2>5, OthersKept DEF Tool!Reserved
  <2>9. Tool!NoStaleCard' /\ SeenIsPast'
    BY <2>1, CardsKept
  <2> QED
    BY <2>6, <2>7, <2>8, <2>9 DEF ToolInv
<1>10. ASSUME NEW o \in Owners, Tool!Release(o)
       PROVE  ToolInv'
  <2>1. /\ decision[o].phase = "releasing" /\ Tool!Reserved(o) /\ UNCHANGED jobs
        /\ Tool!Goto(o, "reload")
        /\ request' = [Tool!Moved("pending") EXCEPT !.holder = NoOwner]
    BY <1>10 DEF Tool!Release, Tool!Transition
  <2>2. /\ request' \in Tool!Requests /\ request'.status = "pending"
        /\ request'.revision = request.revision + 1
    BY <1>4, <2>1 DEF Tool!Statuses
  <2>3. /\ decision' \in [Owners -> Tool!Decisions]
        /\ decision'[o].phase = "reload"
        /\ \A other \in Owners \ {o} : decision'[other] = decision[other]
    BY <2>1, GotoPhase
  <2>4. request.status = "approved" /\ jobs = 0
    BY <2>1 DEF Tool!OneReservation, Tool!Holding, Tool!Reserved
  <2>5. /\ UNCHANGED feed
        /\ card' \in [Owners -> Tool!Cards]
        /\ \A p \in Owners : /\ card'[p].seen = card[p].seen
                             /\ card'[p].shown \in {0, card[p].shown}
    BY <1>10, <2>2 DEF Tool!Release, Tool!Transition, Tool!HideCard, Tool!Cards
  <2>6. Tool!TypeOK'
    BY <2>1, <2>2, <2>3, <2>4, <2>5 DEF Tool!TypeOK, RevisionLeft, Tool!Statuses
  <2>7. Tool!JobIsApproved' /\ RevisionLeft'
    BY <2>1, <2>2, <2>4 DEF Tool!JobIsApproved, RevisionLeft
  <2>8. Tool!OneReservation'
    BY <2>1, <2>3, NobodyElseHolds, OthersKept DEF Tool!Holding
  <2>9. Tool!NoStaleCard' /\ SeenIsPast'
    BY <2>4, <2>5, CardsKept
  <2> QED
    BY <2>6, <2>7, <2>8, <2>9 DEF ToolInv
<1>11. ASSUME NEW o \in Owners, Tool!MarkExecuted(o)
       PROVE  ToolInv'
  <2>1. /\ decision[o].phase = "created" /\ Tool!Reserved(o) /\ UNCHANGED jobs
        /\ Tool!Goto(o, "idle")
        /\ request' = [Tool!Moved("executed") EXCEPT !.holder = NoOwner]
    BY <1>11 DEF Tool!MarkExecuted, Tool!Transition
  <2>2. /\ request' \in Tool!Requests /\ request'.status = "executed"
        /\ request'.revision = request.revision + 1
    BY <1>4, <2>1 DEF Tool!Statuses
  <2>3. /\ decision' \in [Owners -> Tool!Decisions]
        /\ decision'[o].phase = "idle"
        /\ \A other \in Owners \ {o} : decision'[other] = decision[other]
    BY <2>1, GotoPhase
  <2>4. request.status = "approved" /\ jobs = 1
    BY <2>1 DEF Tool!OneReservation, Tool!Holding, Tool!Reserved
  <2>5. /\ feed' = Append(feed, "executed")
        /\ card' \in [Owners -> Tool!Cards]
        /\ \A p \in Owners : /\ card'[p].seen = card[p].seen
                             /\ card'[p].shown \in {0, card[p].shown}
    BY <1>11, <2>2
    DEF Tool!MarkExecuted, Tool!Transition, Tool!HideCard, Tool!Cards
  <2>6. Tool!TypeOK'
    BY <2>1, <2>2, <2>3, <2>4, <2>5 DEF Tool!TypeOK, RevisionLeft, Tool!Statuses
  <2>7. Tool!JobIsApproved' /\ RevisionLeft'
    BY <2>1, <2>2, <2>4 DEF Tool!JobIsApproved, RevisionLeft
  <2>8. Tool!OneReservation'
    BY <2>1, <2>3, NobodyElseHolds, OthersKept DEF Tool!Holding
  <2>9. Tool!NoStaleCard' /\ SeenIsPast'
    BY <2>4, <2>5, CardsKept
  <2> QED
    BY <2>6, <2>7, <2>8, <2>9 DEF ToolInv
<1>12. ASSUME NEW o \in Owners, Tool!Load(o), UNCHANGED jobs,
              UNCHANGED decision \/ Tool!Goto(o, "idle")
       PROVE  ToolInv'
  <2> DEFINE late == request.status = "pending" /\ request.late
  <2>1. /\ decision' \in [Owners -> Tool!Decisions]
        /\ \A p \in Owners : decision'[p].phase \in Tool!Holding =>
                               decision'[p] = decision[p]
    <3>1. CASE Tool!Goto(o, "idle")
      BY <3>1, GotoPhase DEF Tool!Holding
    <3> QED
      BY <1>12, <3>1
  <2>2. CASE late
    <3> DEFINE moved == Tool!Moved("expired")
    <3>1. moved.status = "expired" /\ moved # request
      BY <2>2, MovedRow DEF Tool!Statuses
    <3>2. /\ Tool!Transition(moved)
          /\ card' = [card EXCEPT ![o] = [shown |-> 0, seen |-> Len(feed)]]
      BY <1>12, <2>2, <3>1 DEF Tool!Load
    <3>3. Len(feed') = Len(feed) + 1
      BY <1>3, <3>2 DEF Tool!Statuses
    <3>4. card' \in [Owners -> Tool!Cards]
      BY <3>2 DEF Tool!Cards
    <3>5. Tool!NoStaleCard' /\ SeenIsPast'
      BY <3>2, <3>3 DEF Tool!NoStaleCard, SeenIsPast, Tool!Cards
    <3> QED
      BY <1>5, <1>12, <2>1, <2>2, <3>2, <3>4, <3>5 DEF ToolInv
  <2>3. CASE ~late
    <3> DEFINE shown == IF request.status = "pending" THEN request.revision ELSE 0
    <3>1. /\ UNCHANGED <<request, feed>>
          /\ card' = [card EXCEPT ![o] = [shown |-> shown, seen |-> Len(feed)]]
      BY <1>12, <2>3 DEF Tool!Load, Tool!NoTransition
    <3>2. Tool!OneReservation'
      BY <1>12, <2>1, <3>1 DEF Tool!OneReservation, Tool!Reserved
    <3>3. Tool!NoStaleCard' /\ SeenIsPast' /\ card' \in [Owners -> Tool!Cards]
      BY <3>1 DEF Tool!NoStaleCard, SeenIsPast, Tool!Cards
    <3> QED
      BY <1>12, <2>1, <3>1, <3>2, <3>3
         DEF ToolInv, Tool!TypeOK, Tool!JobIsApproved, RevisionLeft
  <2> QED
    BY <2>2, <2>3
<1>13. ASSUME NEW o \in Owners, Tool!Crash(o)
       PROVE  ToolInv'
  <2>1. /\ decision' \in [Owners -> Tool!Decisions]
        /\ decision'[o].phase = "reload"
        /\ \A other \in Owners \ {o} : decision'[other] = decision[other]
        /\ UNCHANGED <<request, jobs, feed, card>>
    BY <1>13, GotoPhase DEF Tool!Crash
  <2>2. Tool!TypeOK'
    BY <2>1 DEF Tool!TypeOK
  <2>3. Tool!JobIsApproved' /\ RevisionLeft'
    BY <2>1 DEF Tool!JobIsApproved, RevisionLeft
  <2>4. Tool!OneReservation'
    BY <2>1, OthersKept DEF Tool!Holding
  <2>5. Tool!NoStaleCard' /\ SeenIsPast'
    BY <2>1, CardsKept
  <2> QED
    BY <2>2, <2>3, <2>4, <2>5 DEF ToolInv
<1> QED
  BY <1>1, <1>2, <1>6, <1>7, <1>8, <1>9, <1>10, <1>11, <1>12, <1>13
     DEF Tool!Next, Tool!Approve, Tool!Serve, Tool!Browse, Tool!LoadOnEvent,
         Tool!LoadOnError

LEMMA ToolKept == ToolInv /\ UNCHANGED toolVars => ToolInv'
BY DEF ToolInv, toolVars, Tool!TypeOK, Tool!JobIsApproved, Tool!OneReservation,
       Tool!NoStaleCard, Tool!Reserved, RevisionLeft, SeenIsPast

(* A server that does not crash does what one that may crash can do.       *)
LEMMA SteadyIsTool == SteadyTool!Next => Tool!Next
BY DEF SteadyTool!Next, SteadyTool!RequestConfirmation, SteadyTool!PassDeadline,
       SteadyTool!Approve, SteadyTool!Reject, SteadyTool!Serve, SteadyTool!Browse,
       SteadyTool!Crash, SteadyTool!Reserve, SteadyTool!Refuse,
       SteadyTool!CreateJob, SteadyTool!Release, SteadyTool!MarkExecuted,
       SteadyTool!LoadOnEvent, SteadyTool!LoadOnError, SteadyTool!Load,
       SteadyTool!HideCard, SteadyTool!Decidable, SteadyTool!Reserved,
       SteadyTool!Transition, SteadyTool!NoTransition, SteadyTool!Moved,
       SteadyTool!Goto,
       Tool!Next, Tool!RequestConfirmation, Tool!PassDeadline, Tool!Approve,
       Tool!Reject, Tool!Serve, Tool!Browse, Tool!Reserve, Tool!Refuse,
       Tool!CreateJob, Tool!Release, Tool!MarkExecuted, Tool!LoadOnEvent,
       Tool!LoadOnError, Tool!Load, Tool!HideCard, Tool!Decidable,
       Tool!Reserved, Tool!Transition, Tool!NoTransition, Tool!Moved, Tool!Goto


(* A tool call that was confirmed runs once, for an approval that stands.  *)
THEOREM Confirmation == RequestsSpec => []DecisionSound
<1>1. RequestsInit => ToolInv
  BY ToolInit DEF RequestsInit
<1>2. ToolInv /\ [RequestsNext]_allVars => ToolInv'
  BY ToolStep, ToolKept, SteadyIsTool DEF RequestsNext, allVars
<1>3. ToolInv => DecisionSound
  BY DEF ToolInv, DecisionSound
<1> QED
  BY <1>1, <1>2, <1>3, PTL DEF RequestsSpec, allVars

-----------------------------------------------------------------------------
(* The conversation and its runs                                           *)

(* What the place of a request says of its run.                            *)
RunAtStep(r) ==
  /\ step[r] \in {"idle", "refused", "approved"} => run[r] = "none"
  /\ step[r] \in {"opening", "streaming", "empty", "searching", "reporting",
                  "reported"} => run[r] \in Talk!Active
  /\ step[r] \in {"storing", "checked", "stored"} =>
       IF r \in Starts THEN run[r] = "completed" ELSE run[r] \in Talk!Active
  /\ step[r] = "failing" => run[r] # "none"
  /\ step[r] = "ended" => r \in Chats \/ run[r] \in Talk!Terminal
  /\ step[r] = "stored" /\ r \in Talk!Streams => r \in answers
  /\ step[r] = "reported" /\ r \in Starts => r \in reports

TalkInv == Talk!ConversationSound /\ \A r \in Talk!Runs : RunAtStep(r)

RunStatuses == {"none"} \cup Talk!Active \cup Talk!Terminal

TalkTyped ==
  /\ step \in [Talk!Requests -> Talk!Steps]
  /\ run \in [Talk!Runs -> RunStatuses]

LEMMA TalkInit == Talk!AssistantAssumption /\ Talk!Init => TalkInv
BY DEF Talk!AssistantAssumption, Talk!Init, TalkInv, Talk!ConversationSound,
   Talk!TypeOK, Talk!OneReply, Talk!AdoptedIsQuiet, Talk!CompletedIsStored,
   Talk!ActiveIsServed, Talk!TurnActive, RunAtStep, Talk!Steps, Talk!Active,
   Talk!Terminal, Talk!Runs, Talk!Streams, Talk!Requests

LEMMA TalkKept == TalkInv /\ UNCHANGED talkVars => TalkInv'
BY DEF talkVars, TalkInv, Talk!ConversationSound, Talk!TypeOK, Talk!OneReply,
   Talk!AdoptedIsQuiet, Talk!CompletedIsStored, Talk!ActiveIsServed,
   Talk!TurnActive, RunAtStep

(* A request goes to its next step and the others stay where they are.     *)
LEMMA TalkGoto ==
  ASSUME TalkTyped, NEW q \in Talk!Requests, NEW next \in Talk!Steps,
         Talk!Goto(q, next)
  PROVE  /\ step' \in [Talk!Requests -> Talk!Steps]
         /\ step'[q] = next
         /\ \A p \in Talk!Requests \ {q} : step'[p] = step[p]
BY DEF TalkTyped, Talk!Goto

(* updateAssistantRun keeps a run active or ended, and moves one run.      *)
LEMMA TalkUpdate ==
  ASSUME TalkTyped, NEW r \in Talk!Runs,
         NEW status \in {"running", "completed", "failed"},
         Talk!UpdateRun(r, status)
  PROVE  /\ run' \in [Talk!Runs -> RunStatuses]
         /\ \A s \in Talk!Runs \ {r} : run'[s] = run[s]
         /\ run[r] \in Talk!Active => run'[r] = status
         /\ run[r] \notin Talk!Active => run'[r] = run[r]
BY DEF TalkTyped, RunStatuses, Talk!UpdateRun, Talk!MayBecome,
   Talk!TransitionsFrom, Talk!Active, Talk!Terminal

(* A step of one run: what keeps the invariant, and what is final final.   *)
LEMMA TalkMoves ==
  ASSUME TalkInv, NEW r \in Talk!Runs, Talk!TypeOK',
         \A s \in Talk!Runs \ {r} : step'[s] = step[s] /\ run'[s] = run[s],
         RunAtStep(r)',
         run[r] \in Talk!Terminal => run'[r] = run[r],
         r \in Turns /\ run'[r] \in Talk!Active =>
           run[r] \in Talk!Active \/ (scope = "team" /\ ~Talk!TurnActive),
         run'[r] = "completed" =>
           r \in (IF r \in Starts THEN reports' ELSE answers'),
         run'[r] \in Talk!Active /\ r \in Turns \cup Starts =>
           step'[r] \notin {"idle", "ended", "refused"},
         scope' = scope, answers \subseteq answers', reports \subseteq reports',
         answers' \ answers \subseteq {r},
         r \in Talk!Streams /\ r \in answers' \ answers =>
           run[r] \in Talk!Active
  PROVE  TalkInv' /\ Talk!StaysEnded
<1>1. Talk!OneReply'
  BY DEF TalkInv, Talk!ConversationSound, Talk!OneReply, Talk!TurnActive,
     Talk!Runs, Talk!Streams
<1>2. Talk!AdoptedIsQuiet'
  BY DEF TalkInv, Talk!ConversationSound, Talk!AdoptedIsQuiet, Talk!TurnActive,
     Talk!Runs, Talk!Streams
<1>3. Talk!CompletedIsStored'
  BY DEF TalkInv, Talk!ConversationSound, Talk!CompletedIsStored
<1>4. Talk!ActiveIsServed'
  BY DEF TalkInv, Talk!ConversationSound, Talk!ActiveIsServed, Talk!Runs,
     Talk!Streams
<1>5. \A s \in Talk!Runs : RunAtStep(s)'
  BY DEF TalkInv, RunAtStep
<1>6. Talk!StaysEnded
  <2>1. r \in Turns /\ run[r] \in Talk!Active => scope = "team"
    BY DEF TalkInv, Talk!ConversationSound, Talk!AdoptedIsQuiet,
       Talk!TurnActive, Talk!TypeOK
  <2> QED
    BY <2>1 DEF Talk!StaysEnded, Talk!Runs, Talk!Streams
<1> QED
  BY <1>1, <1>2, <1>3, <1>4, <1>5, <1>6 DEF TalkInv, Talk!ConversationSound

(* A step of a request that makes no run.                                  *)
LEMMA TalkAside ==
  ASSUME TalkInv, Talk!TypeOK', UNCHANGED <<run, answers, reports>>,
         \A r \in Talk!Runs : step'[r] = step[r],
         scope' = scope \/ ~Talk!TurnActive
  PROVE  TalkInv' /\ Talk!StaysEnded
BY DEF TalkInv, Talk!ConversationSound, Talk!OneReply, Talk!AdoptedIsQuiet,
   Talk!CompletedIsStored, Talk!ActiveIsServed, Talk!TurnActive, RunAtStep,
   Talk!StaysEnded, Talk!Runs, Talk!Streams

(* A request goes on, and its run stays: in a status that the next step    *)
(* may have.                                                               *)
LEMMA TalkPasses ==
  ASSUME TalkInv, NEW r \in Talk!Runs, NEW next \in Talk!Steps,
         Talk!Goto(r, next), UNCHANGED <<scope, run, crashes>>,
         plan' \in {plan, "approved"},
         firstText' \in [Talk!Streams -> {"none", "read", "settled"}],
         answers' = answers \/ (answers' = answers \cup {r} /\
                                (r \in Talk!Streams => run[r] \in Talk!Active)),
         reports' = reports \/ (r \in Starts /\ reports' = reports \cup {r}),
         run[r] \in Talk!Active /\ r \in Turns \cup Starts =>
           next \notin {"idle", "ended", "refused"},
         next \in {"idle", "refused", "approved"} => run[r] = "none",
         next \in {"opening", "streaming", "empty", "searching", "reporting",
                   "reported"} => run[r] \in Talk!Active,
         next \in {"storing", "checked", "stored"} =>
           IF r \in Starts THEN run[r] = "completed"
                           ELSE run[r] \in Talk!Active,
         next = "failing" => run[r] # "none",
         next = "ended" => r \in Chats \/ run[r] \in Talk!Terminal,
         next = "stored" => r \in answers',
         next = "reported" /\ r \in Starts => r \in reports'
  PROVE  TalkInv' /\ Talk!StaysEnded
<1>1. TalkTyped /\ Talk!TypeOK /\ r \in Talk!Requests
  BY DEF TalkInv, Talk!ConversationSound, Talk!TypeOK, TalkTyped, RunStatuses,
     Talk!Requests
<1>2. /\ step' \in [Talk!Requests -> Talk!Steps] /\ step'[r] = next
      /\ \A q \in Talk!Requests \ {r} : step'[q] = step[q]
  BY <1>1, TalkGoto
<1>3. Talk!TypeOK'
  BY <1>1, <1>2 DEF Talk!TypeOK
<1>4. RunAtStep(r)'
  BY <1>2 DEF RunAtStep
<1>5. \A s \in Talk!Runs \ {r} : step'[s] = step[s]
  BY <1>2 DEF Talk!Requests
<1>6. run[r] = "completed" =>
        r \in (IF r \in Starts THEN reports' ELSE answers')
  BY DEF TalkInv, Talk!ConversationSound, Talk!CompletedIsStored
<1> QED
  BY <1>2, <1>3, <1>4, <1>5, <1>6, TalkMoves

(* A request updates its run and goes on.                                  *)
LEMMA TalkUpdates ==
  ASSUME TalkInv, NEW r \in Talk!Runs, NEW next \in Talk!Steps,
         NEW status \in {"running", "completed", "failed"},
         Talk!UpdateRun(r, status),
         step' \in [Talk!Requests -> Talk!Steps], step'[r] = next,
         \A q \in Talk!Requests \ {r} : step'[q] = step[q],
         UNCHANGED <<scope, answers, reports, plan, crashes>>,
         firstText' \in [Talk!Streams -> {"none", "read", "settled"}],
         \/ next = step[r] /\ status = "running" /\ r \in Talk!Streams
         \/ next = "reporting" /\ status = "running" /\ step[r] = "searching"
         \/ next = "failing" /\ status = "failed" /\ run[r] # "none"
         \/ next = "ended" /\ status = "failed" /\ run[r] # "none"
         \/ next = "ended" /\ status = "completed" /\ step[r] = "stored"
         \/ /\ next = "storing" /\ status = "completed" /\ step[r] = "reported"
            /\ r \in Starts
  PROVE  TalkInv' /\ Talk!StaysEnded
<1>1. TalkTyped /\ Talk!TypeOK /\ RunAtStep(r) /\ Talk!ActiveIsServed
      /\ Talk!CompletedIsStored
  BY DEF TalkInv, Talk!ConversationSound, Talk!TypeOK, TalkTyped, RunStatuses
<1>2. /\ run' \in [Talk!Runs -> RunStatuses]
      /\ \A s \in Talk!Runs \ {r} : run'[s] = run[s]
      /\ run[r] \in Talk!Active => run'[r] = status
      /\ run[r] \notin Talk!Active => run'[r] = run[r]
  BY <1>1, TalkUpdate
<1>3. Talk!TypeOK'
  BY <1>1, <1>2 DEF Talk!TypeOK, RunStatuses
<1>4. RunAtStep(r)'
  BY <1>1, <1>2 DEF RunAtStep, Talk!Active, Talk!Terminal, TalkTyped,
     RunStatuses, Talk!Streams
<1>5. \A s \in Talk!Runs \ {r} : step'[s] = step[s] /\ run'[s] = run[s]
  BY <1>2 DEF Talk!Requests
<1>6. run'[r] = "completed" =>
        r \in (IF r \in Starts THEN reports' ELSE answers')
  BY <1>1, <1>2 DEF RunAtStep, Talk!CompletedIsStored, Talk!Runs, Talk!Active
<1>7. run'[r] \in Talk!Active => status = "running" /\ run[r] \in Talk!Active
  BY <1>2 DEF Talk!Active
<1>8. run'[r] \in Talk!Active /\ r \in Turns \cup Starts =>
        step'[r] \notin {"idle", "ended", "refused"}
  BY <1>1, <1>7 DEF Talk!ActiveIsServed
<1>9. run[r] \in Talk!Terminal => run'[r] = run[r]
  BY <1>2 DEF Talk!Active, Talk!Terminal
<1> QED
  BY <1>3, <1>4, <1>5, <1>6, <1>7, <1>8, <1>9, TalkMoves

(* The steps of a request that has begun.                                  *)
LEMMA TalkServes ==
  ASSUME TalkInv, Talk!AssistantAssumption, NEW r \in Talk!Runs, Talk!Serve(r)
  PROVE  TalkInv' /\ Talk!StaysEnded
<1>1. /\ TalkTyped /\ Talk!TypeOK /\ RunAtStep(r) /\ r \in Talk!Requests
      /\ firstText \in [Talk!Streams -> {"none", "read", "settled"}]
  BY DEF TalkInv, Talk!ConversationSound, Talk!TypeOK, TalkTyped, RunStatuses,
     Talk!Requests
<1>2. /\ Turns \cap Chats = {} /\ Talk!Streams \cap Starts = {}
      /\ Turns \subseteq Talk!Streams
      /\ r \in Talk!Streams \/ r \in Starts
      /\ r \in Talk!Streams => r \in Turns \/ r \in Chats
  BY DEF Talk!AssistantAssumption, Talk!Runs, Talk!Streams
<1>3. \A x \in {"opening", "streaming", "empty", "storing", "checked", "stored",
                "failing", "ended", "refused", "searching", "reporting",
                "reported"} : x \in Talk!Steps
  BY DEF Talk!Steps
<1>4. ASSUME r \in Talk!Streams, Talk!OpenStream(r)
      PROVE  TalkInv' /\ Talk!StaysEnded
  BY <1>1, <1>3, <1>4, TalkPasses DEF Talk!OpenStream, RunAtStep
<1>5. ASSUME r \in Talk!Streams, Talk!OpenFails(r)
      PROVE  TalkInv' /\ Talk!StaysEnded
  <2>1. run[r] \in Talk!Active
    BY <1>1, <1>5 DEF Talk!OpenFails, RunAtStep
  <2>2. CASE r \in Turns
    BY <1>1, <1>2, <1>3, <1>5, <2>1, <2>2, TalkPasses
    DEF Talk!OpenFails, Talk!Active
  <2>3. CASE r \notin Turns
    BY <1>1, <1>2, <1>3, <1>5, <2>1, <2>3, TalkPasses
    DEF Talk!OpenFails, Talk!Active
  <2> QED
    BY <2>2, <2>3
<1>6. ASSUME r \in Talk!Streams, Talk!ReadOnFirstText(r)
      PROVE  TalkInv' /\ Talk!StaysEnded
  <2>1. /\ firstText' \in [Talk!Streams -> {"none", "read", "settled"}]
        /\ UNCHANGED <<scope, run, answers, reports, plan, step, crashes>>
    BY <1>1, <1>6 DEF Talk!ReadOnFirstText
  <2>2. Talk!TypeOK'
    BY <1>1, <2>1 DEF Talk!TypeOK
  <2> QED
    BY <2>1, <2>2, TalkAside
<1>7. ASSUME r \in Talk!Streams, Talk!WriteOnFirstText(r)
      PROVE  TalkInv' /\ Talk!StaysEnded
  <2>1. /\ firstText' \in [Talk!Streams -> {"none", "read", "settled"}]
        /\ Talk!UpdateRun(r, "running")
        /\ UNCHANGED <<scope, answers, reports, plan, step, crashes>>
    BY <1>1, <1>7 DEF Talk!WriteOnFirstText
  <2>2. /\ step' \in [Talk!Requests -> Talk!Steps] /\ step'[r] = step[r]
        /\ step[r] \in Talk!Steps
        /\ \A q \in Talk!Requests \ {r} : step'[q] = step[q]
    BY <1>1, <2>1 DEF TalkTyped
  <2> QED
    BY <1>7, <2>1, <2>2, TalkUpdates
<1>8. ASSUME r \in Talk!Streams, Talk!EndStream(r)
      PROVE  TalkInv' /\ Talk!StaysEnded
  <2>1. PICK next \in {"storing", "empty"} : Talk!Goto(r, next)
    BY <1>8 DEF Talk!EndStream
  <2>2. run[r] \in Talk!Active /\ r \notin Starts
    BY <1>1, <1>2, <1>8 DEF Talk!EndStream, RunAtStep
  <2> QED
    BY <1>1, <1>3, <1>8, <2>1, <2>2, TalkPasses DEF Talk!EndStream
<1>9. ASSUME r \in Talk!Streams, Talk!FailEmptyReply(r)
      PROVE  TalkInv' /\ Talk!StaysEnded
  <2>1. run[r] # "none"
    BY <1>1, <1>9 DEF Talk!FailEmptyReply, RunAtStep, Talk!Active
  <2>2. /\ step' \in [Talk!Requests -> Talk!Steps] /\ step'[r] = "failing"
        /\ \A q \in Talk!Requests \ {r} : step'[q] = step[q]
    BY <1>1, <1>3, <1>9, TalkGoto DEF Talk!FailEmptyReply
  <2> QED
    BY <1>1, <1>3, <1>9, <2>1, <2>2, TalkUpdates DEF Talk!FailEmptyReply
<1>10. ASSUME r \in Starts, Talk!NoProvider(r)
       PROVE  TalkInv' /\ Talk!StaysEnded
  <2>1. run[r] = "none"
    BY <1>1, <1>10 DEF Talk!NoProvider, RunAtStep
  <2> QED
    BY <1>1, <1>3, <1>10, <2>1, TalkPasses DEF Talk!NoProvider, Talk!Active
<1>11. ASSUME r \in Starts, Talk!StartResearch(r)
       PROVE  TalkInv' /\ Talk!StaysEnded
  <2>1. /\ step[r] = "approved" /\ run' = [run EXCEPT ![r] = "planning"]
        /\ Talk!Goto(r, "searching")
        /\ UNCHANGED <<scope, answers, reports, plan, firstText, crashes>>
    BY <1>11 DEF Talk!StartResearch
  <2>2. /\ step' \in [Talk!Requests -> Talk!Steps] /\ step'[r] = "searching"
        /\ \A q \in Talk!Requests \ {r} : step'[q] = step[q]
    BY <1>1, <1>3, <2>1, TalkGoto
  <2>3. run[r] = "none" /\ r \notin Turns
    BY <1>1, <1>2, <1>11, <2>1 DEF RunAtStep
  <2>4. /\ run' \in [Talk!Runs -> RunStatuses] /\ run'[r] = "planning"
        /\ \A s \in Talk!Runs \ {r} : run'[s] = run[s]
    BY <1>1, <2>1 DEF TalkTyped, RunStatuses, Talk!Active
  <2>5. Talk!TypeOK'
    BY <1>1, <2>1, <2>2, <2>4 DEF Talk!TypeOK, RunStatuses
  <2>6. RunAtStep(r)'
    BY <2>2, <2>4 DEF RunAtStep, Talk!Active
  <2>7. \A s \in Talk!Runs \ {r} : step'[s] = step[s] /\ run'[s] = run[s]
    BY <2>2, <2>4 DEF Talk!Requests
  <2> QED
    BY <2>1, <2>2, <2>3, <2>4, <2>5, <2>6, <2>7, TalkMoves DEF Talk!Terminal
<1>12. ASSUME r \in Starts, Talk!Search(r)
       PROVE  TalkInv' /\ Talk!StaysEnded
  <2>1. /\ step' \in [Talk!Requests -> Talk!Steps] /\ step'[r] = "reporting"
        /\ \A q \in Talk!Requests \ {r} : step'[q] = step[q]
    BY <1>1, <1>3, <1>12, TalkGoto DEF Talk!Search
  <2> QED
    BY <1>1, <1>3, <1>12, <2>1, TalkUpdates DEF Talk!Search
<1>13. ASSUME r \in Starts, Talk!WriteReport(r)
       PROVE  TalkInv' /\ Talk!StaysEnded
  <2>1. run[r] \in Talk!Active
    BY <1>1, <1>13 DEF Talk!WriteReport, RunAtStep
  <2> QED
    BY <1>1, <1>3, <1>13, <2>1, TalkPasses DEF Talk!WriteReport
<1>14. ASSUME r \in Starts, Talk!FinishResearch(r)
       PROVE  TalkInv' /\ Talk!StaysEnded
  <2>1. /\ step' \in [Talk!Requests -> Talk!Steps] /\ step'[r] = "storing"
        /\ \A q \in Talk!Requests \ {r} : step'[q] = step[q]
    BY <1>1, <1>3, <1>14, TalkGoto DEF Talk!FinishResearch
  <2> QED
    BY <1>1, <1>3, <1>14, <2>1, TalkUpdates DEF Talk!FinishResearch
<1>15. ASSUME Talk!CheckScope(r) PROVE TalkInv' /\ Talk!StaysEnded
  <2>1. PICK next \in {"checked", "failing"} : Talk!Goto(r, next)
    BY <1>15 DEF Talk!CheckScope
  <2>2. /\ IF r \in Starts THEN run[r] = "completed" ELSE run[r] \in Talk!Active
        /\ run[r] # "none"
    BY <1>1, <1>15 DEF Talk!CheckScope, RunAtStep, Talk!Active
  <2> QED
    BY <1>1, <1>3, <1>15, <2>1, <2>2, TalkPasses DEF Talk!CheckScope
<1>16. ASSUME Talk!StoreAnswer(r) PROVE TalkInv' /\ Talk!StaysEnded
  <2>1. /\ IF r \in Starts THEN run[r] = "completed" ELSE run[r] \in Talk!Active
        /\ r \in Talk!Streams => run[r] \in Talk!Active
    BY <1>1, <1>2, <1>16 DEF Talk!StoreAnswer, RunAtStep
  <2> QED
    BY <1>1, <1>3, <1>16, <2>1, TalkPasses DEF Talk!StoreAnswer
<1>17. ASSUME Talk!Complete(r) PROVE TalkInv' /\ Talk!StaysEnded
  <2>1. Talk!MayBecome(r, "completed")
    BY <1>1, <1>17 DEF Talk!Complete, RunAtStep, Talk!MayBecome,
       Talk!TransitionsFrom, Talk!Terminal
  <2>2. /\ step' \in [Talk!Requests -> Talk!Steps] /\ step'[r] = "ended"
        /\ \A q \in Talk!Requests \ {r} : step'[q] = step[q]
    BY <1>1, <1>3, <1>17, <2>1, TalkGoto DEF Talk!Complete
  <2> QED
    BY <1>1, <1>3, <1>17, <2>2, TalkUpdates DEF Talk!Complete
<1>18. ASSUME Talk!Throw(r) PROVE TalkInv' /\ Talk!StaysEnded
  <2>1. run[r] # "none"
    BY <1>1, <1>18 DEF Talk!Throw, RunAtStep, Talk!Active
  <2> QED
    BY <1>1, <1>3, <1>18, <2>1, TalkPasses DEF Talk!Throw
<1>19. ASSUME Talk!FailRun(r) PROVE TalkInv' /\ Talk!StaysEnded
  <2>1. run[r] # "none"
    BY <1>1, <1>19 DEF Talk!FailRun, RunAtStep
  <2>2. /\ step' \in [Talk!Requests -> Talk!Steps] /\ step'[r] = "ended"
        /\ \A q \in Talk!Requests \ {r} : step'[q] = step[q]
    BY <1>1, <1>3, <1>19, TalkGoto DEF Talk!FailRun
  <2> QED
    BY <1>1, <1>3, <1>19, <2>1, <2>2, TalkUpdates DEF Talk!FailRun
<1> QED
  BY <1>4, <1>5, <1>6, <1>7, <1>8, <1>9, <1>10, <1>11, <1>12, <1>13, <1>14,
     <1>15, <1>16, <1>17, <1>18, <1>19 DEF Talk!Serve

LEMMA TalkStep ==
  ASSUME Talk!AssistantAssumption, TalkInv, Talk!Next
  PROVE  TalkInv' /\ Talk!StaysEnded
<1>1. /\ TalkTyped /\ Talk!TypeOK
      /\ \A r \in Talk!Runs : RunAtStep(r)
  BY DEF TalkInv, Talk!ConversationSound, Talk!TypeOK, TalkTyped, RunStatuses
<1>2. /\ Turns \cap Chats = {} /\ Talk!Streams \cap Starts = {}
      /\ Talk!Runs \cap Adoptions = {} /\ Talk!Runs \cap PlanDecisions = {}
      /\ MaxCrashes \in Nat
  BY DEF Talk!AssistantAssumption
<1>3. /\ Turns \subseteq Talk!Streams /\ Chats \subseteq Talk!Streams
      /\ Talk!Streams \subseteq Talk!Runs /\ Starts \subseteq Talk!Runs
      /\ Talk!Runs \subseteq Talk!Requests /\ Adoptions \subseteq Talk!Requests
      /\ PlanDecisions \subseteq Talk!Requests
  BY DEF Talk!Streams, Talk!Runs, Talk!Requests
<1>4. ASSUME NEW t \in Turns, Talk!BeginTurn(t)
      PROVE  TalkInv' /\ Talk!StaysEnded
  <2>1. PICK next \in {"opening", "refused"} :
          /\ Talk!Goto(t, next)
          /\ IF next = "opening"
               THEN /\ run' = [run EXCEPT ![t] = "queued"]
                    /\ scope = "team" /\ ~Talk!TurnActive
               ELSE UNCHANGED run
    BY <1>4 DEF Talk!BeginTurn
  <2>2. /\ step' \in [Talk!Requests -> Talk!Steps] /\ step'[t] = next
        /\ \A q \in Talk!Requests \ {t} : step'[q] = step[q]
    BY <1>1, <1>3, <2>1, TalkGoto DEF Talk!Steps
  <2>3. /\ run' \in [Talk!Runs -> RunStatuses]
        /\ run'[t] = IF next = "opening" THEN "queued" ELSE run[t]
        /\ \A r \in Talk!Runs \ {t} : run'[r] = run[r]
    BY <1>1, <1>3, <2>1 DEF TalkTyped, RunStatuses, Talk!Active
  <2>4. step[t] = "idle" /\ run[t] = "none"
    BY <1>1, <1>3, <1>4 DEF Talk!BeginTurn, RunAtStep
  <2>5. UNCHANGED <<scope, answers, reports, plan, firstText, crashes>>
    BY <1>4 DEF Talk!BeginTurn
  <2>6. Talk!TypeOK'
    BY <1>1, <2>2, <2>3, <2>5 DEF Talk!TypeOK, RunStatuses
  <2>7. RunAtStep(t)'
    BY <1>2, <1>3, <2>2, <2>3, <2>4 DEF RunAtStep, Talk!Active
  <2> QED
    BY <1>3, <2>1, <2>2, <2>3, <2>4, <2>5, <2>6, <2>7, TalkMoves
    DEF Talk!Active, Talk!Terminal
<1>5. ASSUME NEW a \in Adoptions, Talk!Adopt(a)
      PROVE  TalkInv' /\ Talk!StaysEnded
  <2>1. PICK next \in {"ended", "refused"} : Talk!Goto(a, next)
    BY <1>5 DEF Talk!Adopt
  <2>2. /\ step' \in [Talk!Requests -> Talk!Steps]
        /\ \A q \in Talk!Requests \ {a} : step'[q] = step[q]
    BY <1>1, <1>3, <2>1, TalkGoto DEF Talk!Steps
  <2>3. /\ UNCHANGED <<run, answers, reports, plan, firstText, crashes>>
        /\ scope' = scope \/ (scope' = "wiki" /\ ~Talk!TurnActive)
    BY <1>5 DEF Talk!Adopt
  <2>4. Talk!TypeOK'
    BY <1>1, <2>2, <2>3 DEF Talk!TypeOK
  <2> QED
    BY <1>2, <1>3, <2>2, <2>3, <2>4, TalkAside
<1>6. ASSUME NEW c \in Chats, Talk!BeginChat(c)
      PROVE  TalkInv' /\ Talk!StaysEnded
  <2>1. PICK next \in {"opening", "refused"} :
          /\ Talk!Goto(c, next)
          /\ IF next = "opening" THEN run' = [run EXCEPT ![c] = "planning"]
                                 ELSE UNCHANGED run
    BY <1>6 DEF Talk!BeginChat
  <2>2. /\ step' \in [Talk!Requests -> Talk!Steps] /\ step'[c] = next
        /\ \A q \in Talk!Requests \ {c} : step'[q] = step[q]
    BY <1>1, <1>3, <2>1, TalkGoto DEF Talk!Steps
  <2>3. /\ run' \in [Talk!Runs -> RunStatuses]
        /\ run'[c] = IF next = "opening" THEN "planning" ELSE run[c]
        /\ \A r \in Talk!Runs \ {c} : run'[r] = run[r]
    BY <1>1, <1>3, <2>1 DEF TalkTyped, RunStatuses, Talk!Active
  <2>4. step[c] = "idle" /\ run[c] = "none"
    BY <1>1, <1>3, <1>6 DEF Talk!BeginChat, RunAtStep
  <2>5. UNCHANGED <<scope, answers, reports, plan, firstText, crashes>>
    BY <1>6 DEF Talk!BeginChat
  <2>6. Talk!TypeOK'
    BY <1>1, <2>2, <2>3, <2>5 DEF Talk!TypeOK, RunStatuses
  <2>7. RunAtStep(c)'
    BY <1>2, <1>3, <2>2, <2>3, <2>4 DEF RunAtStep, Talk!Active
  <2> QED
    BY <1>2, <1>3, <2>1, <2>2, <2>3, <2>4, <2>5, <2>6, <2>7, TalkMoves
    DEF Talk!Active, Talk!Terminal
<1>7. ASSUME Talk!ProposePlan PROVE TalkInv' /\ Talk!StaysEnded
  <2>1. Talk!TypeOK'
    BY <1>1, <1>7 DEF Talk!TypeOK, Talk!ProposePlan
  <2> QED
    BY <1>7, <2>1, TalkAside DEF Talk!ProposePlan
<1>8. ASSUME NEW d \in PlanDecisions,
             Talk!ReadForDecision(d) \/ Talk!WriteDecision(d)
      PROVE  TalkInv' /\ Talk!StaysEnded
  <2>1. PICK next \in {"approve", "dismiss", "ended"} : Talk!Goto(d, next)
    BY <1>8 DEF Talk!ReadForDecision, Talk!WriteDecision
  <2>2. /\ step' \in [Talk!Requests -> Talk!Steps]
        /\ \A q \in Talk!Requests \ {d} : step'[q] = step[q]
    BY <1>1, <1>3, <2>1, TalkGoto DEF Talk!Steps
  <2>3. /\ UNCHANGED <<scope, run, answers, reports, firstText, crashes>>
        /\ plan' \in {plan, "approved", "dismissed"}
    BY <1>8 DEF Talk!ReadForDecision, Talk!WriteDecision
  <2>4. Talk!TypeOK'
    BY <1>1, <2>2, <2>3 DEF Talk!TypeOK
  <2> QED
    BY <1>2, <1>3, <2>2, <2>3, <2>4, TalkAside
<1>9. ASSUME Talk!Crash PROVE TalkInv' /\ Talk!StaysEnded
  <2>1. /\ UNCHANGED <<scope, run, answers, reports, plan>>
        /\ crashes' = crashes + 1 /\ crashes < MaxCrashes
        /\ step' = [q \in Talk!Requests |->
             IF step[q] \in {"idle", "ended", "refused"}
               THEN step[q] ELSE "lost"]
        /\ firstText' = [r \in Talk!Streams |->
             IF firstText[r] = "read" THEN "settled" ELSE firstText[r]]
    BY <1>9 DEF Talk!Crash
  <2>2. step' \in [Talk!Requests -> Talk!Steps]
    BY <1>1, <2>1 DEF TalkTyped, Talk!Steps
  <2>3. Talk!TypeOK'
    BY <1>1, <1>2, <2>1, <2>2 DEF Talk!TypeOK
  <2>4. \A r \in Talk!Runs : RunAtStep(r)'
    BY <1>1, <1>3, <2>1 DEF RunAtStep
  <2>5. Talk!ActiveIsServed'
    BY <1>3, <2>1 DEF TalkInv, Talk!ConversationSound, Talk!ActiveIsServed
  <2>6. Talk!OneReply' /\ Talk!AdoptedIsQuiet' /\ Talk!CompletedIsStored'
    BY <2>1 DEF TalkInv, Talk!ConversationSound, Talk!OneReply,
       Talk!AdoptedIsQuiet, Talk!TurnActive, Talk!CompletedIsStored
  <2> QED
    BY <2>1, <2>3, <2>4, <2>5, <2>6
    DEF TalkInv, Talk!ConversationSound, Talk!StaysEnded
<1>10. ASSUME NEW s \in Starts, Talk!ReadForStart(s)
       PROVE  TalkInv' /\ Talk!StaysEnded
  <2>1. PICK next \in {"approved", "refused"} : Talk!Goto(s, next)
    BY <1>10 DEF Talk!ReadForStart
  <2>2. step[s] = "idle" /\ run[s] = "none"
    BY <1>1, <1>3, <1>10 DEF Talk!ReadForStart, RunAtStep
  <2>3. /\ UNCHANGED <<scope, run, answers, reports, plan, firstText, crashes>>
        /\ firstText \in [Talk!Streams -> {"none", "read", "settled"}]
    BY <1>1, <1>10 DEF Talk!ReadForStart, Talk!TypeOK
  <2>4. next \in Talk!Steps /\ run[s] \notin Talk!Active
    BY <2>2 DEF Talk!Steps, Talk!Active
  <2> QED
    BY <1>3, <2>1, <2>2, <2>3, <2>4, TalkPasses
<1>11. ASSUME NEW r \in Talk!Runs, Talk!Serve(r)
       PROVE  TalkInv' /\ Talk!StaysEnded
  BY <1>11, TalkServes
<1> QED
  BY <1>4, <1>5, <1>6, <1>7, <1>8, <1>9, <1>10, <1>11 DEF Talk!Next

LEMMA TalkAlways == RequestsSpec => []TalkInv
<1>1. RequestsInit => TalkInv
  BY TalkInit, RequestsAssumption DEF RequestsInit
<1>2. TalkInv /\ [RequestsNext]_allVars => TalkInv'
  BY TalkStep, TalkKept, RequestsAssumption DEF RequestsNext, TalkNext, allVars
<1> QED
  BY <1>1, <1>2, PTL DEF RequestsSpec, allVars

(* A conversation is answered one turn at a time until a Wiki adopts it at *)
(* rest, what is called complete is stored, and no active turn or research *)
(* is left without a request that ends it, but by a crash.                 *)
THEOREM Conversation == RequestsSpec => []ConversationSound
<1>1. TalkInv => ConversationSound
  BY DEF TalkInv, ConversationSound
<1> QED
  BY <1>1, TalkAlways, PTL

(* What ended stays as it ended, whatever was still under way.             *)
THEOREM EndsStay == RequestsSpec => EndedIsFinal
<1>1. TalkInv /\ [RequestsNext]_allVars => [Talk!StaysEnded]_talkVars
  BY TalkStep, RequestsAssumption DEF RequestsNext, TalkNext, allVars
<1>2. [][Talk!StaysEnded]_talkVars => EndedIsFinal
  BY DEF EndedIsFinal, Talk!EndedIsFinal, Talk!vars, talkVars
<1> QED
  BY <1>1, <1>2, TalkAlways, PTL DEF RequestsSpec, allVars

-----------------------------------------------------------------------------
(* The connections to the database                                         *)

(* A caller that was given the connection and has not given it back.       *)
Holding(c) ==
  \/ command[c].pc \in {"begin", "begun", "single"}
  \/ command[c].pc \in {"open", "ending"} /\ tx[c].state # "closed"

(* What a caller is told and what its transaction is at agree.             *)
CallInv(c) ==
  /\ command[c].outcome = "none" <=> command[c].pc # "done"
  /\ tx[c].by = "nobody" <=> tx[c].step = "none"
  /\ command[c].pc \in {"idle", "done"} => tx[c].step = "none"
  /\ command[c].pc \in {"queued", "begin", "begun", "single"} =>
       tx[c] = Database!NoTransaction
  /\ command[c].pc \in {"begin", "begun", "open", "ending"} =>
       command[c].kind = "transaction"
  /\ command[c].pc = "open" =>
       \/ /\ tx[c].state = "active" /\ tx[c].step \in {"none", "statement"}
          /\ tx[c].by # "dispose" /\ tx[c].error = "none"
       \/ /\ tx[c].state = "terminating" /\ tx[c].by = "dispose"
          /\ tx[c].step \in {"undo", "recover", "finish"}
       \/ tx[c].state = "closed" /\ tx[c].step = "none"
  /\ command[c].pc = "ending" =>
       /\ tx[c].state = "terminating" /\ tx[c].by = "caller"
       /\ \/ tx[c].step = "commit" /\ tx[c].error = "none"
          \/ /\ tx[c].step \in {"undo", "undoCommit", "recover"}
             /\ tx[c].error # "none"
          \/ tx[c].step = "finish"
  /\ applied[c] = IF /\ command[c].pc = "ending"
                     /\ tx[c].step = "finish" /\ tx[c].error = "none"
                    THEN 1
                    ELSE IF command[c].outcome = "ok" THEN applied[c] ELSE 0
  /\ applied[c] \in {0, 1}

(* A caller whose next statement, or BEGIN, runs on the handle as it is.   *)
OnHandle(c) ==
  \/ command[c].pc \in {"begin", "begun", "single"}
  \/ command[c].pc = "open" /\ tx[c].state = "active"

(* A transaction that dispose ends, or ended, without its caller.          *)
Cancelled(c) ==
  \/ tx[c].by = "dispose"
  \/ command[c].pc = "open" /\ tx[c].state = "closed"

(* What a caller knows of its connection.                                  *)
LinkInv(c) ==
  LET k == Database!At(c) IN
  /\ Holding(c) => Database!Holds(k, c)
  /\ OnHandle(c) => conn[k].initialized
  /\ OnHandle(c) /\ command[c].pc \in {"begun", "open"} => handle[k].open
  /\ tx[c].step = "commit" => c \in handle[k].writes
  /\ Cancelled(c) => conn[k].state # "open"
  /\ command[c].outcome = "ok" /\ conn[k].state = "open" => applied[c] = 1

(* The queue of a connection holds everybody once, who waits or holds.     *)
QueueInv(k) ==
  /\ \A i, j \in DOMAIN lock[k] : lock[k][i] = lock[k][j] => i = j
  /\ \A i \in DOMAIN lock[k] :
       \/ lock[k][i] = Disposer /\ conn[k].dispose = "queued"
       \/ \E c \in Callers : /\ lock[k][i] = c /\ Database!At(c) = k
                             /\ command[c].pc = "queued" \/ Holding(c)

(* The handle is open as long as its holder's transaction is.              *)
HandleInv(k) ==
  /\ conn[k].state = "open" <=> conn[k].dispose = "none"
  /\ \A c \in Callers : conn[k].active = c =>
       /\ Database!At(c) = k /\ Holding(c)
       /\ command[c].pc \in {"open", "ending"}
  /\ conn[k].initialized => handle[k].pragmas \/ ~handle[k].usable
  /\ handle[k].open <=> writer = k
  /\ ~handle[k].open => handle[k].writes = {}
  /\ handle[k].open =>
       \E c \in Callers :
         /\ Database!At(c) = k /\ Holding(c) /\ handle[k].writes \subseteq {c}
         /\ command[c].pc \in {"begun", "open", "ending"}
         /\ tx[c].step # "finish"

DatabaseInv ==
  /\ Database!TypeOK
  /\ \A c \in Callers : CallInv(c) /\ LinkInv(c)
  /\ \A k \in Connections : QueueInv(k) /\ HandleInv(k)

Commands ==
  [pc: {"idle", "queued", "begin", "begun", "single", "open", "ending", "done"},
   kind: {"transaction", "statement"}, at: Connections, tries: 0 .. MaxTries,
   outcome: {"none", "ok"} \cup Database!Failures]
Transactions ==
  [state: {"none", "active", "terminating", "closed"},
   step: {"none", "statement", "commit", "undo", "undoCommit", "recover",
          "finish"},
   by: {"nobody", "caller", "dispose"}, error: {"none"} \cup Database!Failures]
Sessions ==
  [state: {"open", "disposing", "disposed"}, initialized: BOOLEAN,
   active: Callers \cup {NoCaller},
   dispose: {"none", "cancel", "enqueue", "queued", "done"}]
Handles == [open: BOOLEAN, writes: SUBSET Callers, pragmas: BOOLEAN,
            usable: BOOLEAN]

LEMMA DatabaseTyped ==
  Database!TypeOK <=>
    /\ command \in [Callers -> Commands] /\ tx \in [Callers -> Transactions]
    /\ lock \in [Connections -> Seq(Callers \cup {Disposer})]
    /\ conn \in [Connections -> Sessions]
    /\ handle \in [Connections -> Handles]
    /\ writer \in Connections \cup {NoConnection}
    /\ applied \in [Callers -> Nat] /\ errors \in 0 .. MaxErrors
BY DEF Database!TypeOK, Commands, Transactions, Sessions, Handles

LEMMA DatabaseTypedNext ==
  ASSUME command' \in [Callers -> Commands], tx' \in [Callers -> Transactions],
         lock' \in [Connections -> Seq(Callers \cup {Disposer})],
         conn' \in [Connections -> Sessions],
         handle' \in [Connections -> Handles],
         writer' \in Connections \cup {NoConnection},
         applied' \in [Callers -> Nat], errors' \in 0 .. MaxErrors
  PROVE  Database!TypeOK'
BY DEF Database!TypeOK, Commands, Transactions, Sessions, Handles

LEMMA DatabaseAssumption ==
  /\ NoConnection \notin Connections
  /\ NoCaller \notin Callers /\ Disposer \notin Callers
  /\ MaxTries \in Nat /\ MaxErrors \in Nat
BY RequestsAssumption DEF Database!ConnectionAssumption

LEMMA DatabaseKept == DatabaseInv /\ UNCHANGED connectionVars => DatabaseInv'
<1> SUFFICES ASSUME DatabaseInv, UNCHANGED connectionVars PROVE DatabaseInv'
  OBVIOUS
<1>1. UNCHANGED <<command, tx, lock, conn, handle, writer, applied, errors>>
  BY DEF connectionVars
<1>2. Database!TypeOK'
  BY <1>1 DEF DatabaseInv, Database!TypeOK
<1>3. \A c \in Callers : CallInv(c)' /\ LinkInv(c)'
  BY <1>1 DEF DatabaseInv, CallInv, LinkInv, Holding, OnHandle, Cancelled,
     Database!At, Database!Holds
<1>4. \A k \in Connections : QueueInv(k)' /\ HandleInv(k)'
  BY <1>1 DEF DatabaseInv, QueueInv, HandleInv, Holding, Database!At
<1> QED
  BY <1>2, <1>3, <1>4 DEF DatabaseInv

-----------------------------------------------------------------------------
(* What the steps change                                                   *)

LEMMA Answered ==
  ASSUME command \in [Callers -> Commands], NEW c \in Callers,
         NEW outcome \in {"ok", "busy", "error"}, Database!Answer(c, outcome)
  PROVE  /\ command' \in [Callers -> Commands]
         /\ command'[c].at = command[c].at /\ command'[c].kind = command[c].kind
         /\ \A d \in Callers \ {c} : command'[d] = command[d]
         /\ \/ /\ outcome = "busy" /\ command'[c].pc = "idle"
               /\ command'[c].outcome = command[c].outcome
            \/ command'[c].pc = "done" /\ command'[c].outcome = outcome
<1>1. CASE outcome = "busy" /\ command[c].tries < MaxTries
  <2> DEFINE mid == [command[c] EXCEPT !.pc = "idle"]
  <2>1. /\ mid \in Commands /\ mid.at = command[c].at
        /\ mid.kind = command[c].kind /\ mid.pc = "idle"
        /\ mid.outcome = command[c].outcome /\ mid.tries = command[c].tries
    BY DEF Commands
  <2>2. command' = [command EXCEPT ![c] =
          [command[c] EXCEPT !.pc = "idle", !.tries = command[c].tries + 1]]
    BY <1>1 DEF Database!Answer
  <2>3. [command[c] EXCEPT !.pc = "idle", !.tries = command[c].tries + 1]
          = [mid EXCEPT !.tries = command[c].tries + 1]
    OBVIOUS
  <2>4. command[c].tries + 1 \in 0 .. MaxTries
    BY <1>1, DatabaseAssumption DEF Commands
  <2> HIDE DEF mid
  <2>5. command'[c] = [mid EXCEPT !.tries = command[c].tries + 1]
    BY <2>2, <2>3
  <2>6. command'[c] \in Commands /\ command'[c].at = mid.at
        /\ command'[c].kind = mid.kind /\ command'[c].pc = mid.pc
        /\ command'[c].outcome = mid.outcome
    BY <2>1, <2>4, <2>5 DEF Commands
  <2> QED
    BY <1>1, <2>1, <2>2, <2>3, <2>6
<1>2. CASE ~(outcome = "busy" /\ command[c].tries < MaxTries)
  <2> DEFINE mid == [command[c] EXCEPT !.pc = "done"]
  <2>1. /\ mid \in Commands /\ mid.at = command[c].at
        /\ mid.kind = command[c].kind /\ mid.pc = "done"
    BY DEF Commands
  <2>2. command' = [command EXCEPT ![c] = [mid EXCEPT !.outcome = outcome]]
    BY <1>2 DEF Database!Answer
  <2> HIDE DEF mid
  <2>3. command'[c] = [mid EXCEPT !.outcome = outcome]
    BY <2>2
  <2>4. command'[c] \in Commands /\ command'[c].at = mid.at
        /\ command'[c].kind = mid.kind /\ command'[c].pc = mid.pc
        /\ command'[c].outcome = outcome
    BY <2>1, <2>3 DEF Commands, Database!Failures
  <2> QED
    BY <2>1, <2>2, <2>4
<1> QED
  BY <1>1, <1>2

LEMMA Gone ==
  ASSUME command \in [Callers -> Commands], NEW c \in Callers,
         NEW pc \in {"queued", "begin", "begun", "single", "open", "ending"},
         Database!Goto(c, pc)
  PROVE  /\ command' \in [Callers -> Commands] /\ command'[c].pc = pc
         /\ command'[c].at = command[c].at /\ command'[c].kind = command[c].kind
         /\ command'[c].outcome = command[c].outcome
         /\ \A d \in Callers \ {c} : command'[d] = command[d]
BY DEF Database!Goto, Commands

LEMMA Undone ==
  ASSUME handle \in [Connections -> Handles], NEW k \in Connections,
         writer \in Connections \cup {NoConnection}, Database!Undo(k)
  PROVE  /\ handle' \in [Connections -> Handles] /\ ~handle'[k].open
         /\ handle'[k].writes = {} /\ handle'[k].pragmas = handle[k].pragmas
         /\ handle'[k].usable = handle[k].usable
         /\ \A j \in Connections \ {k} : handle'[j] = handle[j]
         /\ writer' \in Connections \cup {NoConnection} /\ writer' # k
         /\ \A j \in Connections \ {k} : writer' = j <=> writer = j
<1>1. /\ writer' \in Connections \cup {NoConnection} /\ writer' # k
      /\ \A j \in Connections \ {k} : writer' = j <=> writer = j
  BY DatabaseAssumption DEF Database!Undo, Database!LeaveFile
<1> DEFINE mid == [handle[k] EXCEPT !.open = FALSE]
<1>2. /\ mid \in Handles /\ mid.open = FALSE
      /\ mid.pragmas = handle[k].pragmas /\ mid.usable = handle[k].usable
  BY DEF Handles
<1>3. handle' = [handle EXCEPT ![k] = [mid EXCEPT !.writes = {}]]
  BY DEF Database!Undo, Database!UndoneHandle
<1> HIDE DEF mid
<1>4. handle'[k] = [mid EXCEPT !.writes = {}]
  BY <1>3
<1>5. /\ handle'[k] \in Handles
      /\ handle'[k].open = FALSE /\ handle'[k].writes = {}
      /\ handle'[k].pragmas = mid.pragmas /\ handle'[k].usable = mid.usable
  BY <1>2, <1>4 DEF Handles
<1> QED
  BY <1>1, <1>2, <1>3, <1>5

(* Only the caller at the head of the queue works on the connection.       *)
LEMMA HeldBy ==
  ASSUME DatabaseInv, NEW c \in Callers, NEW k \in Connections,
         Database!At(c) = k, Database!Holds(k, c)
  PROVE  /\ \A d \in Callers : Database!At(d) = k /\ Holding(d) => d = c
         /\ conn[k].active # NoCaller =>
              /\ conn[k].active = c /\ Holding(c)
              /\ command[c].pc \in {"open", "ending"}
         /\ handle[k].open =>
              /\ Holding(c) /\ handle[k].writes \subseteq {c}
              /\ command[c].pc \in {"begun", "open", "ending"}
              /\ tx[c].step # "finish"
<1>1. \A d \in Callers : Database!At(d) = k /\ Holding(d) => d = c
  BY DEF DatabaseInv, LinkInv, Database!Holds
<1>2. conn[k].active \in Callers \cup {NoCaller}
  BY DEF DatabaseInv, Database!TypeOK
<1> QED
  BY <1>1, <1>2 DEF DatabaseInv, HandleInv

LEMMA QueueReleased ==
  ASSUME DatabaseInv, NEW c \in Callers, NEW k \in Connections,
         Database!Holds(k, c), Database!Release(k),
         conn'[k].dispose = conn[k].dispose,
         \A d \in Callers \ {c} : command'[d] = command[d] /\ tx'[d] = tx[d]
  PROVE  /\ lock' \in [Connections -> Seq(Callers \cup {Disposer})]
         /\ \A j \in Connections \ {k} : lock'[j] = lock[j]
         /\ QueueInv(k)'
<1> DEFINE s == lock[k]
<1>1. /\ lock \in [Connections -> Seq(Callers \cup {Disposer})]
      /\ s \in Seq(Callers \cup {Disposer}) /\ s # <<>> /\ Head(s) = c
  BY DEF DatabaseInv, Database!TypeOK, Database!Holds
<1>2. lock' = [lock EXCEPT ![k] = Tail(s)]
  BY DEF Database!Release
<1>3. /\ Tail(s) \in Seq(Callers \cup {Disposer})
      /\ Len(s) \in Nat /\ Len(s) # 0 /\ s[1] = c /\ DOMAIN s = 1 .. Len(s)
      /\ DOMAIN Tail(s) = 1 .. (Len(s) - 1)
      /\ \A i \in 1 .. (Len(s) - 1) : Tail(s)[i] = s[i + 1]
  BY <1>1
<1>4. /\ \A i, j \in DOMAIN s : s[i] = s[j] => i = j
      /\ \A i \in DOMAIN s :
           \/ s[i] = Disposer /\ conn[k].dispose = "queued"
           \/ \E d \in Callers : /\ s[i] = d /\ Database!At(d) = k
                                 /\ command[d].pc = "queued" \/ Holding(d)
  BY DEF DatabaseInv, QueueInv
<1>5. lock'[k] = Tail(s)
  BY <1>1, <1>2
<1> HIDE DEF s
<1>6. \A i \in 1 .. (Len(s) - 1) : i + 1 \in DOMAIN s /\ 1 \in DOMAIN s
                                   /\ s[i + 1] # c
  BY <1>3, <1>4
<1>7. \A i, j \in DOMAIN Tail(s) : Tail(s)[i] = Tail(s)[j] => i = j
  BY <1>3, <1>4, <1>6
<1>8. ASSUME NEW i \in DOMAIN Tail(s)
      PROVE  \/ Tail(s)[i] = Disposer /\ conn'[k].dispose = "queued"
             \/ \E d \in Callers :
                  /\ Tail(s)[i] = d /\ Database!At(d)' = k
                  /\ command'[d].pc = "queued" \/ Holding(d)'
  <2>1. i + 1 \in DOMAIN s /\ Tail(s)[i] = s[i + 1] /\ s[i + 1] # c
    BY <1>3, <1>6
  <2>2. \A d \in Callers \ {c} :
          /\ Database!At(d)' = Database!At(d)
          /\ command'[d].pc = "queued" \/ Holding(d)' <=>
               command[d].pc = "queued" \/ Holding(d)
    BY DEF Holding, Database!At
  <2> QED
    BY <1>4, <2>1, <2>2
<1> QED
  BY <1>1, <1>2, <1>3, <1>5, <1>7, <1>8 DEF QueueInv

LEMMA QueueStays ==
  ASSUME DatabaseInv, NEW c \in Callers, NEW k \in Connections,
         lock'[k] = lock[k], conn'[k].dispose = conn[k].dispose,
         command'[c].at = command[c].at,
         command[c].pc = "queued" \/ Holding(c) =>
           command'[c].pc = "queued" \/ Holding(c)',
         \A d \in Callers \ {c} : command'[d] = command[d] /\ tx'[d] = tx[d]
  PROVE  QueueInv(k)'
<1>1. \A d \in Callers : /\ Database!At(d)' = Database!At(d)
                         /\ command[d].pc = "queued" \/ Holding(d) =>
                              command'[d].pc = "queued" \/ Holding(d)'
  BY DEF Holding, Database!At
<1> QED
  BY <1>1 DEF DatabaseInv, QueueInv

(* A step of one caller on its connection.                                 *)
LEMMA CallerMoves ==
  ASSUME DatabaseInv, NEW c \in Callers, NEW k \in Connections,
         Database!At(c) = k, Database!TypeOK', command'[c].at = k,
         \A d \in Callers \ {c} : /\ command'[d] = command[d]
                                  /\ tx'[d] = tx[d] /\ applied'[d] = applied[d],
         \A j \in Connections \ {k} :
           /\ lock'[j] = lock[j] /\ conn'[j] = conn[j] /\ handle'[j] = handle[j]
           /\ writer' = j <=> writer = j,
         conn'[k].state = conn[k].state,
         \/ Database!Holds(k, c)
         \/ /\ conn'[k] = conn[k] /\ handle'[k] = handle[k]
            /\ lock[k] # <<>> => /\ lock'[k] # <<>>
                                 /\ Head(lock'[k]) = Head(lock[k]),
         CallInv(c)', LinkInv(c)', QueueInv(k)', HandleInv(k)'
  PROVE  DatabaseInv'
<1>1. ASSUME NEW d \in Callers PROVE CallInv(d)' /\ LinkInv(d)'
  <2>1. CASE d = c
    BY <2>1
  <2>2. CASE d # c
    <3>1. /\ command'[d] = command[d] /\ tx'[d] = tx[d]
          /\ applied'[d] = applied[d]
      BY <2>2
    <3>2. CallInv(d) /\ LinkInv(d)
      BY DEF DatabaseInv
    <3>3. CallInv(d)'
      BY <3>1, <3>2 DEF CallInv
    <3>4. Holding(d)' <=> Holding(d)
      BY <3>1 DEF Holding
    <3>5. CASE Database!At(d) # k
      <4>1. Database!At(d) \in Connections
        BY DEF DatabaseInv, Database!TypeOK, Database!At
      <4> QED
        BY <3>1, <3>2, <3>3, <3>4, <3>5, <4>1
        DEF LinkInv, OnHandle, Cancelled, Database!At, Database!Holds
    <3>6. CASE Database!At(d) = k /\ Database!Holds(k, c)
      <4>1. ~Holding(d)
        BY <2>2, <3>6, HeldBy
      <4>2. ~Holding(d)' /\ ~OnHandle(d)'
        BY <3>1, <3>4, <4>1 DEF Holding, OnHandle
      <4>3. command[d].pc \in {"idle", "queued", "begin", "begun", "single",
                               "open", "ending", "done"}
        BY DEF DatabaseInv, Database!TypeOK
      <4>4. tx'[d].step # "commit"
        BY <3>1, <3>2, <4>1, <4>3 DEF Holding, CallInv, Database!NoTransaction
      <4>5. Cancelled(d)' <=> Cancelled(d)
        BY <3>1 DEF Cancelled
      <4> QED
        BY <3>1, <3>2, <3>3, <3>6, <4>2, <4>4, <4>5
        DEF LinkInv, Database!At, Database!Holds
    <3>7. CASE Database!At(d) = k /\ ~Database!Holds(k, c)
      BY <3>1, <3>2, <3>3, <3>4, <3>7
      DEF LinkInv, OnHandle, Cancelled, Database!At, Database!Holds
    <3> QED
      BY <3>3, <3>5, <3>6, <3>7
  <2> QED
    BY <2>1, <2>2
<1>2. ASSUME NEW j \in Connections PROVE QueueInv(j)' /\ HandleInv(j)'
  <2>1. CASE j = k
    BY <2>1
  <2>2. CASE j # k
    <3>1. /\ lock'[j] = lock[j] /\ conn'[j] = conn[j]
          /\ handle'[j] = handle[j] /\ (writer' = j <=> writer = j)
      BY <2>2
    <3>2. \A d \in Callers : Database!At(d) = j =>
            /\ command'[d] = command[d] /\ tx'[d] = tx[d]
            /\ Holding(d)' <=> Holding(d)
      BY <2>2 DEF Holding, Database!At
    <3>3. QueueInv(j)'
      BY <3>1, <3>2 DEF DatabaseInv, QueueInv, Database!At
    <3>4. HandleInv(j)'
      <4>1. HandleInv(j) /\ conn[j].active \in Callers \cup {NoCaller}
        BY DEF DatabaseInv, Database!TypeOK
      <4> QED
        BY <3>1, <3>2, <4>1 DEF HandleInv, Database!At
    <3> QED
      BY <3>3, <3>4
  <2> QED
    BY <2>1, <2>2
<1> QED
  BY <1>1, <1>2 DEF DatabaseInv

LEMMA DatabaseFacts ==
  ASSUME DatabaseInv
  PROVE  /\ command \in [Callers -> Commands]
         /\ tx \in [Callers -> Transactions]
         /\ lock \in [Connections -> Seq(Callers \cup {Disposer})]
         /\ conn \in [Connections -> Sessions]
         /\ handle \in [Connections -> Handles]
         /\ writer \in Connections \cup {NoConnection}
         /\ applied \in [Callers -> Nat] /\ errors \in 0 .. MaxErrors
         /\ \A c \in Callers : Database!At(c) \in Connections
BY DatabaseTyped DEF DatabaseInv, Database!At, Commands

(* A caller gives up before its transaction began.                         *)
LEMMA GivesUp ==
  ASSUME DatabaseInv, NEW c \in Callers, NEW k \in Connections,
         Database!At(c) = k, Database!Holds(k, c),
         command[c].pc \in {"queued", "begin", "single"},
         NEW outcome \in Database!Failures, Database!GiveUp(c, outcome),
         errors' \in 0 .. MaxErrors
  PROVE  DatabaseInv'
<1>1. /\ command \in [Callers -> Commands] /\ tx \in [Callers -> Transactions]
      /\ conn \in [Connections -> Sessions]
      /\ handle \in [Connections -> Handles]
      /\ writer \in Connections \cup {NoConnection}
      /\ applied \in [Callers -> Nat]
  BY DatabaseFacts
<1>2. /\ Database!Answer(c, outcome) /\ Database!Release(k)
      /\ UNCHANGED <<tx, conn, handle, writer, applied>>
      /\ outcome \in {"ok", "busy", "error"} /\ outcome # "ok"
  BY DEF Database!GiveUp, Database!Failures
<1>3. /\ command' \in [Callers -> Commands] /\ command'[c].at = k
      /\ command'[c].kind = command[c].kind
      /\ \A d \in Callers \ {c} : command'[d] = command[d]
      /\ \/ /\ command'[c].pc = "idle"
            /\ command'[c].outcome = command[c].outcome
         \/ command'[c].pc = "done" /\ command'[c].outcome = outcome
  BY <1>1, <1>2, Answered DEF Database!At
<1>4. /\ lock' \in [Connections -> Seq(Callers \cup {Disposer})]
      /\ \A j \in Connections \ {k} : lock'[j] = lock[j]
      /\ QueueInv(k)'
  BY <1>2, <1>3, QueueReleased
<1>5. CallInv(c) /\ LinkInv(c) /\ HandleInv(k)
  BY DEF DatabaseInv
<1>6. tx[c] = Database!NoTransaction /\ command[c].outcome = "none"
      /\ applied[c] = 0
  BY <1>5 DEF CallInv
<1>7. ~handle[k].open /\ conn[k].active = NoCaller
  BY HeldBy
<1>8. CallInv(c)'
  BY <1>2, <1>3, <1>6 DEF CallInv, Database!NoTransaction, Database!Failures
<1>9. LinkInv(c)'
  BY <1>2, <1>3, <1>6 DEF LinkInv, Holding, OnHandle, Cancelled, Database!At,
     Database!NoTransaction, Database!Failures
<1>10. HandleInv(k)'
  BY <1>2, <1>5, <1>7, DatabaseAssumption DEF HandleInv
<1>11. Database!TypeOK'
  BY <1>1, <1>2, <1>3, <1>4, DatabaseTypedNext
<1> QED
  BY <1>2, <1>3, <1>4, <1>8, <1>9, <1>10, <1>11, CallerMoves

(* A caller works on the handle and keeps the connection.                  *)
LEMMA HolderWorks ==
  ASSUME DatabaseInv, NEW c \in Callers, NEW k \in Connections,
         Database!At(c) = k, Holding(c), command[c].pc \in {"open", "ending"},
         UNCHANGED <<lock, conn>>,
         command' \in [Callers -> Commands], command'[c].at = k,
         command'[c].pc \in {"open", "ending"},
         tx' \in [Callers -> Transactions], tx'[c].state # "closed",
         \A d \in Callers \ {c} : /\ command'[d] = command[d]
                                  /\ tx'[d] = tx[d] /\ applied'[d] = applied[d],
         applied' \in [Callers -> Nat], errors' \in 0 .. MaxErrors,
         handle' \in [Connections -> Handles],
         writer' \in Connections \cup {NoConnection},
         \A j \in Connections \ {k} :
           handle'[j] = handle[j] /\ (writer' = j <=> writer = j),
         handle'[k].open <=> writer' = k,
         handle'[k].writes \subseteq handle[k].writes \cup {c},
         ~handle'[k].open => handle'[k].writes = {},
         handle'[k].open => handle[k].open /\ tx'[c].step # "finish",
         conn[k].initialized => handle'[k].pragmas \/ ~handle'[k].usable,
         command'[c].pc = "open" /\ tx'[c].state = "active" =>
           OnHandle(c) /\ handle'[k].open,
         tx'[c].step = "commit" => c \in handle'[k].writes,
         tx'[c].by = "dispose" => tx[c].by = "dispose",
         CallInv(c)'
  PROVE  DatabaseInv'
<1>1. CallInv(c) /\ LinkInv(c) /\ HandleInv(k)
  BY DEF DatabaseInv
<1>2. Database!Holds(k, c)
  BY <1>1 DEF LinkInv
<1>3. Holding(c)'
  BY DEF Holding
<1>4. QueueInv(k)'
  BY <1>3, QueueStays DEF Database!At
<1>5. LinkInv(c)'
  <2>1. Database!Holds(k, c)'
    BY <1>2 DEF Database!Holds
  <2>2. OnHandle(c)' => OnHandle(c) /\ handle'[k].open
    BY DEF OnHandle
  <2>3. Cancelled(c)' => Cancelled(c)
    BY DEF Cancelled
  <2>4. command'[c].outcome # "ok"
    BY DEF CallInv
  <2> QED
    BY <1>1, <2>1, <2>2, <2>3, <2>4 DEF LinkInv, Database!At
<1>6. HandleInv(k)'
  <2>1. conn[k].active \in {NoCaller, c}
    BY <1>2, HeldBy
  <2>2. handle[k].open => handle[k].writes \subseteq {c}
    BY <1>2, HeldBy
  <2>3. handle'[k].open => /\ handle'[k].writes \subseteq {c}
                           /\ tx'[c].step # "finish"
    BY <2>2
  <2>4. \A d \in Callers : conn'[k].active = d => d = c
    BY <2>1, DatabaseAssumption
  <2>5. Database!At(c)' = k
    BY DEF Database!At
  <2> QED
    BY <1>1, <1>3, <2>3, <2>4, <2>5 DEF HandleInv
<1>7. Database!TypeOK'
  <2>1. /\ lock' \in [Connections -> Seq(Callers \cup {Disposer})]
        /\ conn' \in [Connections -> Sessions]
    BY DatabaseFacts
  <2> QED
    BY <2>1, DatabaseTypedNext
<1> QED
  BY <1>2, <1>4, <1>5, <1>6, <1>7, CallerMoves

LEMMA AppendHead ==
  ASSUME NEW S, NEW s \in Seq(S), NEW x \in S
  PROVE  /\ Len(s) \in Nat /\ DOMAIN s = 1 .. Len(s)
         /\ Append(s, x) \in Seq(S) /\ DOMAIN Append(s, x) = 1 .. Len(s) + 1
         /\ \A i \in 1 .. Len(s) : Append(s, x)[i] = s[i]
         /\ Append(s, x)[Len(s) + 1] = x
         /\ s # <<>> => /\ Append(s, x) # <<>>
                        /\ Head(Append(s, x)) = Head(s)
<1>1. /\ Len(s) \in Nat /\ DOMAIN s = 1 .. Len(s)
      /\ Append(s, x) \in Seq(S) /\ Len(Append(s, x)) = Len(s) + 1
  OBVIOUS
<1>2. /\ \A i \in 1 .. Len(s) : Append(s, x)[i] = s[i]
      /\ Append(s, x)[Len(s) + 1] = x
  OBVIOUS
<1>3. DOMAIN Append(s, x) = 1 .. Len(s) + 1
  BY <1>1
<1>4. ASSUME s # <<>> PROVE /\ Append(s, x) # <<>>
                            /\ Head(Append(s, x)) = Head(s)
  <2>1. Len(s) # 0 /\ Head(s) = s[1]
    BY <1>4
  <2>2. Append(s, x) # <<>> /\ Head(Append(s, x)) = Append(s, x)[1]
    BY <1>1, <2>1
  <2> QED
    BY <1>1, <1>2, <2>1, <2>2
<1> QED
  BY <1>1, <1>2, <1>3, <1>4

LEMMA EnqueueKept ==
  ASSUME DatabaseInv, NEW c \in Callers, NEW k \in Connections,
         Database!At(c) = k, Database!Enqueue(c)
  PROVE  DatabaseInv'
<1> DEFINE s == lock[k]
<1>1. /\ command \in [Callers -> Commands] /\ tx \in [Callers -> Transactions]
      /\ lock \in [Connections -> Seq(Callers \cup {Disposer})]
      /\ conn \in [Connections -> Sessions]
      /\ handle \in [Connections -> Handles]
      /\ writer \in Connections \cup {NoConnection}
      /\ applied \in [Callers -> Nat] /\ errors \in 0 .. MaxErrors
      /\ command[c].at = k
  BY DatabaseFacts DEF Database!At
<1>2. /\ command[c].pc = "idle" /\ Database!Goto(c, "queued")
      /\ lock' = [lock EXCEPT ![k] = Append(s, c)]
      /\ tx' = [tx EXCEPT ![c] = Database!NoTransaction]
      /\ UNCHANGED <<conn, handle, writer, applied, errors>>
  BY DEF Database!Enqueue, Database!At
<1> HIDE DEF s
<1>3. /\ command' \in [Callers -> Commands] /\ command'[c].pc = "queued"
      /\ command'[c].at = k /\ command'[c].kind = command[c].kind
      /\ command'[c].outcome = command[c].outcome
      /\ \A d \in Callers \ {c} : command'[d] = command[d]
  BY <1>1, <1>2, Gone
<1>4. /\ tx' \in [Callers -> Transactions] /\ tx'[c] = Database!NoTransaction
      /\ \A d \in Callers \ {c} : tx'[d] = tx[d]
  BY <1>1, <1>2 DEF Transactions, Database!NoTransaction
<1>5. /\ s \in Seq(Callers \cup {Disposer}) /\ s = lock[k] /\ Len(s) \in Nat
      /\ DOMAIN s = 1 .. Len(s) /\ Append(s, c) \in Seq(Callers \cup {Disposer})
      /\ DOMAIN Append(s, c) = 1 .. Len(s) + 1
      /\ \A i \in 1 .. Len(s) : Append(s, c)[i] = s[i]
      /\ Append(s, c)[Len(s) + 1] = c
      /\ lock[k] # <<>> => /\ Append(s, c) # <<>>
                           /\ Head(Append(s, c)) = Head(lock[k])
  <2>1. s \in Seq(Callers \cup {Disposer}) /\ s = lock[k]
    BY <1>1 DEF s
  <2>2. c \in Callers \cup {Disposer}
    OBVIOUS
  <2> QED
    BY <2>1, <2>2, AppendHead
<1>6. /\ lock' \in [Connections -> Seq(Callers \cup {Disposer})]
      /\ lock'[k] = Append(s, c)
      /\ \A j \in Connections \ {k} : lock'[j] = lock[j]
  BY <1>1, <1>2, <1>5
<1>7. CallInv(c) /\ LinkInv(c) /\ HandleInv(k) /\ QueueInv(k)
  BY <1>1 DEF DatabaseInv
<1>8. ~Holding(c) /\ applied[c] = 0 /\ command[c].outcome = "none"
  BY <1>2, <1>7 DEF Holding, CallInv
<1>9. \A i \in DOMAIN s : s[i] # c
  BY <1>2, <1>5, <1>7, <1>8, DatabaseAssumption DEF QueueInv
<1>10. \A d \in Callers \ {c} : /\ Database!At(d)' = Database!At(d)
                                /\ Holding(d)' <=> Holding(d)
                                /\ command'[d].pc = command[d].pc
  BY <1>3, <1>4 DEF Holding, Database!At
<1>11. QueueInv(k)'
  <2>1. \A i, j \in 1 .. Len(s) + 1 :
          Append(s, c)[i] = Append(s, c)[j] => i = j
    BY <1>5, <1>7, <1>9 DEF QueueInv
  <2>2. ASSUME NEW i \in 1 .. Len(s) + 1
        PROVE  \/ Append(s, c)[i] = Disposer /\ conn'[k].dispose = "queued"
               \/ \E d \in Callers :
                    /\ Append(s, c)[i] = d /\ Database!At(d)' = k
                    /\ command'[d].pc = "queued" \/ Holding(d)'
    <3>1. CASE i = Len(s) + 1
      BY <1>3, <1>5, <3>1 DEF Database!At
    <3>2. CASE i \in 1 .. Len(s)
      BY <1>2, <1>5, <1>7, <1>9, <1>10, <3>2 DEF QueueInv
    <3> QED
      BY <1>5, <3>1, <3>2
  <2> DEFINE t == Append(s, c)
  <2>3. /\ \A i, j \in DOMAIN t : t[i] = t[j] => i = j
        /\ \A i \in DOMAIN t :
             \/ t[i] = Disposer /\ conn'[k].dispose = "queued"
             \/ \E d \in Callers :
                  /\ t[i] = d /\ Database!At(d)' = k
                  /\ command'[d].pc = "queued" \/ Holding(d)'
    BY <1>5, <2>1, <2>2
  <2>4. lock'[k] = t
    BY <1>6
  <2> HIDE DEF t
  <2> QED
    BY <2>3, <2>4 DEF QueueInv
<1>12. CallInv(c)'
  BY <1>2, <1>3, <1>4, <1>7, <1>8 DEF CallInv, Database!NoTransaction
<1>13. LinkInv(c)'
  BY <1>3, <1>4, <1>7, <1>8 DEF LinkInv, Holding, OnHandle, Cancelled, CallInv,
     Database!NoTransaction
<1>14. HandleInv(k)'
  <2>1. UNCHANGED <<conn, handle, writer>>
    BY <1>2
  <2>2. \A d \in Callers : Holding(d) =>
          /\ Holding(d)' /\ Database!At(d)' = Database!At(d)
          /\ command'[d].pc = command[d].pc /\ tx'[d] = tx[d]
    BY <1>4, <1>8, <1>10
  <2> QED
    BY <1>7, <2>1, <2>2 DEF HandleInv
<1>15. Database!TypeOK'
  BY <1>1, <1>2, <1>3, <1>4, <1>6, DatabaseTypedNext
<1>16. /\ lock[k] # <<>> => /\ lock'[k] # <<>>
                            /\ Head(lock'[k]) = Head(lock[k])
       /\ \A d \in Callers \ {c} : applied'[d] = applied[d]
       /\ \A j \in Connections \ {k} : /\ conn'[j] = conn[j]
                                        /\ handle'[j] = handle[j]
       /\ conn'[k] = conn[k] /\ handle'[k] = handle[k] /\ writer' = writer
  BY <1>2, <1>5, <1>6
<1> QED
  BY <1>1, <1>3, <1>4, <1>6, <1>11, <1>12, <1>13, <1>14, <1>15, <1>16,
     CallerMoves

LEMMA AcquireKept ==
  ASSUME DatabaseInv, NEW c \in Callers, NEW k \in Connections,
         Database!At(c) = k, Database!Acquire(c)
  PROVE  DatabaseInv'
<1>1. /\ command \in [Callers -> Commands] /\ tx \in [Callers -> Transactions]
      /\ lock \in [Connections -> Seq(Callers \cup {Disposer})]
      /\ conn \in [Connections -> Sessions]
      /\ handle \in [Connections -> Handles]
      /\ writer \in Connections \cup {NoConnection}
      /\ applied \in [Callers -> Nat] /\ errors \in 0 .. MaxErrors
      /\ command[c].at = k /\ MaxErrors \in Nat
  BY DatabaseFacts, DatabaseAssumption DEF Database!At
<1>2. command[c].pc = "queued" /\ Database!Holds(k, c)
  BY DEF Database!Acquire
<1>3. CallInv(c) /\ LinkInv(c) /\ HandleInv(k) /\ QueueInv(k)
  BY DEF DatabaseInv
<1>4. /\ tx[c] = Database!NoTransaction /\ command[c].outcome = "none"
      /\ applied[c] = 0
  BY <1>2, <1>3 DEF CallInv
<1>5. ~handle[k].open /\ conn[k].active = NoCaller
  BY <1>2, HeldBy
<1>6. CASE \E outcome \in Database!Failures :
             Database!GiveUp(c, outcome) /\ errors' \in 0 .. MaxErrors
  BY <1>2, <1>6, GivesUp
<1>7. ASSUME Database!Goto(c, Database!Ready(c)),
             UNCHANGED <<tx, lock, writer, applied, errors>>,
             conn' \in [Connections -> Sessions], conn'[k].initialized,
             conn'[k].state = conn[k].state, conn'[k].active = NoCaller,
             conn'[k].dispose = conn[k].dispose,
             handle' \in [Connections -> Handles], ~handle'[k].open,
             handle'[k].writes = handle[k].writes,
             handle'[k].pragmas \/ ~handle'[k].usable,
             \A j \in Connections \ {k} :
               conn'[j] = conn[j] /\ handle'[j] = handle[j]
      PROVE  DatabaseInv'
  <2>1. PICK pc \in {"begin", "single"} :
          /\ Database!Goto(c, pc)
          /\ pc = "begin" <=> command[c].kind = "transaction"
    BY <1>7 DEF Database!Ready
  <2>2. /\ command' \in [Callers -> Commands] /\ command'[c].pc = pc
        /\ command'[c].at = k /\ command'[c].kind = command[c].kind
        /\ command'[c].outcome = command[c].outcome
        /\ \A d \in Callers \ {c} : command'[d] = command[d]
    BY <1>1, <2>1, Gone
  <2>3. CallInv(c)'
    BY <1>4, <1>7, <2>1, <2>2 DEF CallInv, Database!NoTransaction
  <2>4. LinkInv(c)'
    BY <1>2, <1>4, <1>7, <2>1, <2>2
    DEF LinkInv, OnHandle, Cancelled, Database!At, Database!Holds,
        Database!NoTransaction
  <2>5. Holding(c)' /\ lock'[k] = lock[k]
    BY <1>7, <2>2 DEF Holding
  <2>6. QueueInv(k)'
    BY <1>1, <1>7, <2>2, <2>5, QueueStays
  <2>7. HandleInv(k)'
    BY <1>3, <1>5, <1>7, DatabaseAssumption DEF HandleInv
  <2>8. Database!TypeOK'
    BY <1>1, <1>7, <2>2, DatabaseTypedNext
  <2> QED
    BY <1>2, <1>7, <2>2, <2>3, <2>4, <2>6, <2>7, <2>8, CallerMoves
<1>8. CASE /\ conn[k].initialized /\ Database!Goto(c, Database!Ready(c))
           /\ UNCHANGED <<tx, lock, conn, handle, writer, applied, errors>>
  BY <1>1, <1>3, <1>5, <1>7, <1>8 DEF HandleInv
<1>9. CASE /\ handle' = [handle EXCEPT ![k].pragmas = TRUE]
           /\ conn' = [conn EXCEPT ![k].initialized = TRUE]
           /\ Database!Goto(c, Database!Ready(c))
           /\ UNCHANGED <<tx, lock, writer, applied, errors>>
  <2>1. /\ handle' \in [Connections -> Handles] /\ ~handle'[k].open
        /\ handle'[k].writes = handle[k].writes /\ handle'[k].pragmas
        /\ \A j \in Connections \ {k} : handle'[j] = handle[j]
    BY <1>1, <1>5, <1>9 DEF Handles
  <2>2. /\ conn' \in [Connections -> Sessions] /\ conn'[k].initialized
        /\ conn'[k].state = conn[k].state /\ conn'[k].active = NoCaller
        /\ conn'[k].dispose = conn[k].dispose
        /\ \A j \in Connections \ {k} : conn'[j] = conn[j]
    BY <1>1, <1>5, <1>9 DEF Sessions
  <2> QED
    BY <1>7, <1>9, <2>1, <2>2
<1> QED
  BY <1>1, <1>6, <1>8, <1>9
  DEF Database!Acquire, Database!Initialized, Database!Fault, Database!Refused,
      Database!Failures

LEMMA BeginKept ==
  ASSUME DatabaseInv, NEW c \in Callers, NEW k \in Connections,
         Database!At(c) = k, Database!Begin(c)
  PROVE  DatabaseInv'
<1>1. /\ command \in [Callers -> Commands] /\ tx \in [Callers -> Transactions]
      /\ lock \in [Connections -> Seq(Callers \cup {Disposer})]
      /\ conn \in [Connections -> Sessions]
      /\ handle \in [Connections -> Handles]
      /\ writer \in Connections \cup {NoConnection}
      /\ applied \in [Callers -> Nat] /\ errors \in 0 .. MaxErrors
      /\ command[c].at = k /\ MaxErrors \in Nat
  BY DatabaseFacts, DatabaseAssumption DEF Database!At
<1>2. CallInv(c) /\ LinkInv(c) /\ HandleInv(k)
  BY DEF DatabaseInv
<1>3. command[c].pc = "begin" /\ Holding(c) /\ Database!Holds(k, c)
  BY <1>2 DEF Database!Begin, Holding, LinkInv
<1>4. /\ tx[c] = Database!NoTransaction /\ command[c].outcome = "none"
      /\ applied[c] = 0 /\ command[c].kind = "transaction"
      /\ conn[k].initialized
  BY <1>2, <1>3 DEF CallInv, LinkInv, OnHandle
<1>5. ~handle[k].open /\ conn[k].active = NoCaller
  BY <1>3, HeldBy
<1>6. CASE \E outcome \in Database!Failures :
             Database!GiveUp(c, outcome) /\ errors' \in 0 .. MaxErrors
  BY <1>3, <1>6, GivesUp
<1>7. CASE /\ handle' = [handle EXCEPT ![k].open = TRUE] /\ writer' = k
           /\ Database!FileFree(k) /\ Database!Goto(c, "begun")
           /\ UNCHANGED <<tx, lock, conn, applied, errors>>
  <2>1. /\ handle' \in [Connections -> Handles] /\ handle'[k].open
        /\ handle'[k].writes = handle[k].writes
        /\ handle'[k].pragmas = handle[k].pragmas
        /\ handle'[k].usable = handle[k].usable
        /\ \A j \in Connections \ {k} : handle'[j] = handle[j]
    BY <1>1, <1>7 DEF Handles
  <2>2. /\ command' \in [Callers -> Commands] /\ command'[c].pc = "begun"
        /\ command'[c].at = k /\ command'[c].kind = command[c].kind
        /\ command'[c].outcome = command[c].outcome
        /\ \A d \in Callers \ {c} : command'[d] = command[d]
    BY <1>1, <1>7, Gone
  <2>3. \A j \in Connections \ {k} : writer' = j <=> writer = j
    BY <1>7, DatabaseAssumption DEF Database!FileFree
  <2>4. CallInv(c)'
    BY <1>4, <1>7, <2>2 DEF CallInv, Database!NoTransaction
  <2>5. LinkInv(c)'
    BY <1>3, <1>4, <1>7, <2>1, <2>2
    DEF LinkInv, OnHandle, Cancelled, Database!At, Database!Holds,
        Database!NoTransaction
  <2>6. Holding(c)' /\ Database!At(c)' = k /\ lock'[k] = lock[k]
    BY <1>7, <2>2 DEF Holding, Database!At
  <2>7. QueueInv(k)'
    BY <1>1, <1>7, <2>2, <2>6, QueueStays
  <2>8. HandleInv(k)'
    <3>1. handle'[k].writes = {} /\ writer' = k /\ tx'[c].step # "finish"
      BY <1>2, <1>4, <1>5, <1>7, <2>1 DEF HandleInv, Database!NoTransaction
    <3>2. UNCHANGED conn
      BY <1>7
    <3> QED
      BY <1>2, <1>5, <2>1, <2>2, <2>6, <3>1, <3>2, DatabaseAssumption
      DEF HandleInv
  <2>9. Database!TypeOK'
    BY <1>1, <1>7, <2>1, <2>2, DatabaseTypedNext
  <2> QED
    BY <1>3, <1>7, <2>1, <2>2, <2>3, <2>4, <2>5, <2>7, <2>8, <2>9, CallerMoves
<1> QED
  BY <1>1, <1>6, <1>7
  DEF Database!Begin, Database!Fault, Database!Refused, Database!Failures

LEMMA BegunKept ==
  ASSUME DatabaseInv, NEW c \in Callers, NEW k \in Connections,
         Database!At(c) = k, Database!Begun(c)
  PROVE  DatabaseInv'
<1>1. /\ command \in [Callers -> Commands] /\ tx \in [Callers -> Transactions]
      /\ lock \in [Connections -> Seq(Callers \cup {Disposer})]
      /\ conn \in [Connections -> Sessions]
      /\ handle \in [Connections -> Handles]
      /\ writer \in Connections \cup {NoConnection}
      /\ applied \in [Callers -> Nat] /\ errors \in 0 .. MaxErrors
      /\ command[c].at = k
  BY DatabaseFacts DEF Database!At
<1>2. CallInv(c) /\ LinkInv(c) /\ HandleInv(k)
  BY DEF DatabaseInv
<1>3. command[c].pc = "begun" /\ Holding(c) /\ Database!Holds(k, c)
  BY <1>2 DEF Database!Begun, Holding, LinkInv
<1>4. /\ tx[c] = Database!NoTransaction /\ command[c].outcome = "none"
      /\ applied[c] = 0 /\ command[c].kind = "transaction"
      /\ conn[k].initialized /\ handle[k].open
  BY <1>2, <1>3 DEF CallInv, LinkInv, OnHandle
<1>5. handle[k].writes \subseteq {c} /\ conn[k].active = NoCaller
  BY <1>3, <1>4, HeldBy
<1>6. /\ conn' = [conn EXCEPT ![k].active = c]
      /\ UNCHANGED <<lock, handle, writer, applied, errors>>
  BY DEF Database!Begun
<1>7. /\ conn' \in [Connections -> Sessions] /\ conn'[k].active = c
      /\ conn'[k].state = conn[k].state /\ conn'[k].dispose = conn[k].dispose
      /\ conn'[k].initialized = conn[k].initialized
      /\ \A j \in Connections \ {k} : conn'[j] = conn[j]
  BY <1>1, <1>6 DEF Sessions
<1>8. ASSUME tx' \in [Callers -> Transactions],
             \A d \in Callers \ {c} : tx'[d] = tx[d],
             \/ /\ Database!Goto(c, "open") /\ tx'[c].state = "active"
                /\ tx'[c].step = "none" /\ tx'[c].by = "nobody"
                /\ tx'[c].error = "none"
             \/ /\ Database!Goto(c, "ending") /\ tx'[c].state = "terminating"
                /\ tx'[c].step = "undo" /\ tx'[c].by = "caller"
                /\ tx'[c].error = "error"
      PROVE  DatabaseInv'
  <2>1. PICK pc \in {"open", "ending"} :
          /\ Database!Goto(c, pc)
          /\ pc = "open" => /\ tx'[c].state = "active" /\ tx'[c].step = "none"
                            /\ tx'[c].by = "nobody" /\ tx'[c].error = "none"
          /\ pc = "ending" =>
               /\ tx'[c].state = "terminating" /\ tx'[c].step = "undo"
               /\ tx'[c].by = "caller" /\ tx'[c].error = "error"
    BY <1>8
  <2>2. /\ command' \in [Callers -> Commands] /\ command'[c].pc = pc
        /\ command'[c].at = k /\ command'[c].kind = command[c].kind
        /\ command'[c].outcome = command[c].outcome
        /\ \A d \in Callers \ {c} : command'[d] = command[d]
    BY <1>1, <2>1, Gone
  <2>3. CallInv(c)'
    BY <1>4, <1>6, <2>1, <2>2 DEF CallInv
  <2>4. LinkInv(c)'
    BY <1>3, <1>4, <1>6, <1>7, <2>1, <2>2
    DEF LinkInv, OnHandle, Cancelled, Database!At, Database!Holds
  <2>5. Holding(c)' /\ Database!At(c)' = k
    BY <2>1, <2>2 DEF Holding, Database!At
  <2>6. QueueInv(k)'
    BY <1>1, <1>6, <1>7, <1>8, <2>2, <2>5, QueueStays
  <2>7. HandleInv(k)'
    <3>1. UNCHANGED <<handle, writer>> /\ tx'[c].step # "finish"
      BY <1>6, <2>1
    <3> QED
      BY <1>2, <1>4, <1>5, <1>7, <2>2, <2>5, <3>1 DEF HandleInv
  <2>8. Database!TypeOK'
    BY <1>1, <1>6, <1>7, <1>8, <2>2, DatabaseTypedNext
  <2> QED
    BY <1>3, <1>6, <1>7, <1>8, <2>2, <2>3, <2>4, <2>6, <2>7, <2>8, CallerMoves
<1>9. CASE conn[k].state # "open"
  <2>1. /\ Database!Goto(c, "ending")
        /\ tx' = [tx EXCEPT ![c] = [state |-> "terminating", step |-> "undo",
                                    by |-> "caller", error |-> "error"]]
    BY <1>1, <1>9 DEF Database!Begun, Database!TxMoves, Database!At
  <2> QED
    BY <1>1, <1>8, <2>1 DEF Transactions, Database!Failures
<1>10. CASE conn[k].state = "open"
  <2>1. /\ Database!Goto(c, "open")
        /\ tx' = [tx EXCEPT ![c] = [state |-> "active", step |-> "none",
                                    by |-> "nobody", error |-> "none"]]
    BY <1>1, <1>10 DEF Database!Begun, Database!TxMoves, Database!At
  <2> QED
    BY <1>1, <1>8, <2>1 DEF Transactions, Database!Failures
<1> QED
  BY <1>9, <1>10

LEMMA SingleKept ==
  ASSUME DatabaseInv, NEW c \in Callers, NEW k \in Connections,
         Database!At(c) = k, Database!Single(c)
  PROVE  DatabaseInv'
<1>1. /\ command \in [Callers -> Commands] /\ tx \in [Callers -> Transactions]
      /\ lock \in [Connections -> Seq(Callers \cup {Disposer})]
      /\ conn \in [Connections -> Sessions]
      /\ handle \in [Connections -> Handles]
      /\ writer \in Connections \cup {NoConnection}
      /\ applied \in [Callers -> Nat] /\ errors \in 0 .. MaxErrors
      /\ command[c].at = k /\ MaxErrors \in Nat
  BY DatabaseFacts, DatabaseAssumption DEF Database!At
<1>2. CallInv(c) /\ LinkInv(c) /\ HandleInv(k)
  BY DEF DatabaseInv
<1>3. command[c].pc = "single" /\ Holding(c) /\ Database!Holds(k, c)
  BY <1>2 DEF Database!Single, Holding, LinkInv
<1>4. /\ tx[c] = Database!NoTransaction /\ command[c].outcome = "none"
      /\ applied[c] = 0
  BY <1>2, <1>3 DEF CallInv
<1>5. ~handle[k].open /\ conn[k].active = NoCaller
  BY <1>3, HeldBy
<1>6. CASE \E outcome \in Database!Failures :
             Database!GiveUp(c, outcome) /\ errors' \in 0 .. MaxErrors
  BY <1>3, <1>6, GivesUp
<1>7. CASE /\ applied' = [applied EXCEPT ![c] = @ + 1] /\ handle' = handle
           /\ Database!Answer(c, "ok") /\ Database!Release(k)
           /\ UNCHANGED <<tx, conn, writer, errors>>
  <2>1. /\ command' \in [Callers -> Commands] /\ command'[c].at = k
        /\ command'[c].pc = "done" /\ command'[c].outcome = "ok"
        /\ \A d \in Callers \ {c} : command'[d] = command[d]
    BY <1>1, <1>7, Answered
  <2>2. /\ applied' \in [Callers -> Nat] /\ applied'[c] = 1
        /\ \A d \in Callers \ {c} : applied'[d] = applied[d]
    BY <1>1, <1>4, <1>7
  <2>3. /\ lock' \in [Connections -> Seq(Callers \cup {Disposer})]
        /\ \A j \in Connections \ {k} : lock'[j] = lock[j]
        /\ QueueInv(k)'
    BY <1>3, <1>7, <2>1, QueueReleased
  <2>4. CallInv(c)'
    BY <1>4, <1>7, <2>1, <2>2 DEF CallInv, Database!NoTransaction
  <2>5. LinkInv(c)'
    BY <1>4, <1>7, <2>1, <2>2
    DEF LinkInv, Holding, OnHandle, Cancelled, Database!NoTransaction
  <2>6. HandleInv(k)'
    BY <1>2, <1>5, <1>7, DatabaseAssumption DEF HandleInv
  <2>7. Database!TypeOK'
    BY <1>1, <1>7, <2>1, <2>2, <2>3, DatabaseTypedNext
  <2> QED
    BY <1>3, <1>7, <2>1, <2>2, <2>3, <2>4, <2>5, <2>6, <2>7, CallerMoves
<1> QED
  BY <1>1, <1>5, <1>6, <1>7
  DEF Database!Single, Database!Fault, Database!Refused, Database!Failures

-----------------------------------------------------------------------------
(* The steps of a transaction                                              *)

LEMMA TxMoved ==
  ASSUME tx \in [Callers -> Transactions], NEW c \in Callers,
         NEW state \in {"none", "active", "terminating", "closed"},
         NEW at \in {"none", "statement", "commit", "undo", "undoCommit",
                     "recover", "finish"},
         NEW by \in {"nobody", "caller", "dispose"},
         NEW error \in {"none"} \cup Database!Failures,
         Database!TxMoves(c, state, at, by, error)
  PROVE  /\ tx' \in [Callers -> Transactions]
         /\ tx'[c].state = state /\ tx'[c].step = at /\ tx'[c].by = by
         /\ tx'[c].error = error
         /\ \A d \in Callers \ {c} : tx'[d] = tx[d]
BY DEF Database!TxMoves, Transactions

(* A transaction with an operation under way has the connection.           *)
LEMMA AtWork ==
  ASSUME DatabaseInv, NEW c \in Callers, tx[c].step # "none"
  PROVE  /\ command[c].pc \in {"open", "ending"} /\ tx[c].state # "closed"
         /\ Holding(c) /\ command[c].outcome = "none"
         /\ tx[c].step # "finish" => applied[c] = 0
         /\ tx[c].by \in {"caller", "dispose"}
         /\ command[c].kind = "transaction"
<1>1. /\ command[c].pc \in {"idle", "queued", "begin", "begun", "single", "open",
                            "ending", "done"}
      /\ tx[c].by \in {"nobody", "caller", "dispose"}
  BY DatabaseFacts DEF Commands, Transactions
<1>2. CallInv(c)
  BY DEF DatabaseInv
<1>3. command[c].pc \in {"open", "ending"}
  BY <1>1, <1>2 DEF CallInv, Database!NoTransaction
<1> QED
  BY <1>1, <1>2, <1>3 DEF CallInv, Holding

(* A transaction that dispose has closed answers at once.                  *)
LEMMA ClosedAnswers ==
  ASSUME DatabaseInv, NEW c \in Callers, NEW k \in Connections,
         Database!At(c) = k, command[c].pc = "open", tx[c].state = "closed",
         NEW outcome \in {"ok", "error"}, Database!Answer(c, outcome),
         UNCHANGED <<tx, lock, conn, handle, writer, applied, errors>>
  PROVE  DatabaseInv'
<1>1. /\ command \in [Callers -> Commands] /\ tx \in [Callers -> Transactions]
      /\ lock \in [Connections -> Seq(Callers \cup {Disposer})]
      /\ conn \in [Connections -> Sessions]
      /\ handle \in [Connections -> Handles]
      /\ writer \in Connections \cup {NoConnection}
      /\ applied \in [Callers -> Nat] /\ errors \in 0 .. MaxErrors
      /\ command[c].at = k
  BY DatabaseFacts DEF Database!At
<1>2. CallInv(c) /\ LinkInv(c) /\ HandleInv(k) /\ ~Holding(c)
  BY DEF DatabaseInv, Holding
<1>3. /\ tx[c].step = "none" /\ command[c].outcome = "none" /\ applied[c] = 0
      /\ conn[k].state # "open"
  BY <1>2 DEF CallInv, LinkInv, Cancelled
<1>4. /\ command' \in [Callers -> Commands] /\ command'[c].at = k
      /\ command'[c].pc = "done" /\ command'[c].outcome = outcome
      /\ \A d \in Callers \ {c} : command'[d] = command[d]
  BY <1>1, Answered
<1>5. CallInv(c)'
  BY <1>2, <1>3, <1>4 DEF CallInv
<1>6. LinkInv(c)'
  BY <1>2, <1>3, <1>4
  DEF LinkInv, CallInv, Holding, OnHandle, Cancelled, Database!At
<1>7. QueueInv(k)'
  BY <1>1, <1>2, <1>4, QueueStays
<1>8. HandleInv(k)'
  <2>1. \A d \in Callers : Holding(d) =>
          /\ Holding(d)' /\ Database!At(d)' = Database!At(d)
          /\ command'[d].pc = command[d].pc
    BY <1>2, <1>4 DEF Holding, Database!At
  <2> QED
    BY <1>2, <2>1 DEF HandleInv
<1>9. Database!TypeOK'
  BY <1>1, <1>4, DatabaseTypedNext
<1> QED
  BY <1>4, <1>5, <1>6, <1>7, <1>8, <1>9, CallerMoves

LEMMA IssueKept ==
  ASSUME DatabaseInv, NEW c \in Callers, NEW k \in Connections,
         Database!At(c) = k, Database!Issue(c)
  PROVE  DatabaseInv'
<1>1. /\ command \in [Callers -> Commands] /\ tx \in [Callers -> Transactions]
      /\ handle \in [Connections -> Handles]
      /\ writer \in Connections \cup {NoConnection}
      /\ applied \in [Callers -> Nat] /\ errors \in 0 .. MaxErrors
      /\ command[c].at = k
  BY DatabaseFacts DEF Database!At
<1>2. CallInv(c) /\ LinkInv(c) /\ HandleInv(k)
  BY DEF DatabaseInv
<1>3. /\ command[c].pc = "open" /\ tx[c].by = "nobody"
      /\ UNCHANGED <<lock, conn, handle, writer, applied, errors>>
  BY DEF Database!Issue, Database!IssueStatement, Database!IssueCommit,
     Database!IssueRollback, Database!TxFree
<1>4. CASE tx[c].state = "closed"
  BY <1>3, <1>4, ClosedAnswers
  DEF Database!Issue, Database!IssueStatement, Database!IssueCommit,
      Database!IssueRollback
<1>5. CASE tx[c].state # "closed"
  <2>1. /\ tx[c].state = "active" /\ tx[c].step = "none" /\ tx[c].error = "none"
        /\ Holding(c) /\ OnHandle(c) /\ handle[k].open
        /\ command[c].outcome = "none" /\ applied[c] = 0
        /\ command[c].kind = "transaction"
    BY <1>2, <1>3, <1>5 DEF CallInv, LinkInv, Holding, OnHandle
  <2>2. CASE /\ Database!TxMoves(c, "active", "statement", "caller", "none")
             /\ UNCHANGED command
    <3>1. /\ tx' \in [Callers -> Transactions] /\ tx'[c].state = "active"
          /\ tx'[c].step = "statement" /\ tx'[c].by = "caller"
          /\ tx'[c].error = "none"
          /\ \A d \in Callers \ {c} : tx'[d] = tx[d]
      BY <1>1, <2>2, TxMoved
    <3>2. CallInv(c)'
      BY <1>3, <2>1, <2>2, <3>1 DEF CallInv
    <3> QED
      BY <1>1, <1>2, <1>3, <2>1, <2>2, <3>1, <3>2, HolderWorks DEF HandleInv
  <2>3. ASSUME NEW at \in {"commit", "undo"}, NEW error \in {"none", "error"},
               at = "commit" <=> error = "none",
               at = "commit" => c \in handle[k].writes,
               Database!TxMoves(c, "terminating", at, "caller", error),
               Database!Goto(c, "ending")
        PROVE  DatabaseInv'
    <3>1. /\ tx' \in [Callers -> Transactions] /\ tx'[c].state = "terminating"
          /\ tx'[c].step = at /\ tx'[c].by = "caller" /\ tx'[c].error = error
          /\ \A d \in Callers \ {c} : tx'[d] = tx[d]
      BY <1>1, <2>3, TxMoved DEF Database!Failures
    <3>2. /\ command' \in [Callers -> Commands] /\ command'[c].pc = "ending"
          /\ command'[c].at = k /\ command'[c].kind = command[c].kind
          /\ command'[c].outcome = command[c].outcome
          /\ \A d \in Callers \ {c} : command'[d] = command[d]
      BY <1>1, <2>3, Gone
    <3>3. CallInv(c)'
      BY <1>3, <2>1, <2>3, <3>1, <3>2 DEF CallInv
    <3> QED
      BY <1>1, <1>2, <1>3, <2>1, <2>3, <3>1, <3>2, <3>3, HolderWorks
      DEF HandleInv
  <2>4. CASE Database!IssueStatement(c)
    BY <1>5, <2>1, <2>2, <2>4 DEF Database!IssueStatement, Database!Run
  <2>5. CASE Database!IssueCommit(c)
    BY <1>1, <1>5, <2>1, <2>3, <2>5
    DEF Database!IssueCommit, Database!Run, Database!Wrote, Database!At
  <2>6. CASE Database!IssueRollback(c)
    BY <1>5, <2>1, <2>3, <2>6 DEF Database!IssueRollback
  <2> QED
    BY <2>4, <2>5, <2>6 DEF Database!Issue
<1> QED
  BY <1>4, <1>5

LEMMA StatementKept ==
  ASSUME DatabaseInv, NEW c \in Callers, NEW k \in Connections,
         Database!At(c) = k, Database!Statement(c)
  PROVE  DatabaseInv'
<1>1. /\ command \in [Callers -> Commands] /\ tx \in [Callers -> Transactions]
      /\ handle \in [Connections -> Handles]
      /\ writer \in Connections \cup {NoConnection}
      /\ applied \in [Callers -> Nat] /\ errors \in 0 .. MaxErrors
      /\ command[c].at = k /\ MaxErrors \in Nat
  BY DatabaseFacts, DatabaseAssumption DEF Database!At
<1>2. CallInv(c) /\ LinkInv(c) /\ HandleInv(k)
  BY DEF DatabaseInv
<1>3. tx[c].step = "statement" /\ UNCHANGED <<lock, conn>>
  BY DEF Database!Statement
<1>4. /\ command[c].pc \in {"open", "ending"} /\ Holding(c)
      /\ command[c].outcome = "none" /\ applied[c] = 0
      /\ command[c].kind = "transaction"
  BY <1>3, AtWork
<1>5. /\ command[c].pc = "open" /\ tx[c].state = "active"
      /\ tx[c].by = "caller" /\ tx[c].error = "none" /\ OnHandle(c)
      /\ handle[k].open
  <2>1. tx[c].by \in {"nobody", "caller", "dispose"}
    BY <1>1 DEF Transactions
  <2>2. command[c].pc = "open" /\ tx[c].state = "active"
        /\ tx[c].by = "caller" /\ tx[c].error = "none"
    BY <1>2, <1>3, <1>4, <2>1 DEF CallInv
  <2> QED
    BY <1>2, <2>2 DEF LinkInv, OnHandle
<1>6. CASE /\ handle' = [handle EXCEPT ![k].writes = @ \cup {c}]
           /\ Database!TxMoves(c, "active", "none", "nobody", "none")
           /\ UNCHANGED <<command, writer, applied, errors>>
  <2>1. /\ handle' \in [Connections -> Handles]
        /\ handle'[k].writes = handle[k].writes \cup {c}
        /\ handle'[k].open = handle[k].open
        /\ handle'[k].pragmas = handle[k].pragmas
        /\ handle'[k].usable = handle[k].usable
        /\ \A j \in Connections \ {k} : handle'[j] = handle[j]
    BY <1>1, <1>6 DEF Handles
  <2>2. /\ tx' \in [Callers -> Transactions] /\ tx'[c].state = "active"
        /\ tx'[c].step = "none" /\ tx'[c].by = "nobody"
        /\ tx'[c].error = "none"
        /\ \A d \in Callers \ {c} : tx'[d] = tx[d]
    BY <1>1, <1>6, TxMoved
  <2>3. CallInv(c)'
    BY <1>4, <1>5, <1>6, <2>2 DEF CallInv
  <2> QED
    BY <1>1, <1>2, <1>3, <1>4, <1>5, <1>6, <2>1, <2>2, <2>3, HolderWorks
    DEF HandleInv
<1>7. CASE /\ Database!TxMoves(c, "terminating", "undo", "caller", "error")
           /\ Database!Goto(c, "ending")
           /\ UNCHANGED <<handle, writer>> \/ Database!Undo(k)
           /\ applied' = applied /\ errors' \in 0 .. MaxErrors
  <2>1. /\ tx' \in [Callers -> Transactions] /\ tx'[c].state = "terminating"
        /\ tx'[c].step = "undo" /\ tx'[c].by = "caller"
        /\ tx'[c].error = "error"
        /\ \A d \in Callers \ {c} : tx'[d] = tx[d]
    BY <1>1, <1>7, TxMoved DEF Database!Failures
  <2>2. /\ command' \in [Callers -> Commands] /\ command'[c].pc = "ending"
        /\ command'[c].at = k /\ command'[c].kind = command[c].kind
        /\ command'[c].outcome = command[c].outcome
        /\ \A d \in Callers \ {c} : command'[d] = command[d]
    BY <1>1, <1>7, Gone
  <2>3. CallInv(c)'
    BY <1>4, <1>5, <1>7, <2>1, <2>2 DEF CallInv
  <2>4. CASE UNCHANGED <<handle, writer>>
    BY <1>1, <1>2, <1>3, <1>4, <1>5, <1>7, <2>1, <2>2, <2>3, <2>4, HolderWorks
    DEF HandleInv
  <2>5. CASE Database!Undo(k)
    <3>1. /\ handle' \in [Connections -> Handles] /\ ~handle'[k].open
          /\ handle'[k].writes = {} /\ handle'[k].pragmas = handle[k].pragmas
          /\ handle'[k].usable = handle[k].usable
          /\ \A j \in Connections \ {k} : handle'[j] = handle[j]
          /\ writer' \in Connections \cup {NoConnection} /\ writer' # k
          /\ \A j \in Connections \ {k} : writer' = j <=> writer = j
      BY <1>1, <2>5, Undone
    <3> QED
      BY <1>1, <1>2, <1>3, <1>4, <1>5, <1>7, <2>1, <2>2, <2>3, <3>1, HolderWorks
      DEF HandleInv
  <2> QED
    BY <1>7, <2>4, <2>5
<1>8. CASE handle[k].usable /\ handle[k].open
           /\ handle' = [handle EXCEPT ![k].writes = @ \cup {c}]
           /\ applied' = applied
           /\ Database!TxMoves(c, tx[c].state, "none", "nobody", tx[c].error)
           /\ UNCHANGED <<command, writer, errors>>
  BY <1>5, <1>6, <1>8
<1>9. CASE /\ errors' \in 0 .. MaxErrors
           /\ Database!TxMoves(c, "terminating", "undo", tx[c].by, "error")
           /\ Database!Goto(c, "ending")
           /\ UNCHANGED <<handle, writer>> \/ Database!Undo(k)
           /\ UNCHANGED applied
  BY <1>5, <1>7, <1>9
<1> QED
  BY <1>1, <1>5, <1>8, <1>9
  DEF Database!Statement, Database!Fault, Database!Refused, Database!At

LEMMA CommitKept ==
  ASSUME DatabaseInv, NEW c \in Callers, NEW k \in Connections,
         Database!At(c) = k, Database!Commit(c)
  PROVE  DatabaseInv'
<1>1. /\ command \in [Callers -> Commands] /\ tx \in [Callers -> Transactions]
      /\ handle \in [Connections -> Handles]
      /\ writer \in Connections \cup {NoConnection}
      /\ applied \in [Callers -> Nat] /\ errors \in 0 .. MaxErrors
      /\ command[c].at = k /\ MaxErrors \in Nat
  BY DatabaseFacts, DatabaseAssumption DEF Database!At
<1>2. CallInv(c) /\ LinkInv(c) /\ HandleInv(k)
  BY DEF DatabaseInv
<1>3. tx[c].step = "commit" /\ UNCHANGED <<command, lock, conn>>
  BY DEF Database!Commit
<1>4. /\ command[c].pc \in {"open", "ending"} /\ Holding(c)
      /\ command[c].outcome = "none" /\ applied[c] = 0
      /\ command[c].kind = "transaction"
  BY <1>3, AtWork
<1>5. /\ command[c].pc = "ending" /\ tx[c].state = "terminating"
      /\ tx[c].by = "caller" /\ tx[c].error = "none"
      /\ c \in handle[k].writes
  BY <1>2, <1>3, <1>4 DEF CallInv, LinkInv
<1>6. handle[k].writes \subseteq {c}
  <2>1. Database!Holds(k, c)
    BY <1>2, <1>4 DEF LinkInv
  <2> QED
    BY <1>2, <1>5, <2>1, HeldBy DEF HandleInv
<1>7. CASE /\ applied' = [d \in Callers |->
                applied[d] + IF d \in handle[k].writes THEN 1 ELSE 0]
           /\ Database!Undo(k)
           /\ Database!TxMoves(c, "terminating", "finish", "caller", "none")
           /\ errors' = errors
  <2>1. /\ applied' \in [Callers -> Nat] /\ applied'[c] = 1
        /\ \A d \in Callers \ {c} : applied'[d] = applied[d]
    BY <1>1, <1>4, <1>5, <1>6, <1>7
  <2>2. /\ tx' \in [Callers -> Transactions] /\ tx'[c].state = "terminating"
        /\ tx'[c].step = "finish" /\ tx'[c].by = "caller"
        /\ tx'[c].error = "none"
        /\ \A d \in Callers \ {c} : tx'[d] = tx[d]
    BY <1>1, <1>7, TxMoved
  <2>3. CallInv(c)'
    BY <1>3, <1>4, <1>5, <2>1, <2>2 DEF CallInv
  <2>4. /\ handle' \in [Connections -> Handles] /\ ~handle'[k].open
        /\ handle'[k].writes = {} /\ handle'[k].pragmas = handle[k].pragmas
        /\ handle'[k].usable = handle[k].usable
        /\ \A j \in Connections \ {k} : handle'[j] = handle[j]
        /\ writer' \in Connections \cup {NoConnection} /\ writer' # k
        /\ \A j \in Connections \ {k} : writer' = j <=> writer = j
    BY <1>1, <1>7, Undone
  <2> QED
    BY <1>1, <1>2, <1>3, <1>4, <1>5, <1>7, <2>1, <2>2, <2>3, <2>4, HolderWorks
    DEF HandleInv
<1>8. ASSUME NEW kind \in Database!Failures,
             Database!TxMoves(c, "terminating", "undoCommit", "caller", kind),
             UNCHANGED <<handle, writer>> \/ Database!Undo(k),
             applied' = applied, errors' \in 0 .. MaxErrors
      PROVE  DatabaseInv'
  <2>1. /\ tx' \in [Callers -> Transactions] /\ tx'[c].state = "terminating"
        /\ tx'[c].step = "undoCommit" /\ tx'[c].by = "caller"
        /\ tx'[c].error = kind /\ kind # "none"
        /\ \A d \in Callers \ {c} : tx'[d] = tx[d]
    BY <1>1, <1>8, TxMoved DEF Database!Failures
  <2>2. CallInv(c)'
    BY <1>3, <1>4, <1>5, <1>8, <2>1 DEF CallInv
  <2>3. CASE UNCHANGED <<handle, writer>>
    BY <1>1, <1>2, <1>3, <1>4, <1>5, <1>8, <2>1, <2>2, <2>3, HolderWorks
    DEF HandleInv
  <2>4. CASE Database!Undo(k)
    <3>1. /\ handle' \in [Connections -> Handles] /\ ~handle'[k].open
          /\ handle'[k].writes = {} /\ handle'[k].pragmas = handle[k].pragmas
          /\ handle'[k].usable = handle[k].usable
          /\ \A j \in Connections \ {k} : handle'[j] = handle[j]
          /\ writer' \in Connections \cup {NoConnection} /\ writer' # k
          /\ \A j \in Connections \ {k} : writer' = j <=> writer = j
      BY <1>1, <2>4, Undone
    <3> QED
      BY <1>1, <1>2, <1>3, <1>4, <1>5, <1>8, <2>1, <2>2, <3>1, HolderWorks
      DEF HandleInv
  <2> QED
    BY <1>8, <2>3, <2>4
<1> QED
  BY <1>1, <1>5, <1>7, <1>8
  DEF Database!Commit, Database!TxGoto, Database!Fault, Database!Refused,
      Database!At

LEMMA RollbackKept ==
  ASSUME DatabaseInv, NEW c \in Callers, NEW k \in Connections,
         Database!At(c) = k, Database!Rollback(c)
  PROVE  DatabaseInv'
<1>1. /\ command \in [Callers -> Commands] /\ tx \in [Callers -> Transactions]
      /\ handle \in [Connections -> Handles]
      /\ writer \in Connections \cup {NoConnection}
      /\ applied \in [Callers -> Nat] /\ errors \in 0 .. MaxErrors
      /\ command[c].at = k /\ MaxErrors \in Nat
  BY DatabaseFacts, DatabaseAssumption DEF Database!At
<1>2. CallInv(c) /\ LinkInv(c) /\ HandleInv(k)
  BY DEF DatabaseInv
<1>3. /\ tx[c].step \in {"undo", "undoCommit"}
      /\ UNCHANGED <<command, lock, conn, applied>>
  BY DEF Database!Rollback
<1>4. /\ command[c].pc \in {"open", "ending"} /\ Holding(c)
      /\ command[c].outcome = "none" /\ applied[c] = 0
      /\ command[c].kind = "transaction"
  BY <1>3, AtWork
<1>5. /\ tx[c].state = "terminating" /\ tx[c].by \in {"caller", "dispose"}
      /\ command[c].pc = "open" <=> tx[c].by = "dispose"
      /\ command[c].pc = "ending" => tx[c].error # "none"
      /\ tx[c].error \in {"none"} \cup Database!Failures
  BY <1>1, <1>2, <1>3, <1>4 DEF CallInv, Transactions
<1>6. ASSUME NEW failed \in BOOLEAN, errors' \in 0 .. MaxErrors,
             Database!TxGoto(c, Database!AfterUndo(c, failed)),
             IF failed THEN UNCHANGED <<handle, writer>> ELSE Database!Undo(k)
      PROVE  DatabaseInv'
  <2>1. PICK at \in {"none", "statement", "commit", "undo", "undoCommit",
                     "recover", "finish"},
             by \in {"nobody", "caller", "dispose"},
             error \in {"none"} \cup Database!Failures :
          /\ Database!TxMoves(c, "terminating", at, by, error)
          /\ at = "recover" \/ (at = "finish" /\ ~failed)
          /\ by = tx[c].by /\ error = tx[c].error
    <3>1. PICK at \in {"recover", "finish"} :
            /\ at = Database!AfterUndo(c, failed) /\ (at = "finish" => ~failed)
      BY DEF Database!AfterUndo
    <3>2. Database!TxMoves(c, "terminating", at, tx[c].by, tx[c].error)
      BY <1>5, <1>6, <3>1 DEF Database!TxGoto
    <3> QED
      BY <1>5, <3>1, <3>2
  <2>2. /\ tx' \in [Callers -> Transactions] /\ tx'[c].state = "terminating"
        /\ tx'[c].step = at /\ tx'[c].by = tx[c].by
        /\ tx'[c].error = tx[c].error
        /\ \A d \in Callers \ {c} : tx'[d] = tx[d]
    <3>1. /\ tx' \in [Callers -> Transactions] /\ tx'[c].state = "terminating"
          /\ tx'[c].step = at /\ tx'[c].by = by /\ tx'[c].error = error
          /\ \A d \in Callers \ {c} : tx'[d] = tx[d]
      BY <1>1, <2>1 DEF Database!TxMoves, Transactions
    <3> QED
      BY <2>1, <3>1
  <2>3. CallInv(c)'
    BY <1>3, <1>4, <1>5, <2>1, <2>2 DEF CallInv
  <2>4. CASE failed
    BY <1>1, <1>2, <1>3, <1>4, <1>5, <1>6, <2>1, <2>2, <2>3, <2>4, HolderWorks
    DEF HandleInv
  <2>5. CASE ~failed
    <3>1. /\ handle' \in [Connections -> Handles] /\ ~handle'[k].open
          /\ handle'[k].writes = {} /\ handle'[k].pragmas = handle[k].pragmas
          /\ handle'[k].usable = handle[k].usable
          /\ \A j \in Connections \ {k} : handle'[j] = handle[j]
          /\ writer' \in Connections \cup {NoConnection} /\ writer' # k
          /\ \A j \in Connections \ {k} : writer' = j <=> writer = j
      BY <1>1, <1>6, <2>5, Undone
    <3> QED
      BY <1>1, <1>2, <1>3, <1>4, <1>5, <1>6, <2>1, <2>2, <2>3, <3>1, HolderWorks
      DEF HandleInv
  <2> QED
    BY <2>4, <2>5
<1>7. CASE Database!Undo(k) /\ errors' = errors
           /\ Database!TxGoto(c, Database!AfterUndo(c, FALSE))
  BY <1>1, <1>6, <1>7
<1>8. CASE UNCHANGED <<handle, writer>> /\ errors' \in 0 .. MaxErrors
           /\ Database!TxGoto(c, Database!AfterUndo(c, TRUE))
  BY <1>6, <1>8
<1>9. \/ /\ Database!Undo(Database!At(c)) /\ errors' = errors
         /\ Database!TxGoto(c, Database!AfterUndo(c, FALSE))
      \/ /\ (errors < MaxErrors /\ errors' = errors + 1) \/ errors' = errors
         /\ UNCHANGED <<handle, writer>>
         /\ Database!TxGoto(c, Database!AfterUndo(c, TRUE))
  BY DEF Database!Rollback, Database!Fault, Database!Refused
<1>10. errors' = errors + 1 /\ errors < MaxErrors => errors' \in 0 .. MaxErrors
  BY <1>1
<1> QED
  BY <1>1, <1>7, <1>8, <1>9, <1>10

(* reconnect(): the handle is another one, closed and without pragmas.     *)
LEMMA RecoverKept ==
  ASSUME DatabaseInv, NEW c \in Callers, NEW k \in Connections,
         Database!At(c) = k, Database!Recover(c)
  PROVE  DatabaseInv'
<1>1. /\ command \in [Callers -> Commands] /\ tx \in [Callers -> Transactions]
      /\ lock \in [Connections -> Seq(Callers \cup {Disposer})]
      /\ conn \in [Connections -> Sessions]
      /\ handle \in [Connections -> Handles]
      /\ writer \in Connections \cup {NoConnection}
      /\ applied \in [Callers -> Nat] /\ errors \in 0 .. MaxErrors
      /\ command[c].at = k /\ MaxErrors \in Nat
      /\ NoConnection \notin Connections
  BY DatabaseFacts, DatabaseAssumption DEF Database!At
<1>2. CallInv(c) /\ LinkInv(c) /\ HandleInv(k)
  BY DEF DatabaseInv
<1>3. /\ tx[c].step = "recover" /\ UNCHANGED <<command, lock, applied>>
      /\ errors' \in 0 .. MaxErrors
  BY <1>1 DEF Database!Recover, Database!Fault
<1>4. /\ command[c].pc \in {"open", "ending"} /\ Holding(c)
      /\ command[c].outcome = "none" /\ applied[c] = 0
      /\ command[c].kind = "transaction"
  BY <1>3, AtWork
<1>5. /\ tx[c].state = "terminating" /\ tx[c].by \in {"caller", "dispose"}
      /\ command[c].pc = "open" <=> tx[c].by = "dispose"
      /\ command[c].pc = "ending" => tx[c].error # "none"
      /\ tx[c].error \in {"none"} \cup Database!Failures
      /\ Database!Holds(k, c)
  BY <1>1, <1>2, <1>3, <1>4 DEF CallInv, LinkInv, Transactions
<1>6. /\ tx' \in [Callers -> Transactions] /\ tx'[c].state = "terminating"
      /\ tx'[c].step = "finish" /\ tx'[c].by = tx[c].by
      /\ tx'[c].error = tx[c].error
      /\ \A d \in Callers \ {c} : tx'[d] = tx[d]
  BY <1>1, <1>5, TxMoved DEF Database!Recover, Database!TxGoto
<1>7. /\ conn' \in [Connections -> Sessions] /\ ~conn'[k].initialized
      /\ conn'[k].state = conn[k].state /\ conn'[k].active = conn[k].active
      /\ conn'[k].dispose = conn[k].dispose
      /\ \A j \in Connections \ {k} : conn'[j] = conn[j]
  <2>1. conn' = [conn EXCEPT ![k].initialized = FALSE]
    BY DEF Database!Recover, Database!Forgotten
  <2> QED
    BY <1>1, <2>1 DEF Sessions
<1>8. /\ handle' \in [Connections -> Handles] /\ ~handle'[k].open
      /\ handle'[k].writes = {}
      /\ \A j \in Connections \ {k} : handle'[j] = handle[j]
  <2>1. PICK usable \in BOOLEAN :
          handle' = [handle EXCEPT ![k] =
            [open |-> FALSE, writes |-> {}, pragmas |-> FALSE,
             usable |-> usable]]
    BY <1>1 DEF Database!Recover, Database!FreshHandle, Database!At
  <2> QED
    BY <1>1, <2>1 DEF Handles
<1>9. /\ writer' \in Connections \cup {NoConnection} /\ writer' # k
      /\ \A j \in Connections \ {k} : writer' = j <=> writer = j
  BY <1>1 DEF Database!Recover, Database!LeaveFile, Database!At
<1>10. CallInv(c)'
  BY <1>3, <1>4, <1>5, <1>6 DEF CallInv
<1>11. LinkInv(c)'
  BY <1>2, <1>3, <1>4, <1>5, <1>6, <1>7
  DEF LinkInv, Holding, OnHandle, Cancelled, Database!At, Database!Holds
<1>12. Holding(c)' /\ Database!At(c)' = k /\ lock'[k] = lock[k]
  BY <1>1, <1>3, <1>4, <1>6 DEF Holding, Database!At
<1>13. QueueInv(k)'
  BY <1>1, <1>3, <1>6, <1>7, <1>12, QueueStays
<1>14. HandleInv(k)'
  <2>1. conn[k].active = NoCaller \/ conn[k].active = c
    BY <1>5, HeldBy
  <2>2. \A d \in Callers : conn'[k].active = d => d = c
    BY <1>7, <2>1, DatabaseAssumption
  <2> QED
    BY <1>2, <1>3, <1>4, <1>7, <1>8, <1>9, <1>12, <2>2 DEF HandleInv
<1>15. Database!TypeOK'
  BY <1>1, <1>3, <1>6, <1>7, <1>8, <1>9, DatabaseTypedNext
<1> QED
  BY <1>1, <1>3, <1>5, <1>6, <1>7, <1>8, <1>9, <1>10, <1>11, <1>13, <1>14,
     <1>15, CallerMoves

LEMMA FinishKept ==
  ASSUME DatabaseInv, NEW c \in Callers, NEW k \in Connections,
         Database!At(c) = k, Database!Finish(c)
  PROVE  DatabaseInv'
<1>1. /\ command \in [Callers -> Commands] /\ tx \in [Callers -> Transactions]
      /\ conn \in [Connections -> Sessions]
      /\ handle \in [Connections -> Handles]
      /\ writer \in Connections \cup {NoConnection}
      /\ applied \in [Callers -> Nat] /\ errors \in 0 .. MaxErrors
      /\ command[c].at = k
  BY DatabaseFacts DEF Database!At
<1>2. CallInv(c) /\ LinkInv(c) /\ HandleInv(k)
  BY DEF DatabaseInv
<1>3. /\ tx[c].step = "finish" /\ Database!Release(k)
      /\ UNCHANGED <<handle, writer, applied, errors>>
  BY DEF Database!Finish
<1>4. /\ command[c].pc \in {"open", "ending"} /\ Holding(c)
      /\ command[c].outcome = "none" /\ command[c].kind = "transaction"
      /\ tx[c].error \in {"none"} \cup Database!Failures
      /\ Database!Holds(k, c)
  <2>1. /\ command[c].pc \in {"open", "ending"} /\ Holding(c)
        /\ command[c].outcome = "none" /\ command[c].kind = "transaction"
    BY <1>3, AtWork
  <2> QED
    BY <1>1, <1>2, <2>1 DEF LinkInv, Transactions
<1>5. /\ command[c].pc = "open" <=> tx[c].by = "dispose"
      /\ command[c].pc = "ending" <=> tx[c].by = "caller"
      /\ command[c].pc = "open" => applied[c] = 0
      /\ command[c].pc = "ending" =>
           applied[c] = IF tx[c].error = "none" THEN 1 ELSE 0
      /\ command[c].pc = "open" => conn[k].state # "open"
  BY <1>2, <1>3, <1>4 DEF CallInv, LinkInv, Cancelled
<1>6. /\ tx' \in [Callers -> Transactions] /\ tx'[c].state = "closed"
      /\ tx'[c].step = "none" /\ tx'[c].by = "nobody"
      /\ tx'[c].error = tx[c].error
      /\ \A d \in Callers \ {c} : tx'[d] = tx[d]
  BY <1>1, <1>4, TxMoved DEF Database!Finish
<1>7. /\ ~handle[k].open /\ conn[k].active \in {NoCaller, c}
  BY <1>3, <1>4, HeldBy
<1>8. /\ conn' \in [Connections -> Sessions] /\ conn'[k].active = NoCaller
      /\ conn'[k].state = conn[k].state /\ conn'[k].dispose = conn[k].dispose
      /\ conn'[k].initialized = conn[k].initialized
      /\ \A j \in Connections \ {k} : conn'[j] = conn[j]
  BY <1>1, <1>7 DEF Database!Finish, Database!At, Sessions
<1>9. /\ command' \in [Callers -> Commands] /\ command'[c].at = k
      /\ \A d \in Callers \ {c} : command'[d] = command[d]
      /\ command[c].pc = "open" => command'[c] = command[c]
      /\ command[c].pc = "ending" =>
           \/ /\ tx[c].error = "busy" /\ command'[c].pc = "idle"
              /\ command'[c].outcome = "none"
           \/ /\ command'[c].pc = "done"
              /\ command'[c].outcome =
                   IF tx[c].error = "none" THEN "ok" ELSE tx[c].error
  <2>1. CASE command[c].pc = "open"
    <3>1. command' = command
      BY <1>5, <2>1 DEF Database!Finish
    <3> QED
      BY <1>1, <2>1, <3>1
  <2>2. CASE command[c].pc = "ending"
    <3>1. Database!Answer(c, Database!LastError(c))
      BY <1>5, <2>2 DEF Database!Finish
    <3>2. PICK outcome \in {"ok", "busy", "error"} :
            /\ Database!Answer(c, outcome)
            /\ outcome = IF tx[c].error = "none" THEN "ok" ELSE tx[c].error
      BY <1>4, <3>1 DEF Database!LastError, Database!Failures
    <3>3. /\ command' \in [Callers -> Commands] /\ command'[c].at = k
          /\ \A d \in Callers \ {c} : command'[d] = command[d]
          /\ \/ /\ outcome = "busy" /\ command'[c].pc = "idle"
                /\ command'[c].outcome = command[c].outcome
             \/ command'[c].pc = "done" /\ command'[c].outcome = outcome
      BY <1>1, <3>2, Answered
    <3> QED
      BY <1>4, <2>2, <3>2, <3>3
  <2> QED
    BY <1>4, <2>1, <2>2
<1>10. /\ lock' \in [Connections -> Seq(Callers \cup {Disposer})]
       /\ \A j \in Connections \ {k} : lock'[j] = lock[j]
       /\ QueueInv(k)'
  BY <1>3, <1>4, <1>6, <1>8, <1>9, QueueReleased
<1>11. CallInv(c)'
  <2>1. CASE command[c].pc = "open"
    BY <1>3, <1>4, <1>5, <1>6, <1>9, <2>1 DEF CallInv
  <2>2. CASE command[c].pc = "ending"
    BY <1>3, <1>4, <1>5, <1>6, <1>9, <2>2 DEF CallInv, Database!Failures
  <2> QED
    BY <1>4, <2>1, <2>2
<1>12. LinkInv(c)'
  <2>1. CASE command[c].pc = "open"
    BY <1>4, <1>5, <1>6, <1>8, <1>9, <2>1
    DEF LinkInv, Holding, OnHandle, Cancelled, Database!At
  <2>2. CASE command[c].pc = "ending"
    BY <1>3, <1>4, <1>5, <1>6, <1>8, <1>9, <2>2
    DEF LinkInv, Holding, OnHandle, Cancelled, Database!At, Database!Failures
  <2> QED
    BY <1>4, <2>1, <2>2
<1>13. HandleInv(k)'
  BY <1>2, <1>3, <1>7, <1>8, DatabaseAssumption DEF HandleInv
<1>14. Database!TypeOK'
  BY <1>1, <1>3, <1>6, <1>8, <1>9, <1>10, DatabaseTypedNext
<1> QED
  BY <1>3, <1>4, <1>6, <1>8, <1>9, <1>10, <1>11, <1>12, <1>13, <1>14,
     CallerMoves

(* A step of dispose() on a connection.                                    *)
LEMMA DisposerMoves ==
  ASSUME DatabaseInv, NEW k \in Connections, UNCHANGED <<command, applied>>,
         Database!TypeOK',
         \A j \in Connections \ {k} :
           /\ lock'[j] = lock[j] /\ conn'[j] = conn[j] /\ handle'[j] = handle[j]
           /\ writer' = j <=> writer = j,
         \A d \in Callers : Database!At(d) # k => tx'[d] = tx[d],
         \A d \in Callers : Database!At(d) = k => CallInv(d)' /\ LinkInv(d)',
         QueueInv(k)', HandleInv(k)'
  PROVE  DatabaseInv'
<1>1. ASSUME NEW d \in Callers PROVE CallInv(d)' /\ LinkInv(d)'
  <2>1. CASE Database!At(d) = k
    BY <2>1
  <2>2. CASE Database!At(d) # k
    <3>1. command'[d] = command[d] /\ tx'[d] = tx[d] /\ applied'[d] = applied[d]
      BY <2>2
    <3>2. CallInv(d) /\ LinkInv(d)
      BY DEF DatabaseInv
    <3>3. CallInv(d)'
      BY <3>1, <3>2 DEF CallInv
    <3>4. Database!At(d) \in Connections
      BY DatabaseFacts
    <3>5. LinkInv(d)'
      BY <2>2, <3>1, <3>2, <3>4
      DEF LinkInv, Holding, OnHandle, Cancelled, Database!At, Database!Holds
    <3> QED
      BY <3>3, <3>5
  <2> QED
    BY <2>1, <2>2
<1>2. ASSUME NEW j \in Connections PROVE QueueInv(j)' /\ HandleInv(j)'
  <2>1. CASE j = k
    BY <2>1
  <2>2. CASE j # k
    <3>1. /\ lock'[j] = lock[j] /\ conn'[j] = conn[j]
          /\ handle'[j] = handle[j] /\ (writer' = j <=> writer = j)
      BY <2>2
    <3>2. \A d \in Callers : Database!At(d) = j =>
            /\ command'[d] = command[d] /\ tx'[d] = tx[d]
            /\ Holding(d)' <=> Holding(d)
      BY <2>2 DEF Holding, Database!At
    <3>3. QueueInv(j)'
      BY <3>1, <3>2 DEF DatabaseInv, QueueInv, Database!At
    <3>4. HandleInv(j)'
      <4>1. HandleInv(j) /\ conn[j].active \in Callers \cup {NoCaller}
        BY DEF DatabaseInv, Database!TypeOK
      <4> QED
        BY <3>1, <3>2, <4>1 DEF HandleInv, Database!At
    <3> QED
      BY <3>3, <3>4
  <2> QED
    BY <2>1, <2>2
<1> QED
  BY <1>1, <1>2 DEF DatabaseInv

(* Before dispose() has queued up, only callers are in the queue.          *)
LEMMA NotQueued ==
  ASSUME DatabaseInv, NEW k \in Connections, conn[k].dispose # "queued"
  PROVE  /\ \A i \in DOMAIN lock[k] : lock[k][i] # Disposer
         /\ \A i \in DOMAIN lock[k] :
              \E c \in Callers : /\ lock[k][i] = c /\ Database!At(c) = k
                                 /\ command[c].pc = "queued" \/ Holding(c)
BY DatabaseAssumption DEF DatabaseInv, QueueInv

LEMMA DisposeKept ==
  ASSUME DatabaseInv, NEW k \in Connections, Database!Dispose(k)
  PROVE  DatabaseInv'
<1>1. /\ command \in [Callers -> Commands] /\ tx \in [Callers -> Transactions]
      /\ lock \in [Connections -> Seq(Callers \cup {Disposer})]
      /\ conn \in [Connections -> Sessions]
      /\ handle \in [Connections -> Handles]
      /\ writer \in Connections \cup {NoConnection}
      /\ applied \in [Callers -> Nat] /\ errors \in 0 .. MaxErrors
  BY DatabaseFacts
<1>2. /\ conn[k].state = "open"
      /\ UNCHANGED <<command, tx, lock, handle, writer, applied, errors>>
  BY DEF Database!Dispose
<1>3. QueueInv(k) /\ HandleInv(k) /\ conn[k].dispose = "none"
  BY <1>2 DEF DatabaseInv, HandleInv
<1>4. /\ conn' \in [Connections -> Sessions] /\ conn'[k].state = "disposing"
      /\ conn'[k].dispose \in {"enqueue", "cancel"}
      /\ conn'[k].active = conn[k].active
      /\ conn'[k].initialized = conn[k].initialized
      /\ \A j \in Connections \ {k} : conn'[j] = conn[j]
  <2> DEFINE mid == [conn[k] EXCEPT !.state = "disposing"]
  <2>1. /\ mid \in Sessions /\ mid.state = "disposing"
        /\ mid.active = conn[k].active /\ mid.initialized = conn[k].initialized
    BY <1>1 DEF Sessions
  <2>2. PICK dispose \in {"enqueue", "cancel"} :
          conn' = [conn EXCEPT ![k] = [mid EXCEPT !.dispose = dispose]]
    BY DEF Database!Dispose
  <2> HIDE DEF mid
  <2>3. conn'[k] = [mid EXCEPT !.dispose = dispose]
    BY <1>1, <2>2
  <2>4. /\ conn'[k] \in Sessions /\ conn'[k].state = mid.state
        /\ conn'[k].dispose = dispose /\ conn'[k].active = mid.active
        /\ conn'[k].initialized = mid.initialized
    BY <2>1, <2>3 DEF Sessions
  <2> QED
    BY <1>1, <2>1, <2>2, <2>4
<1>5. Database!TypeOK'
  BY <1>1, <1>2, <1>4, DatabaseTypedNext
<1>6. ASSUME NEW d \in Callers, Database!At(d) = k
      PROVE  CallInv(d)' /\ LinkInv(d)'
  <2>1. CallInv(d) /\ LinkInv(d)
    BY DEF DatabaseInv
  <2>2. CallInv(d)'
    BY <1>2, <2>1 DEF CallInv
  <2>3. LinkInv(d)'
    BY <1>2, <1>4, <1>6, <2>1
    DEF LinkInv, Holding, OnHandle, Cancelled, Database!At, Database!Holds
  <2> QED
    BY <2>2, <2>3
<1>7. \A d \in Callers : /\ Database!At(d)' = Database!At(d)
                         /\ Holding(d)' <=> Holding(d)
  BY <1>2 DEF Holding, Database!At
<1>8. QueueInv(k)'
  BY <1>2, <1>3, <1>7, NotQueued DEF QueueInv
<1>9. HandleInv(k)'
  BY <1>2, <1>3, <1>4, <1>7 DEF HandleInv
<1> QED
  BY <1>2, <1>4, <1>5, <1>6, <1>8, <1>9, DisposerMoves

LEMMA DisposeCancelsKept ==
  ASSUME DatabaseInv, NEW k \in Connections, Database!DisposeCancels(k)
  PROVE  DatabaseInv'
<1>1. /\ command \in [Callers -> Commands] /\ tx \in [Callers -> Transactions]
      /\ lock \in [Connections -> Seq(Callers \cup {Disposer})]
      /\ conn \in [Connections -> Sessions]
      /\ handle \in [Connections -> Handles]
      /\ writer \in Connections \cup {NoConnection}
      /\ applied \in [Callers -> Nat] /\ errors \in 0 .. MaxErrors
  BY DatabaseFacts
<1>2. /\ conn[k].dispose = "cancel"
      /\ UNCHANGED <<command, lock, handle, writer, applied, errors>>
  BY DEF Database!DisposeCancels
<1>3. QueueInv(k) /\ HandleInv(k) /\ conn[k].state # "open"
  BY <1>2 DEF DatabaseInv, HandleInv
<1>4. /\ conn' \in [Connections -> Sessions] /\ conn'[k].state = conn[k].state
      /\ conn'[k].dispose = "enqueue" /\ conn'[k].active = conn[k].active
      /\ conn'[k].initialized = conn[k].initialized
      /\ \A j \in Connections \ {k} : conn'[j] = conn[j]
  <2>1. conn' = [conn EXCEPT ![k].dispose = "enqueue"]
    BY DEF Database!DisposeCancels
  <2> QED
    BY <1>1, <2>1 DEF Sessions
<1>5. CASE tx' = tx
  <2>1. Database!TypeOK'
    BY <1>1, <1>2, <1>4, <1>5, DatabaseTypedNext
  <2>2. ASSUME NEW d \in Callers, Database!At(d) = k
        PROVE  CallInv(d)' /\ LinkInv(d)'
    <3>1. CallInv(d) /\ LinkInv(d)
      BY DEF DatabaseInv
    <3>2. CallInv(d)'
      BY <1>2, <1>5, <3>1 DEF CallInv
    <3>3. LinkInv(d)'
      BY <1>2, <1>4, <1>5, <2>2, <3>1
      DEF LinkInv, Holding, OnHandle, Cancelled, Database!At, Database!Holds
    <3> QED
      BY <3>2, <3>3
  <2>3. \A d \in Callers : /\ Database!At(d)' = Database!At(d)
                           /\ Holding(d)' <=> Holding(d)
    BY <1>2, <1>5 DEF Holding, Database!At
  <2>4. QueueInv(k)'
    BY <1>2, <1>3, <2>3, NotQueued DEF QueueInv
  <2>5. HandleInv(k)'
    BY <1>2, <1>3, <1>4, <1>5, <2>3 DEF HandleInv
  <2> QED
    BY <1>2, <1>4, <1>5, <2>1, <2>2, <2>4, <2>5, DisposerMoves
<1>6. ASSUME NEW c \in Callers, conn[k].active = c, tx[c].by = "nobody",
             Database!TxMoves(c, "terminating", "undo", "dispose", tx[c].error)
      PROVE  DatabaseInv'
  <2>1. /\ Database!At(c) = k /\ Holding(c)
        /\ command[c].pc \in {"open", "ending"}
    BY <1>3, <1>6 DEF HandleInv
  <2>2. /\ command[c].pc = "open" /\ CallInv(c) /\ LinkInv(c)
        /\ command[c].outcome = "none"
    BY <1>6, <2>1 DEF DatabaseInv, CallInv
  <2>3. /\ tx' \in [Callers -> Transactions] /\ tx'[c].state = "terminating"
        /\ tx'[c].step = "undo" /\ tx'[c].by = "dispose"
        /\ \A d \in Callers \ {c} : tx'[d] = tx[d]
    BY <1>1, <1>6 DEF Database!TxMoves, Transactions
  <2>4. Database!TypeOK'
    BY <1>1, <1>2, <1>4, <2>3, DatabaseTypedNext
  <2>5. \A d \in Callers : /\ Database!At(d)' = Database!At(d)
                           /\ Holding(d)' <=> Holding(d)
    <3>1. Holding(c)'
      BY <1>2, <2>2, <2>3 DEF Holding
    <3> QED
      BY <1>2, <2>1, <2>3, <3>1 DEF Holding, Database!At
  <2>6. ASSUME NEW d \in Callers, Database!At(d) = k
        PROVE  CallInv(d)' /\ LinkInv(d)'
    <3>1. CallInv(d) /\ LinkInv(d)
      BY DEF DatabaseInv
    <3>2. CASE d = c
      <4>1. CallInv(c)'
        BY <1>2, <2>2, <2>3 DEF CallInv
      <4>2. LinkInv(c)'
        BY <1>2, <1>3, <1>4, <2>1, <2>2, <2>3
        DEF LinkInv, Holding, OnHandle, Cancelled, Database!At, Database!Holds
      <4> QED
        BY <3>2, <4>1, <4>2
    <3>3. CASE d # c
      <4>1. tx'[d] = tx[d]
        BY <2>3, <3>3
      <4>2. CallInv(d)'
        BY <1>2, <3>1, <4>1 DEF CallInv
      <4>3. LinkInv(d)'
        BY <1>2, <1>4, <2>6, <3>1, <4>1
        DEF LinkInv, Holding, OnHandle, Cancelled, Database!At, Database!Holds
      <4> QED
        BY <4>2, <4>3
    <3> QED
      BY <3>2, <3>3
  <2>7. QueueInv(k)'
    BY <1>2, <1>3, <2>5, NotQueued DEF QueueInv
  <2>8. HandleInv(k)'
    <3>1. \A d \in Callers : tx[d].step # "finish" => tx'[d].step # "finish"
      BY <2>3
    <3> QED
      BY <1>2, <1>3, <1>4, <2>5, <3>1 DEF HandleInv
  <2> QED
    BY <1>2, <1>4, <2>1, <2>3, <2>4, <2>6, <2>7, <2>8, DisposerMoves
<1>7. \/ tx' = tx
      \/ \E c \in Callers :
           /\ conn[k].active = c /\ tx[c].by = "nobody"
           /\ Database!TxMoves(c, "terminating", "undo", "dispose", tx[c].error)
  <2>1. conn[k].active \in Callers \cup {NoCaller}
    BY <1>1 DEF Sessions
  <2> QED
    BY <2>1 DEF Database!DisposeCancels, Database!CancelNeeded, Database!TxFree,
       Database!Run
<1> QED
  BY <1>5, <1>6, <1>7

LEMMA DisposeEnqueuesKept ==
  ASSUME DatabaseInv, NEW k \in Connections, Database!DisposeEnqueues(k)
  PROVE  DatabaseInv'
<1>1. /\ command \in [Callers -> Commands] /\ tx \in [Callers -> Transactions]
      /\ lock \in [Connections -> Seq(Callers \cup {Disposer})]
      /\ conn \in [Connections -> Sessions]
      /\ handle \in [Connections -> Handles]
      /\ writer \in Connections \cup {NoConnection}
      /\ applied \in [Callers -> Nat] /\ errors \in 0 .. MaxErrors
  BY DatabaseFacts
<1>2. /\ conn[k].dispose = "enqueue"
      /\ UNCHANGED <<command, tx, handle, writer, applied, errors>>
      /\ lock' = [lock EXCEPT ![k] = Append(lock[k], Disposer)]
  BY DEF Database!DisposeEnqueues
<1>3. HandleInv(k) /\ conn[k].state # "open"
  BY <1>2 DEF DatabaseInv, HandleInv
<1>4. /\ conn' \in [Connections -> Sessions] /\ conn'[k].state = conn[k].state
      /\ conn'[k].dispose = "queued" /\ conn'[k].active = conn[k].active
      /\ conn'[k].initialized = conn[k].initialized
      /\ \A j \in Connections \ {k} : conn'[j] = conn[j]
  <2>1. conn' = [conn EXCEPT ![k].dispose = "queued"]
    BY DEF Database!DisposeEnqueues
  <2> QED
    BY <1>1, <2>1 DEF Sessions
<1> DEFINE s == lock[k]
           t == Append(s, Disposer)
<1>5. /\ s \in Seq(Callers \cup {Disposer}) /\ Len(s) \in Nat
      /\ DOMAIN s = 1 .. Len(s) /\ t \in Seq(Callers \cup {Disposer})
      /\ DOMAIN t = 1 .. Len(s) + 1 /\ \A i \in 1 .. Len(s) : t[i] = s[i]
      /\ t[Len(s) + 1] = Disposer
      /\ s # <<>> => t # <<>> /\ Head(t) = Head(s)
  <2>1. s \in Seq(Callers \cup {Disposer}) /\ Disposer \in Callers \cup {Disposer}
    BY <1>1
  <2> HIDE DEF s
  <2> QED
    BY <2>1, AppendHead
<1>6. /\ \A i \in DOMAIN s : s[i] # Disposer
      /\ \A i \in DOMAIN s :
           \E c \in Callers : /\ s[i] = c /\ Database!At(c) = k
                              /\ command[c].pc = "queued" \/ Holding(c)
      /\ \A i, j \in DOMAIN s : s[i] = s[j] => i = j
  BY <1>2, NotQueued DEF DatabaseInv, QueueInv
<1>7. lock' \in [Connections -> Seq(Callers \cup {Disposer})] /\ lock'[k] = t
      /\ \A j \in Connections \ {k} : lock'[j] = lock[j]
  BY <1>1, <1>2, <1>5
<1>8. lock[k] # <<>> => lock'[k] # <<>> /\ Head(lock'[k]) = Head(lock[k])
  BY <1>5, <1>7
<1> HIDE DEF s, t
<1>9. \A d \in Callers : /\ Database!At(d)' = Database!At(d)
                         /\ Holding(d)' <=> Holding(d)
  BY <1>2 DEF Holding, Database!At
<1>10. QueueInv(k)'
  <2>1. \A i, j \in DOMAIN t : t[i] = t[j] => i = j
    BY <1>5, <1>6
  <2>2. \A i \in DOMAIN t :
          \/ t[i] = Disposer /\ conn'[k].dispose = "queued"
          \/ \E c \in Callers : /\ t[i] = c /\ Database!At(c) = k
                                /\ command[c].pc = "queued" \/ Holding(c)
    BY <1>4, <1>5, <1>6
  <2> QED
    BY <1>2, <1>7, <1>9, <2>1, <2>2 DEF QueueInv
<1>11. Database!TypeOK'
  BY <1>1, <1>2, <1>4, <1>7, DatabaseTypedNext
<1>12. ASSUME NEW d \in Callers, Database!At(d) = k
       PROVE  CallInv(d)' /\ LinkInv(d)'
  <2>1. CallInv(d) /\ LinkInv(d)
    BY DEF DatabaseInv
  <2>2. CallInv(d)'
    BY <1>2, <2>1 DEF CallInv
  <2>3. LinkInv(d)'
    BY <1>2, <1>3, <1>4, <1>8, <1>9, <1>12, <2>1
    DEF LinkInv, OnHandle, Cancelled, Database!At, Database!Holds
  <2> QED
    BY <2>2, <2>3
<1>13. HandleInv(k)'
  BY <1>2, <1>3, <1>4, <1>9 DEF HandleInv
<1> QED
  BY <1>2, <1>4, <1>7, <1>10, <1>11, <1>12, <1>13, DisposerMoves

LEMMA DisposeClosesKept ==
  ASSUME DatabaseInv, NEW k \in Connections, Database!DisposeCloses(k)
  PROVE  DatabaseInv'
<1>1. /\ command \in [Callers -> Commands] /\ tx \in [Callers -> Transactions]
      /\ lock \in [Connections -> Seq(Callers \cup {Disposer})]
      /\ conn \in [Connections -> Sessions]
      /\ handle \in [Connections -> Handles]
      /\ writer \in Connections \cup {NoConnection}
      /\ applied \in [Callers -> Nat] /\ errors \in 0 .. MaxErrors
      /\ Disposer \notin Callers /\ NoConnection \notin Connections
  BY DatabaseFacts, DatabaseAssumption
<1>2. /\ conn[k].dispose = "queued" /\ lock[k] # <<>>
      /\ Head(lock[k]) = Disposer
      /\ UNCHANGED <<command, tx, applied, errors>>
      /\ lock' = [lock EXCEPT ![k] = Tail(lock[k])]
  BY DEF Database!DisposeCloses, Database!Holds, Database!Release
<1>3. QueueInv(k) /\ HandleInv(k)
  BY DEF DatabaseInv
<1>4. \A d \in Callers : Database!At(d) = k =>
        ~Holding(d) /\ ~OnHandle(d) /\ tx[d].step = "none"
  <2> SUFFICES ASSUME NEW d \in Callers, Database!At(d) = k
               PROVE  ~Holding(d) /\ ~OnHandle(d) /\ tx[d].step = "none"
    OBVIOUS
  <2>1. ~Holding(d)
    BY <1>1, <1>2 DEF DatabaseInv, LinkInv, Database!Holds
  <2>2. tx[d].step = "none"
    BY <2>1, AtWork
  <2>3. ~OnHandle(d)
    BY <2>1 DEF Holding, OnHandle
  <2> QED
    BY <2>1, <2>2, <2>3
<1>5. /\ conn' \in [Connections -> Sessions] /\ conn'[k].state = "disposed"
      /\ conn'[k].dispose = "done" /\ conn'[k].active = conn[k].active
      /\ \A j \in Connections \ {k} : conn'[j] = conn[j]
  <2> DEFINE mid == [conn[k] EXCEPT !.state = "disposed"]
  <2>0. conn[k] \in Sessions
    BY <1>1
  <2>1. /\ mid \in Sessions /\ mid.state = "disposed"
        /\ mid.active = conn[k].active
    BY <2>0 DEF Sessions
  <2>2. conn' = [conn EXCEPT ![k] = [mid EXCEPT !.dispose = "done"]]
    BY DEF Database!DisposeCloses
  <2> HIDE DEF mid
  <2>3. conn'[k] = [mid EXCEPT !.dispose = "done"]
    BY <1>1, <2>2
  <2>4. /\ conn'[k] \in Sessions /\ conn'[k].state = mid.state
        /\ conn'[k].dispose = "done" /\ conn'[k].active = mid.active
    BY <2>1, <2>3 DEF Sessions
  <2> QED
    BY <1>1, <2>1, <2>2, <2>4
<1>6. /\ handle' \in [Connections -> Handles] /\ ~handle'[k].open
      /\ handle'[k].writes = {} /\ ~handle'[k].usable
      /\ \A j \in Connections \ {k} : handle'[j] = handle[j]
  <2> DEFINE fresh == Database!FreshHandle
  <2>1. fresh \in Handles /\ ~fresh.open /\ fresh.writes = {}
    BY DEF Database!FreshHandle, Handles
  <2>2. handle' = [handle EXCEPT ![k] = [fresh EXCEPT !.usable = FALSE]]
    BY DEF Database!DisposeCloses
  <2> HIDE DEF fresh
  <2>3. handle'[k] = [fresh EXCEPT !.usable = FALSE]
    BY <1>1, <2>2
  <2>4. /\ handle'[k] \in Handles /\ handle'[k].open = fresh.open
        /\ handle'[k].writes = fresh.writes /\ handle'[k].usable = FALSE
    BY <2>1, <2>3 DEF Handles
  <2> QED
    BY <1>1, <2>1, <2>2, <2>4
<1>7. /\ writer' \in Connections \cup {NoConnection} /\ writer' # k
      /\ \A j \in Connections \ {k} : writer' = j <=> writer = j
  BY <1>1 DEF Database!DisposeCloses, Database!LeaveFile
<1> DEFINE s == lock[k]
<1>8. /\ Tail(s) \in Seq(Callers \cup {Disposer})
      /\ Len(s) \in Nat /\ Len(s) # 0 /\ s[1] = Disposer
      /\ DOMAIN s = 1 .. Len(s) /\ DOMAIN Tail(s) = 1 .. (Len(s) - 1)
      /\ \A i \in 1 .. (Len(s) - 1) : Tail(s)[i] = s[i + 1]
  <2>1. s \in Seq(Callers \cup {Disposer}) /\ s # <<>> /\ Head(s) = Disposer
    BY <1>1, <1>2
  <2> QED
    BY <2>1
<1>9. /\ \A i, j \in DOMAIN s : s[i] = s[j] => i = j
      /\ \A i \in DOMAIN s :
           \/ s[i] = Disposer
           \/ \E d \in Callers : /\ s[i] = d /\ Database!At(d) = k
                                 /\ command[d].pc = "queued" \/ Holding(d)
  BY <1>3 DEF QueueInv
<1>10. lock' \in [Connections -> Seq(Callers \cup {Disposer})]
       /\ lock'[k] = Tail(s) /\ \A j \in Connections \ {k} : lock'[j] = lock[j]
  BY <1>1, <1>2, <1>8
<1> HIDE DEF s
<1>11. \A d \in Callers : /\ Database!At(d)' = Database!At(d)
                          /\ Holding(d)' <=> Holding(d)
                          /\ OnHandle(d)' <=> OnHandle(d)
  BY <1>2 DEF Holding, OnHandle, Database!At
<1>12. QueueInv(k)'
  <2>1. \A i \in 1 .. (Len(s) - 1) : i + 1 \in DOMAIN s /\ 1 \in DOMAIN s
                                     /\ s[i + 1] # Disposer
    BY <1>8, <1>9
  <2>2. \A i, j \in DOMAIN Tail(s) : Tail(s)[i] = Tail(s)[j] => i = j
    BY <1>8, <1>9, <2>1
  <2>3. \A i \in DOMAIN Tail(s) :
          \E d \in Callers : /\ Tail(s)[i] = d /\ Database!At(d) = k
                             /\ command[d].pc = "queued" \/ Holding(d)
    BY <1>8, <1>9, <2>1
  <2> QED
    <3>1. \A i \in DOMAIN Tail(s) :
            \E d \in Callers : /\ Tail(s)[i] = d /\ Database!At(d)' = k
                               /\ command'[d].pc = "queued" \/ Holding(d)'
      BY <1>2, <1>11, <2>3
    <3> QED
      BY <1>10, <2>2, <3>1 DEF QueueInv
<1>13. Database!TypeOK'
  BY <1>1, <1>2, <1>5, <1>6, <1>7, <1>10, DatabaseTypedNext
<1>14. ASSUME NEW d \in Callers, Database!At(d) = k
       PROVE  CallInv(d)' /\ LinkInv(d)'
  <2>1. CallInv(d) /\ LinkInv(d)
    BY DEF DatabaseInv
  <2>2. CallInv(d)'
    BY <1>2, <2>1 DEF CallInv
  <2>3. LinkInv(d)'
    BY <1>2, <1>4, <1>5, <1>11, <1>14 DEF LinkInv, Database!At
  <2> QED
    BY <2>2, <2>3
<1>15. HandleInv(k)'
  BY <1>2, <1>3, <1>4, <1>5, <1>6, <1>7, <1>11 DEF HandleInv
<1> QED
  BY <1>2, <1>5, <1>6, <1>7, <1>10, <1>12, <1>13, <1>14, <1>15, DisposerMoves

-----------------------------------------------------------------------------
LEMMA DatabaseInit == Database!Init => DatabaseInv
<1> SUFFICES ASSUME Database!Init PROVE DatabaseInv
  OBVIOUS
<1>1. /\ command \in [Callers -> Commands]
      /\ \A c \in Callers : command[c].pc = "idle" /\ command[c].outcome = "none"
  BY DatabaseAssumption DEF Database!Init, Commands
<1>2. /\ tx = [c \in Callers |-> Database!NoTransaction]
      /\ lock = [k \in Connections |-> <<>>]
      /\ conn = [k \in Connections |->
                  [state |-> "open", initialized |-> FALSE, active |-> NoCaller,
                   dispose |-> "none"]]
      /\ handle = [k \in Connections |-> Database!FreshHandle]
      /\ writer = NoConnection
      /\ applied = [c \in Callers |-> 0]
      /\ errors = 0
  BY DEF Database!Init
<1>3. Database!TypeOK
  <2>1. tx \in [Callers -> Transactions]
    BY <1>2 DEF Transactions, Database!NoTransaction
  <2>2. lock \in [Connections -> Seq(Callers \cup {Disposer})]
    BY <1>2
  <2>3. conn \in [Connections -> Sessions]
    BY <1>2 DEF Sessions
  <2>4. handle \in [Connections -> Handles]
    BY <1>2 DEF Handles, Database!FreshHandle
  <2>5. /\ writer \in Connections \cup {NoConnection}
        /\ applied \in [Callers -> Nat] /\ errors \in 0 .. MaxErrors
    BY <1>2, DatabaseAssumption
  <2> QED
    BY <1>1, <2>1, <2>2, <2>3, <2>4, <2>5, DatabaseTyped
<1>4. ASSUME NEW c \in Callers PROVE CallInv(c) /\ LinkInv(c)
  <2>1. /\ command[c].pc = "idle" /\ command[c].outcome = "none"
        /\ tx[c].state = "none" /\ tx[c].step = "none" /\ tx[c].by = "nobody"
        /\ applied[c] = 0
    BY <1>1, <1>2 DEF Database!NoTransaction
  <2> QED
    BY <2>1 DEF CallInv, LinkInv, Holding, OnHandle, Cancelled
<1>5. ASSUME NEW k \in Connections PROVE QueueInv(k) /\ HandleInv(k)
  <2>1. /\ lock[k] = <<>> /\ conn[k].state = "open" /\ conn[k].dispose = "none"
        /\ conn[k].active = NoCaller /\ ~conn[k].initialized
        /\ ~handle[k].open /\ handle[k].writes = {} /\ writer # k
    BY <1>2, DatabaseAssumption DEF Database!FreshHandle
  <2> QED
    BY <2>1, DatabaseAssumption DEF QueueInv, HandleInv
<1> QED
  BY <1>3, <1>4, <1>5 DEF DatabaseInv

LEMMA CallerKept ==
  ASSUME DatabaseInv, NEW c \in Callers, Database!Caller(c)
  PROVE  DatabaseInv'
<1>1. PICK k \in Connections : Database!At(c) = k
  BY DatabaseFacts
<1> QED
  BY <1>1, EnqueueKept, AcquireKept, BeginKept, BegunKept, SingleKept,
     IssueKept, StatementKept, CommitKept, RollbackKept, RecoverKept,
     FinishKept
  DEF Database!Caller, Database!Transaction

LEMMA DatabaseStep == DatabaseInv /\ Database!Next => DatabaseInv'
BY CallerKept, DisposeKept, DisposeCancelsKept, DisposeEnqueuesKept,
   DisposeClosesKept
DEF Database!Next, Database!Disposal

LEMMA DatabaseSound == DatabaseInv => ConnectionSound
<1> SUFFICES ASSUME DatabaseInv PROVE ConnectionSound
  OBVIOUS
<1>1. Database!NoOrphanTransaction
  <2> SUFFICES ASSUME NEW k \in Connections, handle[k].open \/ writer = k
               PROVE  /\ lock[k] # <<>> /\ Head(lock[k]) \in Callers
                      /\ command[Head(lock[k])].kind = "transaction"
                      /\ handle[k].writes \subseteq {Head(lock[k])}
    BY DEF Database!NoOrphanTransaction
  <2>1. PICK c \in Callers :
          /\ Database!At(c) = k /\ Holding(c) /\ handle[k].writes \subseteq {c}
          /\ command[c].pc \in {"begun", "open", "ending"}
    BY DEF DatabaseInv, HandleInv
  <2>2. Database!Holds(k, c) /\ command[c].kind = "transaction"
    BY <2>1 DEF DatabaseInv, LinkInv, CallInv
  <2> QED
    BY <2>1, <2>2 DEF Database!Holds
<1>2. Database!AppliedIfTold
  <2> SUFFICES ASSUME NEW c \in Callers
        PROVE  /\ applied[c] <= 1
               /\ command[c].outcome \in Database!Failures
                  \/ command[c].pc = "idle" => applied[c] = 0
               /\ command[c].outcome = "ok"
                  /\ conn[Database!At(c)].state = "open" => applied[c] = 1
    BY DEF Database!AppliedIfTold
  <2>1. CallInv(c) /\ LinkInv(c)
    BY DEF DatabaseInv
  <2>2. applied[c] <= 1
    BY <2>1 DEF CallInv
  <2>3. command[c].outcome \in Database!Failures =>
          command[c].outcome # "none" /\ command[c].outcome # "ok"
    BY DEF Database!Failures
  <2>4. /\ command[c].outcome = "none" <=> command[c].pc # "done"
        /\ applied[c] = IF /\ command[c].pc = "ending"
                           /\ tx[c].step = "finish" /\ tx[c].error = "none"
                          THEN 1
                          ELSE IF command[c].outcome = "ok" THEN applied[c]
                                                            ELSE 0
    BY <2>1 DEF CallInv
  <2>5. command[c].outcome \in Database!Failures \/ command[c].pc = "idle" =>
          applied[c] = 0
    BY <2>3, <2>4
  <2>6. command[c].outcome = "ok" /\ conn[Database!At(c)].state = "open" =>
          applied[c] = 1
    BY <2>1 DEF LinkInv
  <2> QED
    BY <2>2, <2>5, <2>6
<1>3. Database!KeysEnforced
  <2> SUFFICES ASSUME NEW c \in Callers,
                      tx[c].step = "statement"
                      \/ command[c].pc \in {"begin", "single"}
               PROVE  handle[Database!At(c)].pragmas
                      \/ ~handle[Database!At(c)].usable
    BY DEF Database!KeysEnforced
  <2>1. OnHandle(c)
    <3>1. tx[c].step = "statement" => command[c].pc \in {"open", "ending"}
      BY AtWork
    <3>2. tx[c].step = "statement" =>
            command[c].pc = "open" /\ tx[c].state = "active"
      BY <3>1 DEF DatabaseInv, CallInv
    <3> QED
      BY <3>2 DEF OnHandle
  <2> QED
    BY <2>1, DatabaseFacts DEF DatabaseInv, LinkInv, HandleInv
<1> QED
  BY <1>1, <1>2, <1>3 DEF DatabaseInv, ConnectionSound

(* Whatever BEGIN, a statement, COMMIT, ROLLBACK or dispose() fail at, no   *)
(* transaction is left open, a command had the effect that it is told, and  *)
(* every statement enforces foreign keys.                                   *)
THEOREM ConnectionsSound == RequestsSpec => []ConnectionSound
<1>1. RequestsInit => DatabaseInv
  BY DatabaseInit DEF RequestsInit
<1>2. DatabaseInv /\ [RequestsNext]_allVars => DatabaseInv'
  BY DatabaseStep, DatabaseKept DEF RequestsNext, TalkNext, allVars
<1> QED
  BY <1>1, <1>2, DatabaseSound, PTL DEF RequestsSpec, allVars
=============================================================================
