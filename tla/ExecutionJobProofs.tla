-------------------------- MODULE ExecutionJobProofs --------------------------
(***************************************************************************)
(* Proofs about ExecutionJob, for every set of jobs, workers, runtimes and *)
(* tasks and every bound: the records of the control plane and its fences  *)
(* (Control, Fencing); the slots of the runtimes (Capacity); that the end  *)
(* of a job is announced exactly once and the control plane implements     *)
(* JobContract (Announcement, Implementation); and the rows that people    *)
(* act on (Questions, Incidents).                                          *)
(***************************************************************************)
EXTENDS ExecutionJob, FiniteSetTheorems, TLAPS

-----------------------------------------------------------------------------
(* The parts of transactions keep the row they write in shape.              *)

LEMMA MoveJobTyped ==
  ASSUME job \in [Jobs -> JobRows], NEW j \in Jobs, NEW status \in JobStatuses,
         MoveJob(j, status)
  PROVE  job' \in [Jobs -> JobRows]
BY DEF MoveJob, JobRows

LEMMA UnleasedTyped ==
  ASSUME NEW row \in AttemptRows, NEW status \in AttemptStatuses
  PROVE  Unleased(row, status) \in AttemptRows
<1>1. 0 \in 0 .. LeaseTerm
  BY BoundAssumption
<1> QED
  BY <1>1 DEF Unleased, AttemptRows

LEMMA ReserveSlotTyped ==
  ASSUME runtime \in [Runtimes -> RuntimeRows], NEW r,
         NEW forCancel \in BOOLEAN,
         ReserveSlot(r, forCancel)
  PROVE  runtime' \in [Runtimes -> RuntimeRows]
<1>1. runtime' = [runtime EXCEPT ![r].capacityUsed = @ + 1]
  BY DEF ReserveSlot
<1>2. ASSUME r \in Runtimes
      PROVE  [runtime[r] EXCEPT !.capacityUsed = @ + 1] \in RuntimeRows
  BY <1>2 DEF RuntimeRows
<1> QED
  BY <1>1, <1>2

LEMMA ReleaseSlotTyped ==
  ASSUME runtime \in [Runtimes -> RuntimeRows], NEW j, ReleaseSlot(j)
  PROVE  runtime' \in [Runtimes -> RuntimeRows]
BY DEF ReleaseSlot, RuntimeRows

LEMMA GrantTyped ==
  ASSUME TypeOK, NEW j \in Jobs, NEW w \in Workers, Grant(j, w)
  PROVE  /\ attempt' \in [Jobs -> AttemptRows]
         /\ grant' \in [Jobs -> [Generations -> Workers \cup {NoWorker}]]
         /\ writer' \in [Jobs -> 0 .. MaxGeneration]
<1> DEFINE g == attempt[j].generation + 1
<1>1. g \in Generations /\ g \in 0 .. MaxGeneration
  BY BoundAssumption DEF Grant, Generations, TypeOK, AttemptRows
<1>2. attempt' \in [Jobs -> AttemptRows]
  <2>1. attempt \in [Jobs -> AttemptRows]
    BY DEF TypeOK
  <2>2. LeaseTerm \in 0 .. LeaseTerm
    BY BoundAssumption
  <2> QED
    BY <1>1, <2>1, <2>2 DEF Grant, AttemptRows, AttemptStatuses
<1>3. grant' \in [Jobs -> [Generations -> Workers \cup {NoWorker}]]
  BY <1>1 DEF Grant, TypeOK
<1>4. writer' \in [Jobs -> 0 .. MaxGeneration]
  BY <1>1 DEF Grant, TypeOK
<1> QED
  BY <1>2, <1>3, <1>4

LEMMA EnqueueTyped ==
  ASSUME outbox \subseteq OutboxRows, NEW rows \in SUBSET OutboxRows,
         Enqueue(rows)
  PROVE  outbox' \subseteq OutboxRows
BY DEF Enqueue

LEMMA CompletedRowTyped ==
  ASSUME job \in [Jobs -> JobRows], NEW j \in Jobs
  PROVE  CompletedRow(j) \in OutboxRows
<1>1. job[j].revision + 1 \in Nat /\ 0 \in 0 .. MaxGeneration
  BY BoundAssumption DEF JobRows
<1> QED
  BY <1>1 DEF CompletedRow, OutboxRows, Topics

LEMMA InputRowTyped ==
  ASSUME NEW j \in Jobs, NEW topic \in Topics, NEW g \in Generations,
         NEW revision \in Nat
  PROVE  InputRow(j, topic, g, revision) \in OutboxRows
<1>1. g \in 0 .. MaxGeneration
  BY BoundAssumption DEF Generations
<1> QED
  BY <1>1 DEF InputRow, OutboxRows

LEMMA FinishTaskTyped ==
  ASSUME task \in [Tasks -> TaskStatuses], NEW t, NEW outcome \in Outcomes,
         FinishTask(t, outcome)
  PROVE  task' \in [Tasks -> TaskStatuses]
BY DEF FinishTask, TaskTarget, TaskStatuses, Outcomes

-----------------------------------------------------------------------------
(* Every command keeps every row in shape.                                  *)
LEMMA TypingStep ==
  ASSUME TypeOK, [Next]_vars PROVE TypeOK'
<1>1. ASSUME NEW j \in Jobs, NEW r \in Runtimes, NEW t \in Tasks \cup {NoTask},
             CreateQueued(j, r, t)
      PROVE  TypeOK'
  <2>1. job' \in [Jobs -> JobRows]
    BY <1>1 DEF CreateQueued, TypeOK, JobRows, JobStatuses
  <2>2. attempt' \in [Jobs -> AttemptRows]
    <3>1. 0 \in 0 .. LeaseTerm /\ 0 \in 0 .. MaxGeneration
      BY BoundAssumption
    <3>2. [NoAttemptRow EXCEPT !.status = "pending", !.runtime = r]
            \in AttemptRows
      BY <3>1 DEF NoAttemptRow, AttemptRows, AttemptStatuses
    <3> QED
      BY <1>1, <3>2 DEF CreateQueued, TypeOK
  <2>3. task' \in [Tasks -> TaskStatuses]
    BY <1>1 DEF CreateQueued, StartTask, TypeOK, TaskStatuses
  <2> QED
    BY <1>1, <2>1, <2>2, <2>3 DEF CreateQueued, TypeOK
<1>2. ASSUME NEW j \in Jobs, NEW t \in Tasks \cup {NoTask}, CreateBlocked(j, t)
      PROVE  TypeOK'
  <2>1. job' \in [Jobs -> JobRows]
    BY <1>2 DEF CreateBlocked, TypeOK, JobRows, JobStatuses
  <2> QED
    BY <1>2, <2>1 DEF CreateBlocked, TypeOK
<1>3. ASSUME ReadForAdmission PROVE TypeOK'
  BY <1>3 DEF ReadForAdmission, AvailableRuntimes, TypeOK
<1>4. ASSUME NEW r \in Runtimes, NEW enabled \in EnabledChoices,
             NEW total \in CapacityChoices, RegisterRuntime(r, enabled, total)
      PROVE  TypeOK'
  <2>1. runtime' \in [Runtimes -> RuntimeRows]
    BY <1>4, BoundAssumption DEF RegisterRuntime, TypeOK, RuntimeRows
  <2> QED
    BY <1>4, <2>1 DEF RegisterRuntime, TypeOK
<1>5. ASSUME NEW j \in Jobs, NEW w \in Workers, Claim(j, w)
      PROVE  TypeOK'
  <2>1. CASE ClaimPending(j, w)
    <3>1. job' \in [Jobs -> JobRows]
      BY <2>1, MoveJobTyped DEF ClaimPending, TypeOK, JobStatuses
    <3> QED
      BY <2>1, <3>1, ReserveSlotTyped, GrantTyped DEF ClaimPending, TypeOK
  <2>2. CASE ClaimSuspended(j, w)
    BY <2>2, ReserveSlotTyped, GrantTyped DEF ClaimSuspended, TypeOK
  <2>3. CASE Reclaim(j, w)
    BY <2>3, GrantTyped DEF Reclaim, TypeOK
  <2> QED
    BY <1>5, <2>1, <2>2, <2>3 DEF Claim
<1>6. ASSUME NEW j \in Jobs, NEW w \in Workers, NEW g \in Generations,
             Heartbeat(j, w, g)
      PROVE  TypeOK'
  <2>1. attempt' \in [Jobs -> AttemptRows]
    <3>1. LeaseTerm \in 0 .. LeaseTerm /\ attempt \in [Jobs -> AttemptRows]
      BY BoundAssumption DEF TypeOK
    <3> QED
      BY <1>6, <3>1 DEF Heartbeat, AttemptRows
  <2>2. writer' \in [Jobs -> 0 .. MaxGeneration]
    BY <1>6 DEF Heartbeat, TypeOK, Generations
  <2> QED
    BY <1>6, <2>1, <2>2 DEF Heartbeat, TypeOK
<1>7. ASSUME NEW j \in Jobs, Tick(j) PROVE TypeOK'
  <2>1. attempt' \in [Jobs -> AttemptRows]
    <3>1. attempt \in [Jobs -> AttemptRows]
      BY DEF TypeOK
    <3>2. attempt[j].lease - 1 \in 0 .. LeaseTerm
      BY <1>7, <3>1, BoundAssumption DEF Tick, AttemptRows
    <3> QED
      BY <1>7, <3>1, <3>2 DEF Tick, AttemptRows
  <2> QED
    BY <1>7, <2>1 DEF Tick, TypeOK
<1>8. ASSUME NEW j \in Jobs, NEW w \in Workers, NEW g \in Generations,
             WaitForInput(j, w, g)
      PROVE  TypeOK'
  <2>1. job' \in [Jobs -> JobRows]
    BY <1>8, MoveJobTyped DEF WaitForInput, TypeOK, JobStatuses
  <2>2. attempt' \in [Jobs -> AttemptRows]
    <3>1. Unleased(attempt[j], "waiting_input") \in AttemptRows
      BY UnleasedTyped DEF TypeOK, AttemptStatuses
    <3>2. g + 1 \in 0 .. MaxGeneration
      BY <1>8, BoundAssumption DEF WaitForInput, Generations
    <3>3. [Unleased(attempt[j], "waiting_input") EXCEPT !.generation = g + 1]
            \in AttemptRows
      BY <3>1, <3>2 DEF AttemptRows
    <3> QED
      BY <1>8, <3>3 DEF WaitForInput, TypeOK
  <2>3. runtime' \in [Runtimes -> RuntimeRows]
    BY <1>8, ReleaseSlotTyped DEF WaitForInput, TypeOK
  <2>4. request' \in [Jobs -> [Generations -> RequestStatuses]]
    BY <1>8 DEF WaitForInput, TypeOK, RequestStatuses
  <2>5. outbox' \subseteq OutboxRows
    BY <1>8, EnqueueTyped, InputRowTyped DEF WaitForInput, TypeOK, Topics
  <2>6. writer' \in [Jobs -> 0 .. MaxGeneration]
    BY <1>8 DEF WaitForInput, TypeOK, Generations
  <2> QED
    BY <1>8, <2>1, <2>2, <2>3, <2>4, <2>5, <2>6 DEF WaitForInput, TypeOK
<1>9. ASSUME NEW j \in Jobs, NEW w \in Workers, NEW g \in Generations,
             NEW outcome \in Outcomes, Complete(j, w, g, outcome)
      PROVE  TypeOK'
  <2>1. job' \in [Jobs -> JobRows]
    BY <1>9, MoveJobTyped DEF Complete, TypeOK, JobStatuses
  <2>2. attempt' \in [Jobs -> AttemptRows]
    BY <1>9, UnleasedTyped DEF Complete, TypeOK, AttemptStatuses
  <2>3. runtime' \in [Runtimes -> RuntimeRows]
    BY <1>9, ReleaseSlotTyped DEF Complete, TypeOK
  <2>4. outbox' \subseteq OutboxRows
    <3>1. CompletedRow(j) \in OutboxRows
      BY CompletedRowTyped DEF TypeOK
    <3>2. \A c \in CancelledInputs(j) :
            InputRow(j, "input_cancelled", c, 2) \in OutboxRows
      BY InputRowTyped DEF CancelledInputs, Topics
    <3> QED
      BY <1>9, <3>1, <3>2, EnqueueTyped DEF Complete, TypeOK
  <2>5. task' \in [Tasks -> TaskStatuses]
    BY <1>9, FinishTaskTyped DEF Complete, TypeOK
  <2>6. writer' \in [Jobs -> 0 .. MaxGeneration]
    BY <1>9 DEF Complete, TypeOK, Generations
  <2> QED
    BY <1>9, <2>1, <2>2, <2>3, <2>4, <2>5, <2>6 DEF Complete, TypeOK
<1>10. ASSUME NEW j \in Jobs, NEW w \in Workers, NEW g \in Generations,
              NEW discardable \in DiscardChoices, Quarantine(j, w, g, discardable)
       PROVE  TypeOK'
  <2>1. job' \in [Jobs -> JobRows]
    BY <1>10, MoveJobTyped DEF Quarantine, TypeOK, JobStatuses
  <2>2. attempt' \in [Jobs -> AttemptRows]
    BY <1>10, UnleasedTyped DEF Quarantine, TypeOK, AttemptStatuses
  <2>3. runtime' \in [Runtimes -> RuntimeRows]
    BY <1>10, ReleaseSlotTyped DEF Quarantine, TypeOK
  <2>4. incident' \in [Jobs -> [Generations -> IncidentRows]]
    <3>1. \A i \in Generations : incident[j][i] \in IncidentRows
      BY DEF TypeOK
    <3>2. [NoIncidentRow EXCEPT !.status = "open", !.discardable = discardable]
            \in IncidentRows
      BY BoundAssumption DEF NoIncidentRow, IncidentRows
    <3>3. \A i \in Generations :
            [incident[j][i] EXCEPT !.status = "resolved",
                                   !.resolution = "superseded"]
              \in IncidentRows
      BY <3>1 DEF IncidentRows
    <3> QED
      BY <1>10, <3>1, <3>2, <3>3 DEF Quarantine, TypeOK
  <2>5. writer' \in [Jobs -> 0 .. MaxGeneration]
    <3>1. writer' = [writer EXCEPT ![j] = g]
      BY <1>10 DEF Quarantine
    <3>2. g \in 0 .. MaxGeneration
      BY BoundAssumption DEF Generations
    <3> QED
      BY <3>1, <3>2 DEF TypeOK
  <2> QED
    BY <1>10, <2>1, <2>2, <2>3, <2>4, <2>5 DEF Quarantine, TypeOK
<1>11. ASSUME NEW j \in Jobs, NEW w \in Workers, NEW g \in Generations,
              NEW i \in Generations, ResolveRecovery(j, w, g, i)
       PROVE  TypeOK'
  <2>1. incident' \in [Jobs -> [Generations -> IncidentRows]]
    <3>1. incident[j][i] \in IncidentRows
      BY DEF TypeOK
    <3>2. \A res \in {"retried", "discarded"} :
            [incident[j][i] EXCEPT !.status = "resolved", !.resolution = res]
              \in IncidentRows
      BY <3>1 DEF IncidentRows
    <3> QED
      BY <1>11, <3>2 DEF ResolveRecovery, TypeOK
  <2>2. writer' \in [Jobs -> 0 .. MaxGeneration]
    BY <1>11 DEF ResolveRecovery, TypeOK, Generations
  <2> QED
    BY <1>11, <2>1, <2>2 DEF ResolveRecovery, TypeOK
<1>12. ASSUME NEW j \in Jobs, NEW i \in Generations,
              NEW action \in {"retry", "discard"}, RequestRecovery(j, i, action)
       PROVE  TypeOK'
  <2>1. job' \in [Jobs -> JobRows]
    BY <1>12, MoveJobTyped DEF RequestRecovery, TypeOK, JobStatuses
  <2>2. attempt' \in [Jobs -> AttemptRows]
    BY <1>12, UnleasedTyped DEF RequestRecovery, TypeOK, AttemptStatuses
  <2>3. incident' \in [Jobs -> [Generations -> IncidentRows]]
    <3>1. incident[j][i] \in IncidentRows
      BY DEF TypeOK
    <3>2. [incident[j][i] EXCEPT !.status = "action_requested",
                                 !.action = action] \in IncidentRows
      BY <3>1 DEF IncidentRows
    <3>3. incident' = [incident EXCEPT ![j][i] =
                        [@ EXCEPT !.status = "action_requested",
                                  !.action = action]]
      BY <1>12 DEF RequestRecovery
    <3> QED
      BY <3>2, <3>3 DEF TypeOK
  <2> QED
    BY <1>12, <2>1, <2>2, <2>3 DEF RequestRecovery, TypeOK
<1>13. ASSUME NEW j \in Jobs, NEW g \in Generations, AnswerInput(j, g)
       PROVE  TypeOK'
  <2>1. job' \in [Jobs -> JobRows]
    BY <1>13, MoveJobTyped DEF AnswerInput, TypeOK, JobStatuses
  <2>2. attempt' \in [Jobs -> AttemptRows]
    <3>1. 0 \in 0 .. LeaseTerm /\ attempt \in [Jobs -> AttemptRows]
      BY BoundAssumption DEF TypeOK
    <3>2. [attempt[j] EXCEPT !.status = "pending", !.leaseOwner = NoWorker,
                             !.lease = 0] \in AttemptRows
      BY <3>1 DEF AttemptRows, AttemptStatuses
    <3> QED
      BY <1>13, <3>1, <3>2 DEF AnswerInput
  <2>3. request' \in [Jobs -> [Generations -> RequestStatuses]]
    BY <1>13 DEF AnswerInput, TypeOK, RequestStatuses
  <2>4. outbox' \subseteq OutboxRows
    BY <1>13, EnqueueTyped, InputRowTyped DEF AnswerInput, TypeOK, Topics
  <2> QED
    BY <1>13, <2>1, <2>2, <2>3, <2>4 DEF AnswerInput, TypeOK
<1>14. ASSUME NEW j \in Jobs, ReadForCancel(j) PROVE TypeOK'
  <2>1. cancelCall' \in CancelCalls
    BY <1>14 DEF ReadForCancel, TypeOK, JobRows, CancelCalls
  <2> QED
    BY <1>14, <2>1 DEF ReadForCancel, TypeOK
<1>15. ASSUME CommitCancel PROVE TypeOK'
  <2>1. cancelCall \in CancelCalls /\ cancelCall.job \in Jobs
    BY <1>15 DEF CommitCancel, TypeOK, CancelCalls
  <2>2. CASE CommitGracefully
    <3>1. job' \in [Jobs -> JobRows]
      <4>1. job[cancelCall.job] \in JobRows
        BY <2>1 DEF TypeOK
      <4>2. job[cancelCall.job].revision + 1 \in Nat /\ TRUE \in BOOLEAN
        BY <4>1 DEF JobRows
      <4>3. [job[cancelCall.job] EXCEPT !.status = "cancel_requested",
               !.revision = @ + 1, !.cancelRequestedAt = TRUE] \in JobRows
        BY <4>1, <4>2 DEF JobRows, JobStatuses
      <4> QED
        BY <2>1, <2>2, <4>3 DEF CommitGracefully, TypeOK
    <3>2. request' \in [Jobs -> [Generations -> RequestStatuses]]
      BY <2>1, <2>2 DEF CommitGracefully, TypeOK, RequestStatuses
    <3> QED
      BY <1>15, <2>2, <3>1, <3>2 DEF CommitCancel, CommitGracefully, TypeOK
  <2>3. CASE CommitDirectly
    <3>1. job' \in [Jobs -> JobRows]
      <4>1. job[cancelCall.job] \in JobRows
        BY <2>1 DEF TypeOK
      <4>2. job[cancelCall.job].revision + 1 \in Nat /\ TRUE \in BOOLEAN
        BY <4>1 DEF JobRows
      <4>3. [job[cancelCall.job] EXCEPT !.status = "cancelled",
               !.revision = @ + 1, !.cancelRequestedAt = TRUE] \in JobRows
        BY <4>1, <4>2 DEF JobRows, JobStatuses, Outcomes
      <4> QED
        BY <2>1, <2>3, <4>3 DEF CommitDirectly, TypeOK
    <3>2. attempt' \in [Jobs -> AttemptRows]
      <4>1. 0 \in 0 .. LeaseTerm /\ attempt \in [Jobs -> AttemptRows]
        BY BoundAssumption DEF TypeOK
      <4> QED
        BY <2>1, <2>3, <4>1
        DEF CommitDirectly, AttemptIsIdle, AttemptRows, AttemptStatuses, Outcomes
    <3>3. outbox' \subseteq OutboxRows
      BY <2>1, <2>3, CompletedRowTyped, EnqueueTyped DEF CommitDirectly, TypeOK
    <3>4. task' \in [Tasks -> TaskStatuses]
      BY <2>3, FinishTaskTyped DEF CommitDirectly, TypeOK, Outcomes
    <3> QED
      BY <1>15, <2>3, <3>1, <3>2, <3>3, <3>4
      DEF CommitCancel, CommitDirectly, TypeOK
  <2> QED
    BY <1>15, <2>2, <2>3 DEF CommitCancel
<1>16. ASSUME AbortCancel PROVE TypeOK'
  BY <1>16 DEF AbortCancel, TypeOK
<1>17. ASSUME NEW t \in Tasks, NEW status \in TaskStatuses, MoveTask(t, status)
       PROVE  TypeOK'
  BY <1>17 DEF MoveTask, TypeOK
<1>18. CASE UNCHANGED vars
  BY <1>18 DEF vars, TypeOK
<1> QED
  BY <1>1, <1>2, <1>3, <1>4, <1>5, <1>6, <1>7, <1>8, <1>9, <1>10, <1>11, <1>12,
     <1>13, <1>14, <1>15, <1>16, <1>17, <1>18
  DEF Next, Admission, WorkerCommand, HumanCommand

LEMMA TypingInit == Init => TypeOK
<1> SUFFICES ASSUME Init PROVE TypeOK
  OBVIOUS
<1>1. 0 \in 0 .. LeaseTerm /\ 0 \in 0 .. MaxGeneration
  BY BoundAssumption
<1>2. job \in [Jobs -> JobRows]
  BY DEF Init, NoJobRow, JobRows, JobStatuses
<1>3. attempt \in [Jobs -> AttemptRows]
  BY <1>1 DEF Init, NoAttemptRow, AttemptRows, AttemptStatuses
<1>4. runtime \in [Runtimes -> RuntimeRows]
  <2> DEFINE FirstRows == [enabled: EnabledChoices,
                           capacityTotal: CapacityChoices, capacityUsed: {0}]
  <2>1. runtime \in [Runtimes -> FirstRows]
    BY DEF Init
  <2>2. ASSUME NEW row \in FirstRows PROVE row \in RuntimeRows
    <3>1. row = [enabled |-> row.enabled, capacityTotal |-> row.capacityTotal,
                 capacityUsed |-> row.capacityUsed]
      OBVIOUS
    <3>2. row.enabled \in BOOLEAN
      <4>1. row.enabled \in EnabledChoices
        OBVIOUS
      <4>2. EnabledChoices \subseteq BOOLEAN
        BY BoundAssumption
      <4> QED
        BY <4>1, <4>2, Zenon
    <3>3. row.capacityTotal \in Nat
      <4>1. row.capacityTotal \in CapacityChoices
        OBVIOUS
      <4>2. CapacityChoices \subseteq Nat
        BY BoundAssumption
      <4> QED
        BY <4>1, <4>2
    <3>4. row.capacityUsed \in Nat
      OBVIOUS
    <3> QED
      BY <3>1, <3>2, <3>3, <3>4 DEF RuntimeRows
  <2> QED
    BY <2>1, <2>2
<1>5. incident \in [Jobs -> [Generations -> IncidentRows]]
  BY DEF Init, NoIncidentRow, IncidentRows
<1> QED
  BY <1>1, <1>2, <1>3, <1>4, <1>5 DEF Init, TypeOK, RequestStatuses, TaskStatuses

(* In every reachable state the rows have the shape their tables give them. *)
THEOREM Typing == Spec => []TypeOK
BY TypingInit, TypingStep, PTL DEF Spec

-----------------------------------------------------------------------------
(* ControlSound is the invariant the safety proofs rest on.  Neither half   *)
(* is inductive alone: a new attempt starts unowned because its job had     *)
(* none before, and a worker's fence looks at the attempt, so that the job  *)
(* it moves is only known to be open because the status machines agree.     *)

(* A command that changes only these variables cannot disturb ownership.    *)
LEMMA OwnershipFrame ==
  ASSUME LeaseMatchesGrant, UNCHANGED <<attempt, grant, writer>>
  PROVE  LeaseMatchesGrant'
BY DEF LeaseMatchesGrant, Granted

LEMMA OwnershipGrant ==
  ASSUME TypeOK, LeaseMatchesGrant, NEW j \in Jobs, NEW w \in Workers,
         Grant(j, w)
  PROVE  LeaseMatchesGrant'
<1>1. attempt[j].generation + 1 \in Generations
  BY DEF Grant
<1> QED
  BY <1>1 DEF Grant, TypeOK, AttemptRows, LeaseMatchesGrant, Granted

(* Leaving the running state, with the generation that wrote last or later. *)
LEMMA OwnershipLeave ==
  ASSUME TypeOK, LeaseMatchesGrant, NEW j \in Jobs, NEW g \in Generations,
         NEW status \in AttemptStatuses \ {"running"},
         attempt[j].generation = g,
         attempt' = [attempt EXCEPT ![j] = Unleased(@, status)],
         writer' = [writer EXCEPT ![j] = g],
         UNCHANGED grant
  PROVE  LeaseMatchesGrant'
BY DEF TypeOK, AttemptRows, LeaseMatchesGrant, Granted, Unleased, Generations

LEMMA OwnershipStep ==
  ASSUME ControlSound, [Next]_vars PROVE LeaseMatchesGrant'
<1> USE DEF ControlSound
<1>1. ASSUME NEW j \in Jobs, NEW r \in Runtimes, NEW t \in Tasks \cup {NoTask},
             CreateQueued(j, r, t)
      PROVE  LeaseMatchesGrant'
  <2>1. /\ attempt' = [attempt EXCEPT ![j] = [NoAttemptRow EXCEPT
                                               !.status = "pending",
                                               !.runtime = r]]
        /\ UNCHANGED <<grant, writer>>
    BY <1>1 DEF CreateQueued
  <2>2. attempt[j] = NoAttemptRow
    BY <1>1 DEF CreateQueued, StatusesAgree, AgreeingStatuses
  <2> QED
    BY <2>1, <2>2 DEF LeaseMatchesGrant, Granted, NoAttemptRow, TypeOK
<1>2. ASSUME NEW j \in Jobs, NEW t \in Tasks \cup {NoTask}, CreateBlocked(j, t)
      PROVE  LeaseMatchesGrant'
  BY <1>2, OwnershipFrame DEF CreateBlocked
<1>3. CASE ReadForAdmission
  BY <1>3, OwnershipFrame DEF ReadForAdmission
<1>4. ASSUME NEW r \in Runtimes, NEW enabled \in EnabledChoices,
             NEW total \in CapacityChoices, RegisterRuntime(r, enabled, total)
      PROVE  LeaseMatchesGrant'
  BY <1>4, OwnershipFrame DEF RegisterRuntime
<1>5. ASSUME NEW j \in Jobs, NEW w \in Workers, Claim(j, w)
      PROVE  LeaseMatchesGrant'
  <2>1. Grant(j, w)
    BY <1>5 DEF Claim, ClaimPending, ClaimSuspended, Reclaim
  <2> QED
    BY <2>1, OwnershipGrant
<1>6. ASSUME NEW j \in Jobs, NEW w \in Workers, NEW g \in Generations,
             Heartbeat(j, w, g)
      PROVE  LeaseMatchesGrant'
  BY <1>6 DEF Heartbeat, Fenced, TypeOK, AttemptRows, LeaseMatchesGrant, Granted
<1>7. ASSUME NEW j \in Jobs, Tick(j) PROVE LeaseMatchesGrant'
  BY <1>7 DEF Tick, TypeOK, AttemptRows, LeaseMatchesGrant, Granted
<1>8. ASSUME NEW j \in Jobs, NEW w \in Workers, NEW g \in Generations,
             WaitForInput(j, w, g)
      PROVE  LeaseMatchesGrant'
  <2>1. /\ attempt' = [attempt EXCEPT
                         ![j] = [Unleased(@, "waiting_input") EXCEPT
                                   !.generation = g + 1]]
        /\ writer' = [writer EXCEPT ![j] = g]
        /\ UNCHANGED grant
    BY <1>8 DEF WaitForInput
  <2> QED
    BY <2>1 DEF TypeOK, AttemptRows, LeaseMatchesGrant, Granted, Unleased,
                Generations
<1>9. ASSUME NEW j \in Jobs, NEW w \in Workers, NEW g \in Generations,
             NEW outcome \in Outcomes, Complete(j, w, g, outcome)
      PROVE  LeaseMatchesGrant'
  BY <1>9, OwnershipLeave DEF Complete, Fenced, AttemptStatuses, Outcomes
<1>10. ASSUME NEW j \in Jobs, NEW w \in Workers, NEW g \in Generations,
              NEW discardable \in DiscardChoices, Quarantine(j, w, g, discardable)
       PROVE  LeaseMatchesGrant'
  BY <1>10, OwnershipLeave DEF Quarantine, Fenced, AttemptStatuses
<1>11. ASSUME NEW j \in Jobs, NEW w \in Workers, NEW g \in Generations,
              NEW i \in Generations, ResolveRecovery(j, w, g, i)
       PROVE  LeaseMatchesGrant'
  <2>1. /\ Fenced(j, w, g)
        /\ writer' = [writer EXCEPT ![j] = g]
        /\ UNCHANGED <<attempt, grant>>
    BY <1>11 DEF ResolveRecovery
  <2> QED
    BY <2>1 DEF Fenced, LeaseMatchesGrant, Granted, TypeOK
<1>12. ASSUME NEW j \in Jobs, NEW i \in Generations,
              NEW action \in {"retry", "discard"}, RequestRecovery(j, i, action)
       PROVE  LeaseMatchesGrant'
  <2>1. /\ attempt[j].status = "quarantined"
        /\ attempt' = [attempt EXCEPT ![j] = Unleased(@, "pending")]
        /\ UNCHANGED <<grant, writer>>
    BY <1>12 DEF RequestRecovery
  <2> QED
    BY <2>1 DEF LeaseMatchesGrant, Granted, Unleased, TypeOK, AttemptRows
<1>13. ASSUME NEW j \in Jobs, NEW g \in Generations, AnswerInput(j, g)
       PROVE  LeaseMatchesGrant'
  <2>1. /\ attempt[j].status = "waiting_input"
        /\ attempt' = [attempt EXCEPT ![j].status = "pending",
                                      ![j].leaseOwner = NoWorker,
                                      ![j].lease = 0]
        /\ UNCHANGED <<grant, writer>>
    BY <1>13 DEF AnswerInput
  <2> QED
    BY <2>1 DEF LeaseMatchesGrant, Granted, TypeOK, AttemptRows
<1>14. ASSUME NEW j \in Jobs, ReadForCancel(j) PROVE LeaseMatchesGrant'
  BY <1>14, OwnershipFrame DEF ReadForCancel
<1>15. ASSUME CommitCancel PROVE LeaseMatchesGrant'
  <2>1. UNCHANGED <<grant, writer>>
    BY <1>15 DEF CommitCancel
  <2>2. CASE UNCHANGED attempt
    BY <2>1, <2>2, OwnershipFrame
  <2>3. CASE /\ AttemptIsIdle(cancelCall.job)
             /\ attempt' = [attempt EXCEPT
                              ![cancelCall.job].status = "cancelled",
                              ![cancelCall.job].leaseOwner = NoWorker,
                              ![cancelCall.job].lease = 0]
    BY <2>1, <2>3
    DEF AttemptIsIdle, LeaseMatchesGrant, Granted, TypeOK, AttemptRows
  <2> QED
    BY <1>15, <2>2, <2>3 DEF CommitCancel, CommitGracefully, CommitDirectly
<1>16. ASSUME AbortCancel PROVE LeaseMatchesGrant'
  BY <1>16, OwnershipFrame DEF AbortCancel
<1>17. ASSUME NEW t \in Tasks, NEW status \in TaskStatuses, MoveTask(t, status)
       PROVE  LeaseMatchesGrant'
  BY <1>17, OwnershipFrame DEF MoveTask
<1>18. CASE UNCHANGED vars
  BY <1>18, OwnershipFrame DEF vars
<1> QED
  BY <1>1, <1>2, <1>3, <1>4, <1>5, <1>6, <1>7, <1>8, <1>9, <1>10, <1>11, <1>12,
     <1>13, <1>14, <1>15, <1>16, <1>17, <1>18
  DEF Next, Admission, WorkerCommand, HumanCommand
-----------------------------------------------------------------------------
(* Agreement of the two status machines.                                    *)

LEMMA StatusesFrame ==
  ASSUME StatusesAgree, UNCHANGED <<job, attempt>> PROVE StatusesAgree'
BY DEF StatusesAgree

(* A step that moves one job and its attempt, from and to agreeing pairs.   *)
LEMMA StatusesMove ==
  ASSUME TypeOK, StatusesAgree, NEW j \in Jobs,
         \A k \in Jobs \ {j} : job'[k] = job[k] /\ attempt'[k] = attempt[k],
         <<job'[j].status, attempt'[j].status>> \in AgreeingStatuses,
         attempt'[j].status # "none",
         attempt'[j].runtime \in Runtimes
  PROVE  StatusesAgree'
BY DEF StatusesAgree

LEMMA StatusesStep ==
  ASSUME ControlSound, [Next]_vars PROVE StatusesAgree'
<1> USE DEF ControlSound
<1>1. ASSUME NEW j \in Jobs, NEW r \in Runtimes, NEW t \in Tasks \cup {NoTask},
             CreateQueued(j, r, t)
      PROVE  StatusesAgree'
  BY <1>1, StatusesMove
  DEF CreateQueued, NoAttemptRow, TypeOK, AgreeingStatuses
<1>2. ASSUME NEW j \in Jobs, NEW t \in Tasks \cup {NoTask}, CreateBlocked(j, t)
      PROVE  StatusesAgree'
  BY <1>2 DEF CreateBlocked, TypeOK, StatusesAgree, AgreeingStatuses
<1>3. CASE ReadForAdmission
  BY <1>3, StatusesFrame DEF ReadForAdmission
<1>4. ASSUME NEW r \in Runtimes, NEW enabled \in EnabledChoices,
             NEW total \in CapacityChoices, RegisterRuntime(r, enabled, total)
      PROVE  StatusesAgree'
  BY <1>4, StatusesFrame DEF RegisterRuntime
<1>5. ASSUME NEW j \in Jobs, NEW w \in Workers, Claim(j, w)
      PROVE  StatusesAgree'
  <2>1. /\ attempt' = [attempt EXCEPT
                         ![j].status = "running",
                         ![j].generation = attempt[j].generation + 1,
                         ![j].capacityReserved = TRUE,
                         ![j].leaseOwner = w,
                         ![j].lease = LeaseTerm]
        /\ attempt[j].status # "none"
    BY <1>5 DEF Claim, ClaimPending, ClaimSuspended, Reclaim, Grant
  <2>2. \/ UNCHANGED job /\ JobOpen(j)
        \/ MoveJob(j, "running")
    BY <1>5 DEF Claim, ClaimPending, ClaimSuspended, Reclaim, JobOpen
  <2>3. /\ \A k \in Jobs \ {j} : attempt'[k] = attempt[k]
        /\ attempt'[j].status = "running"
        /\ attempt'[j].runtime \in Runtimes
    BY <2>1 DEF TypeOK, AttemptRows, StatusesAgree
  <2>4. /\ \A k \in Jobs \ {j} : job'[k] = job[k]
        /\ job'[j].status \in {"running", "cancel_requested"}
    BY <2>2 DEF MoveJob, JobOpen, TypeOK, JobRows
  <2> QED
    BY <2>3, <2>4, StatusesMove DEF AgreeingStatuses
<1>6. ASSUME NEW j \in Jobs, NEW w \in Workers, NEW g \in Generations,
             Heartbeat(j, w, g)
      PROVE  StatusesAgree'
  <2>1. /\ attempt[j].status = "running"
        /\ attempt' = [attempt EXCEPT ![j].lease = LeaseTerm]
        /\ UNCHANGED job
    BY <1>6 DEF Heartbeat, Fenced
  <2> QED
    BY <2>1, StatusesMove DEF TypeOK, AttemptRows, StatusesAgree
<1>7. ASSUME NEW j \in Jobs, Tick(j) PROVE StatusesAgree'
  <2>1. /\ attempt[j].status = "running"
        /\ attempt' = [attempt EXCEPT ![j].lease = @ - 1]
        /\ UNCHANGED job
    BY <1>7 DEF Tick
  <2> QED
    BY <2>1, StatusesMove DEF TypeOK, AttemptRows, StatusesAgree
<1>8. ASSUME NEW j \in Jobs, NEW w \in Workers, NEW g \in Generations,
             WaitForInput(j, w, g)
      PROVE  StatusesAgree'
  <2>1. /\ attempt[j].status = "running"
        /\ attempt' = [attempt EXCEPT
                         ![j] = [Unleased(@, "waiting_input") EXCEPT
                                   !.generation = g + 1]]
        /\ MoveJob(j, "waiting_input")
    BY <1>8 DEF WaitForInput, Fenced
  <2> QED
    BY <2>1, StatusesMove
    DEF MoveJob, Unleased, TypeOK, AttemptRows, JobRows, StatusesAgree,
        AgreeingStatuses
<1>9. ASSUME NEW j \in Jobs, NEW w \in Workers, NEW g \in Generations,
             NEW outcome \in Outcomes, Complete(j, w, g, outcome)
      PROVE  StatusesAgree'
  <2>1. /\ attempt[j].status = "running"
        /\ attempt' = [attempt EXCEPT ![j] = Unleased(@, outcome)]
        /\ MoveJob(j, outcome)
    BY <1>9 DEF Complete, Fenced
  <2> QED
    BY <2>1, StatusesMove
    DEF MoveJob, Unleased, TypeOK, AttemptRows, JobRows, StatusesAgree,
        AgreeingStatuses, Outcomes
<1>10. ASSUME NEW j \in Jobs, NEW w \in Workers, NEW g \in Generations,
              NEW discardable \in DiscardChoices, Quarantine(j, w, g, discardable)
       PROVE  StatusesAgree'
  <2>1. /\ attempt[j].status = "running"
        /\ attempt' = [attempt EXCEPT ![j] = Unleased(@, "quarantined")]
        /\ MoveJob(j, "blocked")
    BY <1>10 DEF Quarantine, Fenced
  <2> QED
    BY <2>1, StatusesMove
    DEF MoveJob, Unleased, TypeOK, AttemptRows, JobRows, StatusesAgree,
        AgreeingStatuses
<1>11. ASSUME NEW j \in Jobs, NEW w \in Workers, NEW g \in Generations,
              NEW i \in Generations, ResolveRecovery(j, w, g, i)
       PROVE  StatusesAgree'
  BY <1>11, StatusesFrame DEF ResolveRecovery
<1>12. ASSUME NEW j \in Jobs, NEW i \in Generations,
              NEW action \in {"retry", "discard"}, RequestRecovery(j, i, action)
       PROVE  StatusesAgree'
  <2>1. /\ attempt[j].status = "quarantined"
        /\ attempt' = [attempt EXCEPT ![j] = Unleased(@, "pending")]
        /\ MoveJob(j, "queued")
    BY <1>12 DEF RequestRecovery
  <2> QED
    BY <2>1, StatusesMove
    DEF MoveJob, Unleased, TypeOK, AttemptRows, JobRows, StatusesAgree,
        AgreeingStatuses
<1>13. ASSUME NEW j \in Jobs, NEW g \in Generations, AnswerInput(j, g)
       PROVE  StatusesAgree'
  <2>1. /\ attempt[j].status = "waiting_input"
        /\ attempt' = [attempt EXCEPT ![j].status = "pending",
                                      ![j].leaseOwner = NoWorker,
                                      ![j].lease = 0]
        /\ MoveJob(j, "queued")
    BY <1>13 DEF AnswerInput
  <2> QED
    BY <2>1, StatusesMove
    DEF MoveJob, TypeOK, AttemptRows, JobRows, StatusesAgree, AgreeingStatuses
<1>14. ASSUME NEW j \in Jobs, ReadForCancel(j) PROVE StatusesAgree'
  BY <1>14, StatusesFrame DEF ReadForCancel
<1>15. ASSUME CommitCancel PROVE StatusesAgree'
  <2> DEFINE j == cancelCall.job
  <2>1. j \in Jobs /\ job[j].status = cancelCall.status
    BY <1>15 DEF CommitCancel, CallIsCurrent, TypeOK, CancelCalls
  <2>2. CASE CommitGracefully
    <3>1. /\ job[j].status \in {"running", "waiting_input"}
          /\ \A k \in Jobs \ {j} : job'[k] = job[k]
          /\ job'[j].status = "cancel_requested"
          /\ UNCHANGED attempt
      BY <2>1, <2>2 DEF CommitGracefully, TypeOK, JobRows
    <3> QED
      BY <2>1, <3>1 DEF StatusesAgree, AgreeingStatuses
  <2>3. CASE CommitDirectly
    <3>1. /\ job[j].status \in {"queued", "blocked"}
          /\ \A k \in Jobs \ {j} : job'[k] = job[k]
          /\ job'[j].status = "cancelled"
      BY <2>1, <2>3 DEF CommitDirectly, TypeOK, JobRows
    <3>2. CASE attempt[j].status = "pending"
      <4>1. attempt' = [attempt EXCEPT ![j].status = "cancelled",
                                       ![j].leaseOwner = NoWorker,
                                       ![j].lease = 0]
        BY <2>3, <3>2 DEF CommitDirectly, AttemptIsIdle
      <4>2. attempt[j].runtime \in Runtimes
        BY <2>1, <3>2 DEF StatusesAgree
      <4>3. attempt \in [Jobs -> AttemptRows]
        BY DEF TypeOK
      <4> HIDE DEF j
      <4>4. /\ \A k \in Jobs \ {j} : attempt'[k] = attempt[k]
            /\ attempt'[j].status = "cancelled"
            /\ attempt'[j].runtime = attempt[j].runtime
        BY <2>1, <4>1, <4>3 DEF AttemptRows
      <4> QED
        BY <2>1, <3>1, <4>2, <4>4, StatusesMove DEF AgreeingStatuses
    <3>3. CASE attempt[j].status \in {"none", "quarantined"}
      <4>1. UNCHANGED attempt
        BY <2>3, <3>3 DEF CommitDirectly, AttemptIsIdle
      <4> QED
        BY <2>1, <3>1, <3>3, <4>1 DEF StatusesAgree, AgreeingStatuses
    <3> QED
      BY <2>1, <3>1, <3>2, <3>3 DEF StatusesAgree, AgreeingStatuses
  <2> QED
    BY <1>15, <2>2, <2>3 DEF CommitCancel
<1>16. ASSUME AbortCancel PROVE StatusesAgree'
  BY <1>16, StatusesFrame DEF AbortCancel
<1>17. ASSUME NEW t \in Tasks, NEW status \in TaskStatuses, MoveTask(t, status)
       PROVE  StatusesAgree'
  BY <1>17, StatusesFrame DEF MoveTask
<1>18. CASE UNCHANGED vars
  BY <1>18, StatusesFrame DEF vars
<1> QED
  BY <1>1, <1>2, <1>3, <1>4, <1>5, <1>6, <1>7, <1>8, <1>9, <1>10, <1>11, <1>12,
     <1>13, <1>14, <1>15, <1>16, <1>17, <1>18
  DEF Next, Admission, WorkerCommand, HumanCommand

LEMMA ControlInit == Init => ControlSound
<1>1. Init => LeaseMatchesGrant
  BY DEF Init, LeaseMatchesGrant, NoAttemptRow
<1>2. Init => StatusesAgree
  BY DEF Init, StatusesAgree, AgreeingStatuses, NoAttemptRow, NoJobRow
<1> QED
  BY <1>1, <1>2, TypingInit DEF ControlSound

(* The inductive invariant of the control plane: row shapes, lease          *)
(* ownership and the agreement of the two status machines, in every state.  *)
THEOREM Control == Spec => []ControlSound
<1>1. ControlSound /\ [Next]_vars => ControlSound'
  BY TypingStep, OwnershipStep, StatusesStep DEF ControlSound
<1> QED
  BY <1>1, ControlInit, PTL DEF Spec

(* A running attempt is owned by the worker its current generation was      *)
(* granted to, and every other attempt has given its slot and lease back.   *)
THEOREM Ownership == Spec => []LeaseMatchesGrant
BY Control, PTL DEF ControlSound

(* Job and attempt are never in a pair of statuses no command continues.    *)
THEOREM Agreement == Spec => []StatusesAgree
BY Control, PTL DEF ControlSound
-----------------------------------------------------------------------------
(* What no step does.                                                       *)

(* The writer of a step, when there is one, holds the current generation.   *)
LEMMA WriterStep ==
  ASSUME ControlSound, [Next]_vars
  PROVE  \A j \in Jobs : writer'[j] >= writer[j]
<1> USE DEF ControlSound
<1>1. CASE UNCHANGED writer
  BY <1>1 DEF TypeOK
<1>2. ASSUME NEW j \in Jobs, NEW w \in Workers, Grant(j, w)
      PROVE  \A k \in Jobs : writer'[k] >= writer[k]
  <2>1. /\ writer' = [writer EXCEPT ![j] = attempt[j].generation + 1]
        /\ attempt[j].generation \in Nat
        /\ writer[j] <= attempt[j].generation
    BY <1>2 DEF Grant, TypeOK, AttemptRows, LeaseMatchesGrant
  <2> QED
    BY <2>1 DEF TypeOK
<1>3. ASSUME NEW j \in Jobs, NEW w \in Workers, NEW g \in Generations,
             Fenced(j, w, g), writer' = [writer EXCEPT ![j] = g]
      PROVE  \A k \in Jobs : writer'[k] >= writer[k]
  <2>1. writer[j] = g
    BY <1>3 DEF Fenced, LeaseMatchesGrant
  <2> QED
    BY <1>3, <2>1 DEF TypeOK
<1>4. ASSUME NEW j \in Jobs, NEW w \in Workers, Claim(j, w)
      PROVE  Grant(j, w)
  BY <1>4 DEF Claim, ClaimPending, ClaimSuspended, Reclaim
<1>5. ASSUME NEW j \in Jobs, NEW w \in Workers, NEW g \in Generations,
             WorkerCommand(j, w, g)
      PROVE  Fenced(j, w, g) /\ writer' = [writer EXCEPT ![j] = g]
  BY <1>5 DEF WorkerCommand, Heartbeat, WaitForInput, Complete, Quarantine,
              ResolveRecovery
<1>6. ASSUME NEW j \in Jobs, Admission(j) \/ HumanCommand(j) \/ Tick(j)
      PROVE  UNCHANGED writer
  BY <1>6 DEF Admission, CreateQueued, CreateBlocked, HumanCommand,
              ReadForCancel, AnswerInput, RequestRecovery, Tick
<1>7. CASE \/ ReadForAdmission
           \/ CommitCancel
           \/ AbortCancel
           \/ \E r \in Runtimes, enabled \in EnabledChoices,
                 total \in CapacityChoices : RegisterRuntime(r, enabled, total)
           \/ \E t \in Tasks, status \in TaskStatuses : MoveTask(t, status)
           \/ UNCHANGED vars
  <2>1. UNCHANGED writer
    BY <1>7 DEF ReadForAdmission, CommitCancel, AbortCancel, RegisterRuntime,
                MoveTask, vars
  <2> QED
    BY <2>1, <1>1
<1> QED
  BY <1>1, <1>2, <1>3, <1>4, <1>5, <1>6, <1>7 DEF Next

(* Fencing: no lease of an earlier generation takes effect once a later one *)
(* has, whoever holds them.                                                 *)
THEOREM Fencing == Spec => WritersNeverGoBack
<1>1. ControlSound /\ [Next]_vars
        => [\A j \in Jobs : writer'[j] >= writer[j]]_vars
  BY WriterStep
<1> QED
  BY <1>1, Control, PTL DEF Spec, WritersNeverGoBack

-----------------------------------------------------------------------------
(* The end of a job is final.                                               *)

(* A job that ended has no attempt a worker could hold or claim.            *)
LEMMA EndedIsIdle ==
  ASSUME ControlSound, NEW j \in Jobs, Terminal(j)
  PROVE  /\ attempt[j].status \notin {"running", "pending", "waiting_input"}
         /\ job[j].status \notin {"none", "queued", "running", "waiting_input",
                                  "cancel_requested", "blocked"}
<1>1. job[j].status \in Outcomes
  BY DEF Terminal
<1>2. <<job[j].status, attempt[j].status>> \in AgreeingStatuses
  BY DEF ControlSound, StatusesAgree
<1> QED
  BY <1>1, <1>2 DEF Outcomes, AgreeingStatuses

LEMMA EndedStep ==
  ASSUME ControlSound, [Next]_vars, NEW j \in Jobs, Terminal(j)
  PROVE  UNCHANGED <<job[j], attempt[j], request[j], incident[j]>>
<1> DEFINE Kept == UNCHANGED <<job[j], attempt[j], request[j], incident[j]>>
<1>0. /\ attempt[j].status \notin {"running", "pending", "waiting_input"}
      /\ job[j].status \notin {"none", "queued", "running", "waiting_input",
                               "cancel_requested", "blocked"}
  BY EndedIsIdle
<1>1. /\ job \in [Jobs -> JobRows]
      /\ attempt \in [Jobs -> AttemptRows]
      /\ request \in [Jobs -> [Generations -> RequestStatuses]]
      /\ incident \in [Jobs -> [Generations -> IncidentRows]]
  BY DEF ControlSound, TypeOK
<1>2. ASSUME NEW k \in Jobs, Admission(k) PROVE Kept
  <2>1. k # j
    BY <1>0, <1>2 DEF Admission, CreateQueued, CreateBlocked
  <2> QED
    BY <1>1, <1>2, <2>1 DEF Admission, CreateQueued, CreateBlocked
<1>3. ASSUME NEW k \in Jobs, NEW w \in Workers, Claim(k, w) PROVE Kept
  <2>1. k # j
    BY <1>0, <1>3 DEF Claim, ClaimPending, ClaimSuspended, Reclaim
  <2> QED
    BY <1>1, <1>3, <2>1
    DEF Claim, ClaimPending, ClaimSuspended, Reclaim, Grant, MoveJob
<1>4. ASSUME NEW k \in Jobs, NEW w \in Workers, NEW g \in Generations,
             WorkerCommand(k, w, g)
      PROVE  Kept
  <2>1. Fenced(k, w, g)
    BY <1>4 DEF WorkerCommand, Heartbeat, WaitForInput, Complete, Quarantine,
                ResolveRecovery
  <2>2. k # j
    BY <1>0, <2>1 DEF Fenced
  <2> QED
    BY <1>1, <1>4, <2>2
    DEF WorkerCommand, Heartbeat, WaitForInput, Complete, Quarantine,
        ResolveRecovery, MoveJob
<1>5. ASSUME NEW k \in Jobs, HumanCommand(k) PROVE Kept
  <2>1. CASE ReadForCancel(k)
    BY <2>1 DEF ReadForCancel
  <2>2. ASSUME NEW g \in Generations, AnswerInput(k, g) PROVE Kept
    <3>1. k # j
      BY <1>0, <2>2 DEF AnswerInput
    <3> QED
      BY <1>1, <2>2, <3>1 DEF AnswerInput, MoveJob
  <2>3. ASSUME NEW i \in Generations, NEW a \in {"retry", "discard"},
               RequestRecovery(k, i, a)
        PROVE  Kept
    <3>1. k # j
      BY <1>0, <2>3 DEF RequestRecovery
    <3> QED
      BY <1>1, <2>3, <3>1 DEF RequestRecovery, MoveJob
  <2> QED
    BY <1>5, <2>1, <2>2, <2>3 DEF HumanCommand
<1>6. CASE CommitCancel
  (* The transaction compares the status it read, which was not an end.     *)
  <2>1. cancelCall.job # j
    BY <1>0, <1>6
    DEF CommitCancel, CallIsCurrent, CommitGracefully, CommitDirectly
  <2>2. CASE CommitGracefully
    BY <1>1, <1>6, <2>1, <2>2 DEF CommitCancel, CommitGracefully
  <2>3. CASE CommitDirectly
    BY <1>1, <1>6, <2>1, <2>3 DEF CommitCancel, CommitDirectly
  <2> QED
    BY <1>6, <2>2, <2>3 DEF CommitCancel
<1>7. ASSUME NEW k \in Jobs, Tick(k) PROVE Kept
  <2>1. k # j
    BY <1>0, <1>7 DEF Tick
  <2> QED
    BY <1>1, <1>7, <2>1 DEF Tick
<1>8. CASE \/ ReadForAdmission
           \/ AbortCancel
           \/ \E r \in Runtimes, enabled \in EnabledChoices,
                 total \in CapacityChoices : RegisterRuntime(r, enabled, total)
           \/ \E t \in Tasks, status \in TaskStatuses : MoveTask(t, status)
           \/ UNCHANGED vars
  BY <1>8 DEF ReadForAdmission, AbortCancel, RegisterRuntime, MoveTask, vars
<1> QED
  BY <1>2, <1>3, <1>4, <1>5, <1>6, <1>7, <1>8 DEF Next

(* A job that ended stays as it ended, with its attempt, questions and      *)
(* incidents, whoever still writes, answers, recovers or cancels.           *)
THEOREM Finality == Spec => TerminalIsFinal
<1>1. ControlSound /\ [Next]_vars =>
        [\A j \in Jobs : Terminal(j) =>
           UNCHANGED <<job[j], attempt[j], request[j], incident[j]>>]_vars
  BY EndedStep
<1> QED
  BY <1>1, Control, PTL DEF Spec, TerminalIsFinal

-----------------------------------------------------------------------------
(* An accepted cancellation is kept.                                        *)

(* A job that is not admitted has no revision and no cancellation yet.      *)
UnbornInv == \A j \in Jobs : job[j].status = "none" => job[j] = NoJobRow

(* What a step may do to a job that exists.                                 *)
LEMMA MoveStep ==
  ASSUME ControlSound, [Next]_vars, NEW j \in Jobs
  PROVE  /\ job'[j].status = "none" => job'[j] = job[j]
         /\ job[j].status = "cancel_requested" =>
              job'[j].status \in {"cancel_requested", "cancelled", "blocked"}
         /\ job[j].status # "none" /\ job[j].cancelRequestedAt =>
              job'[j].cancelRequestedAt
<1> DEFINE
  Kept == /\ job'[j].status = "none" => job'[j] = job[j]
          /\ job[j].status = "cancel_requested" =>
               job'[j].status \in {"cancel_requested", "cancelled", "blocked"}
          /\ job[j].status # "none" /\ job[j].cancelRequestedAt =>
               job'[j].cancelRequestedAt
<1>1. job \in [Jobs -> JobRows]
  BY DEF ControlSound, TypeOK
<1>2. ASSUME job'[j] = job[j] PROVE Kept
  BY <1>2
<1>3. ASSUME NEW k \in Jobs, NEW status \in JobStatuses, status # "none",
             MoveJob(k, status),
             job[k].status = "cancel_requested" => status \in {"cancelled", "blocked"}
      PROVE  Kept
  <2>1. CASE k = j
    <3>1. /\ job'[j].status = status
          /\ job'[j].cancelRequestedAt = job[j].cancelRequestedAt
      BY <1>1, <1>3, <2>1 DEF MoveJob, JobRows
    <3> QED
      BY <1>3, <2>1, <3>1
  <2>2. CASE k # j
    BY <1>1, <1>2, <1>3, <2>2 DEF MoveJob
  <2> QED
    BY <2>1, <2>2
<1>4. ASSUME NEW k \in Jobs, Admission(k) PROVE Kept
  <2>1. /\ job[k].status = "none"
        /\ \E status \in {"queued", "blocked"}, t \in Tasks \cup {NoTask} :
             job' = [job EXCEPT ![k] =
                      [status |-> status, revision |-> 1,
                       cancelRequestedAt |-> FALSE, teamTask |-> t]]
    BY <1>4 DEF Admission, CreateQueued, CreateBlocked
  <2>2. CASE k = j
    <3>1. job'[j].status \in {"queued", "blocked"}
      BY <1>1, <2>1, <2>2
    <3> QED
      BY <2>1, <2>2, <3>1
  <2>3. CASE k # j
    BY <1>1, <1>2, <2>1, <2>3
  <2> QED
    BY <2>2, <2>3
<1>5. ASSUME NEW k \in Jobs, NEW w \in Workers, Claim(k, w) PROVE Kept
  <2>1. CASE ClaimPending(k, w)
    BY <1>3, <2>1 DEF ClaimPending, JobStatuses
  <2>2. CASE ClaimSuspended(k, w) \/ Reclaim(k, w)
    BY <1>2, <2>2 DEF ClaimSuspended, Reclaim
  <2> QED
    BY <1>5, <2>1, <2>2 DEF Claim
<1>6. ASSUME NEW k \in Jobs, NEW w \in Workers, NEW g \in Generations,
             WorkerCommand(k, w, g)
      PROVE  Kept
  <2>1. CASE WaitForInput(k, w, g)
    BY <1>3, <2>1 DEF WaitForInput, JobStatuses
  <2>2. ASSUME NEW outcome \in Outcomes, Complete(k, w, g, outcome)
        PROVE  Kept
    (* A job that is being cancelled is completed as cancelled only.        *)
    BY <1>3, <2>2 DEF Complete, OutcomeAllowed, JobStatuses, Outcomes
  <2>3. ASSUME NEW discardable \in DiscardChoices,
               Quarantine(k, w, g, discardable)
        PROVE  Kept
    BY <1>3, <2>3 DEF Quarantine, JobStatuses
  <2>4. CASE UNCHANGED job
    BY <1>2, <2>4
  <2> QED
    BY <1>6, <2>1, <2>2, <2>3, <2>4
    DEF WorkerCommand, Heartbeat, ResolveRecovery
<1>7. ASSUME NEW k \in Jobs, HumanCommand(k) PROVE Kept
  <2>1. CASE ReadForCancel(k)
    BY <1>2, <2>1 DEF ReadForCancel
  <2>2. ASSUME NEW g \in Generations, AnswerInput(k, g) PROVE Kept
    BY <1>3, <2>2 DEF AnswerInput, JobStatuses
  <2>3. ASSUME NEW i \in Generations, NEW a \in {"retry", "discard"},
               RequestRecovery(k, i, a)
        PROVE  Kept
    BY <1>3, <2>3 DEF RequestRecovery, JobStatuses
  <2> QED
    BY <1>7, <2>1, <2>2, <2>3 DEF HumanCommand
<1>8. CASE CommitCancel
  <2> DEFINE k == cancelCall.job
  <2>1. /\ k \in Jobs
        /\ job[k].status \in {"queued", "running", "waiting_input", "blocked"}
    BY <1>8 DEF ControlSound, TypeOK, CancelCalls, CommitCancel, CallIsCurrent
  <2>2. \E status \in {"cancel_requested", "cancelled"} :
          job' = [job EXCEPT ![k].status = status, ![k].revision = @ + 1,
                             ![k].cancelRequestedAt = TRUE]
    BY <1>8 DEF CommitCancel, CommitGracefully, CommitDirectly
  <2>3. CASE k = j
    <3>1. /\ job'[j].status \in {"cancel_requested", "cancelled"}
          /\ job'[j].cancelRequestedAt
      BY <1>1, <2>2, <2>3 DEF JobRows
    <3> QED
      BY <2>1, <2>3, <3>1
  <2>4. CASE k # j
    BY <1>1, <1>2, <2>1, <2>2, <2>4
  <2> QED
    BY <2>3, <2>4
<1>9. CASE \/ ReadForAdmission
           \/ AbortCancel
           \/ \E k \in Jobs : Tick(k)
           \/ \E r \in Runtimes, enabled \in EnabledChoices,
                 total \in CapacityChoices : RegisterRuntime(r, enabled, total)
           \/ \E t \in Tasks, status \in TaskStatuses : MoveTask(t, status)
           \/ UNCHANGED vars
  <2>1. UNCHANGED job
    BY <1>9 DEF ReadForAdmission, AbortCancel, Tick, RegisterRuntime, MoveTask,
                vars
  <2> QED
    BY <1>2, <2>1
<1> QED
  BY <1>4, <1>5, <1>6, <1>7, <1>8, <1>9 DEF Next

(* In every state, what is not admitted is as no row of it existed.         *)
THEOREM Unborn == Spec => []UnbornInv
<1>1. Init => UnbornInv
  BY DEF Init, UnbornInv
<1>2. ControlSound /\ UnbornInv /\ [Next]_vars => UnbornInv'
  BY MoveStep DEF UnbornInv
<1> QED
  BY <1>1, <1>2, Control, PTL DEF Spec

(* An accepted cancellation is overtaken by no outcome but a quarantine,    *)
(* and its record is never erased.                                          *)
THEOREM Cancellation == Spec => CancelIsKept
<1>1. ControlSound /\ UnbornInv /\ [Next]_vars =>
        [\A j \in Jobs :
           /\ job[j].status = "cancel_requested" =>
                job'[j].status \in {"cancel_requested", "cancelled", "blocked"}
           /\ job[j].cancelRequestedAt => job'[j].cancelRequestedAt]_vars
  BY MoveStep DEF UnbornInv, NoJobRow
<1> QED
  BY <1>1, Control, Unborn, PTL DEF Spec, CancelIsKept

(* What was decided stays decided, an end and a request to cancel alike.    *)
THEOREM Decisions == Spec => DecisionsKept
BY Finality, Cancellation DEF DecisionsKept

-----------------------------------------------------------------------------
(* The slots of the runtimes: no transaction leaks one or gives one back   *)
(* twice.  The counter of a runtime is the number of attempts that hold    *)
(* one of its slots.                                                       *)

SlotInv == ControlSound /\ CapacityConserved

(* The attempt of j keeps what it holds.                                   *)
Holds(j) ==
  /\ attempt'[j].capacityReserved <=> attempt[j].capacityReserved
  /\ attempt[j].capacityReserved => attempt'[j].runtime = attempt[j].runtime

LEMMA HoldersFinite ==
  ASSUME NEW r PROVE IsFiniteSet(SlotHolders(r))
BY JobsAssumption, FS_Subset DEF SlotHolders

LEMMA SlotsKept ==
  ASSUME CapacityConserved, \A j \in Jobs : Holds(j),
         \A r \in Runtimes : runtime'[r].capacityUsed = runtime[r].capacityUsed
  PROVE  CapacityConserved'
<1>1. \A r \in Runtimes : SlotHolders(r)' = SlotHolders(r)
  BY DEF SlotHolders, Holds
<1> QED
  BY <1>1 DEF CapacityConserved

LEMMA SlotTaken ==
  ASSUME CapacityConserved, TypeOK, NEW j \in Jobs, NEW q \in Runtimes,
         ~attempt[j].capacityReserved,
         attempt'[j].capacityReserved, attempt'[j].runtime = q,
         \A i \in Jobs : i # j => attempt'[i] = attempt[i],
         runtime' = [runtime EXCEPT ![q].capacityUsed = @ + 1]
  PROVE  CapacityConserved'
<1>1. runtime \in [Runtimes -> RuntimeRows]
  BY DEF TypeOK
<1>2. \A r \in Runtimes :
        SlotHolders(r)' = IF r = q THEN SlotHolders(r) \cup {j}
                                   ELSE SlotHolders(r)
  BY DEF SlotHolders
<1>3. Cardinality(SlotHolders(q) \cup {j}) = Cardinality(SlotHolders(q)) + 1
  <2>1. j \notin SlotHolders(q)
    BY DEF SlotHolders
  <2> QED
    BY <2>1, HoldersFinite, FS_AddElement
<1>4. \A r \in Runtimes :
        runtime'[r].capacityUsed = IF r = q THEN runtime[r].capacityUsed + 1
                                            ELSE runtime[r].capacityUsed
  BY <1>1 DEF RuntimeRows
<1> QED
  BY <1>2, <1>3, <1>4 DEF CapacityConserved

LEMMA SlotReleased ==
  ASSUME CapacityConserved, TypeOK, NEW j \in Jobs,
         attempt[j].capacityReserved, attempt[j].runtime \in Runtimes,
         ~attempt'[j].capacityReserved,
         \A i \in Jobs : i # j => attempt'[i] = attempt[i],
         ReleaseSlot(j)
  PROVE  CapacityConserved'
<1> DEFINE q == attempt[j].runtime
<1>1. runtime \in [Runtimes -> RuntimeRows]
  BY DEF TypeOK
<1>2. \A r \in Runtimes :
        SlotHolders(r)' = IF r = q THEN SlotHolders(r) \ {j}
                                   ELSE SlotHolders(r)
  BY DEF SlotHolders
<1>3. Cardinality(SlotHolders(q) \ {j}) = Cardinality(SlotHolders(q)) - 1
  <2>1. j \in SlotHolders(q)
    BY DEF SlotHolders
  <2> QED
    BY <2>1, HoldersFinite, FS_RemoveElement
<1>4. \A r \in Runtimes :
        runtime'[r].capacityUsed = IF r = q THEN runtime[r].capacityUsed - 1
                                            ELSE runtime[r].capacityUsed
  BY <1>1 DEF ReleaseSlot, RuntimeRows
<1> QED
  BY <1>2, <1>3, <1>4 DEF CapacityConserved

(* A fenced command that ends the running state gives one slot back.       *)
LEMMA RunningLeaves ==
  ASSUME SlotInv, NEW j \in Jobs, NEW w, NEW g, Fenced(j, w, g),
         ~attempt'[j].capacityReserved,
         \A i \in Jobs : i # j => attempt'[i] = attempt[i],
         ReleaseSlot(j)
  PROVE  CapacityConserved'
<1>1. attempt[j].status = "running"
  BY DEF Fenced
<1>2. attempt[j].capacityReserved
  BY <1>1 DEF SlotInv, ControlSound, LeaseMatchesGrant
<1>3. attempt[j].runtime \in Runtimes
  BY <1>1 DEF SlotInv, ControlSound, StatusesAgree
<1> QED
  BY <1>2, <1>3, SlotReleased DEF SlotInv, ControlSound

LEMMA SlotStep ==
  ASSUME SlotInv, [Next]_vars PROVE CapacityConserved'
<1>1. /\ CapacityConserved /\ TypeOK /\ StatusesAgree /\ LeaseMatchesGrant
      /\ attempt \in [Jobs -> AttemptRows]
      /\ runtime \in [Runtimes -> RuntimeRows]
  BY DEF SlotInv, ControlSound, TypeOK
<1>2. CASE UNCHANGED <<attempt, runtime>>
  BY <1>1, <1>2, SlotsKept DEF Holds
<1>3. ASSUME NEW k \in Jobs, UNCHANGED runtime, Holds(k),
             \A i \in Jobs : i # k => attempt'[i] = attempt[i]
      PROVE  CapacityConserved'
  BY <1>1, <1>3, SlotsKept DEF Holds
<1>4. ASSUME NEW j \in Jobs, Admission(j) PROVE CapacityConserved'
  (* The attempt that is created replaces none.                            *)
  <2>1. attempt[j].status = "none" \/ UNCHANGED attempt
    BY <1>1, <1>4
    DEF Admission, CreateQueued, CreateBlocked, StatusesAgree, AgreeingStatuses
  <2>2. UNCHANGED runtime
    BY <1>4 DEF Admission, CreateQueued, CreateBlocked
  <2>3. CASE attempt[j].status = "none"
    <3>1. ~attempt[j].capacityReserved
      BY <1>1, <2>3 DEF LeaseMatchesGrant
    <3>2. \/ UNCHANGED attempt
          \/ \E r \in Runtimes :
               attempt' = [attempt EXCEPT ![j] = [NoAttemptRow EXCEPT
                             !.status = "pending", !.runtime = r]]
      BY <1>4 DEF Admission, CreateQueued, CreateBlocked
    <3>3. \A r : ~[NoAttemptRow EXCEPT !.status = "pending",
                                       !.runtime = r].capacityReserved
      BY DEF NoAttemptRow
    <3>4. Holds(j)
      BY <1>1, <3>1, <3>2, <3>3 DEF Holds
    <3>5. \A i \in Jobs : i # j => attempt'[i] = attempt[i]
      BY <1>1, <3>2
    <3> QED
      BY <1>3, <2>2, <3>4, <3>5
  <2> QED
    BY <1>2, <2>1, <2>2, <2>3
<1>5. ASSUME NEW j \in Jobs, NEW w \in Workers, Claim(j, w)
      PROVE  CapacityConserved'
  <2>1. /\ attempt'[j].capacityReserved
        /\ attempt'[j].runtime = attempt[j].runtime
        /\ \A i \in Jobs : i # j => attempt'[i] = attempt[i]
    <3>1. Grant(j, w)
      BY <1>5 DEF Claim, ClaimPending, ClaimSuspended, Reclaim
    <3> QED
      BY <1>1, <3>1 DEF Grant, AttemptRows
  <2>2. CASE ClaimPending(j, w) \/ ClaimSuspended(j, w)
    <3>1. /\ ~attempt[j].capacityReserved
          /\ attempt[j].status \in {"pending", "waiting_input"}
          /\ runtime' = [runtime EXCEPT ![attempt[j].runtime].capacityUsed = @ + 1]
      BY <2>2 DEF ClaimPending, ClaimSuspended, ReserveSlot
    <3>2. attempt[j].runtime \in Runtimes
      BY <1>1, <3>1 DEF StatusesAgree
    <3> QED
      BY <1>1, <2>1, <3>1, <3>2, SlotTaken
  <2>3. CASE Reclaim(j, w)
    BY <1>3, <2>1, <2>3 DEF Reclaim, Holds
  <2> QED
    BY <1>5, <2>2, <2>3 DEF Claim
<1>6. ASSUME NEW j \in Jobs, NEW w \in Workers, NEW g \in Generations,
             WorkerCommand(j, w, g)
      PROVE  CapacityConserved'
  <2>1. CASE Heartbeat(j, w, g)
    BY <1>1, <1>3, <2>1 DEF Heartbeat, Holds, AttemptRows
  <2>2. CASE WaitForInput(j, w, g)
    BY <1>1, <2>2, RunningLeaves DEF WaitForInput, Unleased, AttemptRows
  <2>3. ASSUME NEW outcome \in Outcomes, Complete(j, w, g, outcome)
        PROVE  CapacityConserved'
    BY <1>1, <2>3, RunningLeaves DEF Complete, Unleased, AttemptRows
  <2>4. ASSUME NEW discardable \in DiscardChoices,
               Quarantine(j, w, g, discardable)
        PROVE  CapacityConserved'
    BY <1>1, <2>4, RunningLeaves DEF Quarantine, Unleased, AttemptRows
  <2>5. ASSUME NEW i \in Generations, ResolveRecovery(j, w, g, i)
        PROVE  CapacityConserved'
    BY <1>2, <2>5 DEF ResolveRecovery
  <2> QED
    BY <1>6, <2>1, <2>2, <2>3, <2>4, <2>5 DEF WorkerCommand
<1>7. ASSUME NEW j \in Jobs, HumanCommand(j) PROVE CapacityConserved'
  <2>1. CASE ReadForCancel(j)
    BY <1>2, <2>1 DEF ReadForCancel
  <2>2. ASSUME NEW g \in Generations, AnswerInput(j, g)
        PROVE  CapacityConserved'
    BY <1>1, <1>3, <2>2 DEF AnswerInput, Holds, AttemptRows
  <2>3. ASSUME NEW i \in Generations, NEW a \in {"retry", "discard"},
               RequestRecovery(j, i, a)
        PROVE  CapacityConserved'
    BY <1>1, <1>3, <2>3 DEF RequestRecovery, Unleased, Holds, AttemptRows
  <2> QED
    BY <1>7, <2>1, <2>2, <2>3 DEF HumanCommand
<1>8. CASE CommitCancel
  (* An attempt that is cancelled with its job held nothing.               *)
  <2>1. PICK j \in Jobs : j = cancelCall.job
    BY <1>1, <1>8 DEF TypeOK, CancelCalls, CommitCancel
  <2>2. UNCHANGED runtime
    BY <1>8 DEF CommitCancel
  <2>3. CASE CommitGracefully
    BY <1>2, <2>2, <2>3 DEF CommitGracefully
  <2>4. CASE CommitDirectly
    BY <1>1, <1>3, <2>1, <2>2, <2>4 DEF CommitDirectly, Holds, AttemptRows
  <2> QED
    BY <1>8, <2>3, <2>4 DEF CommitCancel
<1>9. ASSUME NEW j \in Jobs, Tick(j) PROVE CapacityConserved'
  BY <1>1, <1>3, <1>9 DEF Tick, Holds, AttemptRows
<1>10. ASSUME NEW r \in Runtimes, NEW enabled \in EnabledChoices,
              NEW total \in CapacityChoices, RegisterRuntime(r, enabled, total)
       PROVE  CapacityConserved'
  (* A registration never writes the counter.                              *)
  BY <1>1, <1>10, SlotsKept DEF RegisterRuntime, Holds, RuntimeRows
<1>11. CASE \/ ReadForAdmission
            \/ AbortCancel
            \/ \E t \in Tasks, status \in TaskStatuses : MoveTask(t, status)
            \/ UNCHANGED vars
  BY <1>2, <1>11 DEF ReadForAdmission, AbortCancel, MoveTask, vars
<1> QED
  BY <1>4, <1>5, <1>6, <1>7, <1>8, <1>9, <1>10, <1>11 DEF Next

LEMMA SlotInit == ASSUME Init PROVE CapacityConserved
<1>1. \A r \in Runtimes : SlotHolders(r) = {}
  BY DEF Init, SlotHolders, NoAttemptRow
<1>2. \A r \in Runtimes : runtime[r].capacityUsed = 0
  BY DEF Init
<1> QED
  BY <1>1, <1>2, FS_EmptySet DEF CapacityConserved

(* No slot leaks and none is given back twice, through claims, reclaims,   *)
(* suspensions, completions, quarantines and cancellations.                *)
THEOREM Capacity == Spec => []CapacityConserved
<1>1. Init => CapacityConserved
  BY SlotInit
<1>2. ControlSound /\ CapacityConserved /\ [Next]_vars => CapacityConserved'
  BY SlotStep DEF SlotInv
<1> QED
  BY <1>1, <1>2, Control, PTL DEF Spec

-----------------------------------------------------------------------------
(* The execution control plane implements JobContract: first that the end  *)
(* of a job is announced exactly once, then that every transaction maps to *)
(* a step of the contract or to a stutter.                                 *)

(* What a step adds to the outbox, and which jobs it ends: the completions *)
(* it adds are those of the jobs it ends, under their new revision.        *)
OutboxGrows ==
  /\ outbox \subseteq outbox'
  /\ \A o \in outbox' \ outbox : o.topic = "completed" =>
       ~Terminal(o.job) /\ Terminal(o.job)' /\ o = CompletedRow(o.job)
  /\ \A j \in Jobs : ~Terminal(j) /\ Terminal(j)' =>
       CompletedRow(j) \in outbox' /\ job'[j].revision = job[j].revision + 1

(* A job moves and the others do not.                                      *)
Moved(j, status) ==
  /\ job'[j].status = status
  /\ job'[j].revision = job[j].revision + 1
  /\ \A i \in Jobs : i # j => job'[i] = job[i]

LEMMA MoveJobMoves ==
  ASSUME TypeOK, NEW j \in Jobs, NEW status, MoveJob(j, status)
  PROVE  Moved(j, status)
BY DEF TypeOK, JobRows, MoveJob, Moved

(* A move that ends no job, and announces no end.                          *)
LEMMA OutboxQuiet ==
  ASSUME outbox \subseteq outbox',
         \A o \in outbox' \ outbox : o.topic # "completed",
         \A j \in Jobs : Terminal(j)' => Terminal(j)
  PROVE  OutboxGrows
BY DEF OutboxGrows

LEMMA OutboxMoved ==
  ASSUME NEW j \in Jobs, NEW status, status \notin Outcomes, Moved(j, status)
  PROVE  \A i \in Jobs : Terminal(i)' => Terminal(i)
BY DEF Moved, Terminal

(* A move that ends a job, and announces that.                             *)
LEMMA OutboxEnded ==
  ASSUME NEW j \in Jobs, ~Terminal(j),
         NEW outcome \in Outcomes, Moved(j, outcome),
         NEW rows, \A o \in rows : o.topic # "completed",
         Enqueue({CompletedRow(j)} \cup rows)
  PROVE  OutboxGrows
<1>1. outbox' = outbox \cup {CompletedRow(j)} \cup rows
  BY DEF Enqueue
<1>2. CompletedRow(j).job = j
  BY DEF CompletedRow
<1>3. Terminal(j)' /\ job'[j].revision = job[j].revision + 1
  BY DEF Moved, Terminal
<1>4. \A i \in Jobs : i # j => (Terminal(i)' <=> Terminal(i))
  BY DEF Moved, Terminal
<1> QED
  BY <1>1, <1>2, <1>3, <1>4 DEF OutboxGrows

LEMMA InputRowTopic ==
  ASSUME NEW j, NEW g, NEW rev,
         NEW topic \in {"input_requested", "input_answered", "input_cancelled"}
  PROVE  InputRow(j, topic, g, rev).topic # "completed"
BY DEF InputRow

LEMMA CancelMoves ==
  ASSUME ControlSound, CommitCancel
  PROVE  /\ cancelCall.job \in Jobs
         /\ job[cancelCall.job].status = cancelCall.status
         /\ \/ CommitGracefully /\ Moved(cancelCall.job, "cancel_requested")
            \/ CommitDirectly /\ Moved(cancelCall.job, "cancelled")
<1> DEFINE j == cancelCall.job
<1>1. job \in [Jobs -> JobRows] /\ j \in Jobs
  BY DEF ControlSound, TypeOK, CancelCalls, CommitCancel
<1>2. job[j].status = cancelCall.status
  BY DEF CommitCancel, CallIsCurrent
<1>3. CASE CommitGracefully
  BY <1>1, <1>3 DEF CommitGracefully, Moved, JobRows
<1>4. CASE CommitDirectly
  BY <1>1, <1>4 DEF CommitDirectly, Moved, JobRows
<1> QED
  BY <1>1, <1>2, <1>3, <1>4 DEF CommitCancel

LEMMA AdmissionMoves ==
  ASSUME ControlSound, UnbornInv, NEW j \in Jobs, Admission(j)
  PROVE  \E status \in {"queued", "blocked"} : Moved(j, status)
<1>1. /\ job \in [Jobs -> JobRows]
      /\ job[j] = NoJobRow
  BY DEF ControlSound, TypeOK, UnbornInv, Admission, CreateQueued, CreateBlocked
<1>2. \E status \in {"queued", "blocked"}, t \in Tasks \cup {NoTask} :
        job' = [job EXCEPT ![j] =
                  [status |-> status, revision |-> 1,
                   cancelRequestedAt |-> FALSE, teamTask |-> t]]
  BY DEF Admission, CreateQueued, CreateBlocked
<1> QED
  BY <1>1, <1>2 DEF Moved, NoJobRow

LEMMA OutboxStep ==
  ASSUME ControlSound, UnbornInv, [Next]_vars PROVE OutboxGrows
<1>1. TypeOK
  BY DEF ControlSound
<1>2. CASE UNCHANGED <<job, outbox>>
  BY <1>2, OutboxQuiet DEF Terminal
<1>3. ASSUME NEW j \in Jobs, NEW status, status \notin Outcomes,
             Moved(j, status), outbox \subseteq outbox',
             \A o \in outbox' \ outbox : o.topic # "completed"
      PROVE  OutboxGrows
  BY <1>3, OutboxMoved, OutboxQuiet
<1>4. ASSUME NEW j \in Jobs, Admission(j) PROVE OutboxGrows
  <2>1. UNCHANGED outbox
    BY <1>4 DEF Admission, CreateQueued, CreateBlocked
  <2> QED
    BY <1>3, <1>4, <2>1, AdmissionMoves DEF Outcomes
<1>5. ASSUME NEW j \in Jobs, NEW w \in Workers, Claim(j, w)
      PROVE  OutboxGrows
  <2>1. CASE ClaimPending(j, w)
    <3>1. Moved(j, "running") /\ UNCHANGED outbox
      BY <1>1, <2>1, MoveJobMoves DEF ClaimPending
    <3> QED
      BY <1>3, <3>1 DEF Outcomes
  <2>2. CASE ClaimSuspended(j, w) \/ Reclaim(j, w)
    BY <1>2, <2>2 DEF ClaimSuspended, Reclaim
  <2> QED
    BY <1>5, <2>1, <2>2 DEF Claim
<1>6. ASSUME NEW j \in Jobs, NEW w \in Workers, NEW g \in Generations,
             WorkerCommand(j, w, g)
      PROVE  OutboxGrows
  <2>1. CASE WaitForInput(j, w, g)
    <3>1. Moved(j, "waiting_input")
      BY <1>1, <2>1, MoveJobMoves DEF WaitForInput
    <3>2. /\ outbox' = outbox \cup {InputRow(j, "input_requested", g, 1)}
          /\ InputRow(j, "input_requested", g, 1).topic # "completed"
      BY <2>1, InputRowTopic DEF WaitForInput, Enqueue
    <3> QED
      BY <1>3, <3>1, <3>2 DEF Outcomes
  <2>2. ASSUME NEW outcome \in Outcomes, Complete(j, w, g, outcome)
        PROVE  OutboxGrows
    <3> DEFINE rows == IF outcome = "cancelled"
                         THEN {InputRow(j, "input_cancelled", c, 2) :
                                 c \in CancelledInputs(j)}
                         ELSE {}
    <3>1. Moved(j, outcome) /\ Enqueue({CompletedRow(j)} \cup rows)
      BY <1>1, <2>2, MoveJobMoves DEF Complete
    <3>2. ~Terminal(j)
      BY <2>2 DEF Complete, OutcomeAllowed, Terminal, Outcomes
    <3>3. \A o \in rows : o.topic # "completed"
      BY InputRowTopic
    <3> HIDE DEF rows
    <3> QED
      BY <3>1, <3>2, <3>3, OutboxEnded
  <2>3. ASSUME NEW discardable \in DiscardChoices,
               Quarantine(j, w, g, discardable)
        PROVE  OutboxGrows
    <3>1. Moved(j, "blocked") /\ UNCHANGED outbox
      BY <1>1, <2>3, MoveJobMoves DEF Quarantine
    <3> QED
      BY <1>3, <3>1 DEF Outcomes
  <2>4. CASE UNCHANGED <<job, outbox>>
    BY <1>2, <2>4
  <2> QED
    BY <1>6, <2>1, <2>2, <2>3, <2>4
    DEF WorkerCommand, Heartbeat, ResolveRecovery
<1>7. ASSUME NEW j \in Jobs, HumanCommand(j) PROVE OutboxGrows
  <2>1. CASE ReadForCancel(j)
    BY <1>2, <2>1 DEF ReadForCancel
  <2>2. ASSUME NEW g \in Generations, AnswerInput(j, g) PROVE OutboxGrows
    <3>1. Moved(j, "queued")
      BY <1>1, <2>2, MoveJobMoves DEF AnswerInput
    <3>2. /\ outbox' = outbox \cup {InputRow(j, "input_answered", g, 2)}
          /\ InputRow(j, "input_answered", g, 2).topic # "completed"
      BY <2>2, InputRowTopic DEF AnswerInput, Enqueue
    <3> QED
      BY <1>3, <3>1, <3>2 DEF Outcomes
  <2>3. ASSUME NEW i \in Generations, NEW a \in {"retry", "discard"},
               RequestRecovery(j, i, a)
        PROVE  OutboxGrows
    <3>1. Moved(j, "queued") /\ UNCHANGED outbox
      BY <1>1, <2>3, MoveJobMoves DEF RequestRecovery
    <3> QED
      BY <1>3, <3>1 DEF Outcomes
  <2> QED
    BY <1>7, <2>1, <2>2, <2>3 DEF HumanCommand
<1>8. CASE CommitCancel
  <2>1. PICK j \in Jobs : j = cancelCall.job
    BY <1>8, CancelMoves
  <2>2. CASE CommitGracefully /\ Moved(j, "cancel_requested")
    <3>1. UNCHANGED outbox
      BY <2>2 DEF CommitGracefully
    <3> QED
      BY <1>3, <2>2, <3>1 DEF Outcomes
  <2>3. CASE CommitDirectly /\ Moved(j, "cancelled")
    <3>1. ~Terminal(j)
      BY <1>8, <2>1, <2>3, CancelMoves DEF CommitDirectly, Terminal, Outcomes
    <3> DEFINE rows == {}
    <3>2. Enqueue({CompletedRow(j)} \cup rows)
      BY <2>1, <2>3 DEF CommitDirectly
    <3>3. /\ "cancelled" \in Outcomes
          /\ \A o \in rows : o.topic # "completed"
      BY DEF Outcomes
    <3> HIDE DEF rows
    <3> QED
      BY <2>3, <3>1, <3>2, <3>3, OutboxEnded
  <2> QED
    BY <1>8, <2>1, <2>2, <2>3, CancelMoves
<1>9. CASE \/ ReadForAdmission
           \/ AbortCancel
           \/ \E j \in Jobs : Tick(j)
           \/ \E r \in Runtimes, enabled \in EnabledChoices,
                 total \in CapacityChoices : RegisterRuntime(r, enabled, total)
           \/ \E t \in Tasks, status \in TaskStatuses : MoveTask(t, status)
           \/ UNCHANGED vars
  <2>1. UNCHANGED <<job, outbox>>
    BY <1>9 DEF ReadForAdmission, AbortCancel, Tick, RegisterRuntime, MoveTask,
                vars
  <2> QED
    BY <1>2, <2>1
<1> QED
  BY <1>4, <1>5, <1>6, <1>7, <1>8, <1>9 DEF Next

LEMMA AnnouncedStep ==
  ASSUME ControlSound, UnbornInv, CompletionAnnouncedOnce, [Next]_vars
  PROVE  CompletionAnnouncedOnce'
<1>1. SUFFICES ASSUME NEW j \in Jobs
               PROVE  CompletionsOf(j)' =
                        IF Terminal(j)'
                          THEN {[job |-> j, topic |-> "completed", request |-> 0,
                                 revision |-> job'[j].revision]}
                          ELSE {}
  BY DEF CompletionAnnouncedOnce
<1>2. OutboxGrows
  BY OutboxStep
<1>3. CASE Terminal(j)
  <2>1. job'[j] = job[j]
    BY <1>3, EndedStep
  <2>2. CompletionsOf(j)' = CompletionsOf(j)
    BY <1>2, <1>3 DEF OutboxGrows, CompletionsOf
  <2> QED
    BY <1>3, <2>1, <2>2 DEF CompletionAnnouncedOnce, Terminal
<1>4. CASE ~Terminal(j) /\ Terminal(j)'
  <2>1. CompletionsOf(j) = {}
    BY <1>4 DEF CompletionAnnouncedOnce
  <2>2. CompletionsOf(j)' = {CompletedRow(j)}
    BY <1>2, <1>4, <2>1 DEF OutboxGrows, CompletionsOf, CompletedRow
  <2> QED
    BY <1>2, <1>4, <2>2 DEF OutboxGrows, CompletedRow
<1>5. CASE ~Terminal(j) /\ ~Terminal(j)'
  <2>1. CompletionsOf(j) = {}
    BY <1>5 DEF CompletionAnnouncedOnce
  <2>2. CompletionsOf(j)' = {}
    BY <1>2, <1>5, <2>1 DEF OutboxGrows, CompletionsOf
  <2> QED
    BY <1>5, <2>2
<1> QED
  BY <1>3, <1>4, <1>5

(* The Room is told of the end of a job once, by the step that ends it, and *)
(* never of a job that may still run.                                       *)
THEOREM Announcement == Spec => []CompletionAnnouncedOnce
<1>1. Init => CompletionAnnouncedOnce
  BY DEF Init, CompletionAnnouncedOnce, CompletionsOf, Terminal, Outcomes,
         NoJobRow
<1>2. ControlSound /\ UnbornInv /\ CompletionAnnouncedOnce /\ [Next]_vars
        => CompletionAnnouncedOnce'
  BY AnnouncedStep
<1> QED
  BY <1>1, <1>2, Control, Unborn, PTL DEF Spec

-----------------------------------------------------------------------------
(* The refinement: the variables of the contract, and what the parts of a  *)
(* transaction do to them.                                                 *)

Phases == [j \in Jobs |-> job[j].status]
Revisions == [j \in Jobs |-> job[j].revision]
Tokens == [j \in Jobs |-> attempt[j].generation]
Told == [j \in Jobs |-> {o.revision : o \in CompletionsOf(j)}]

ContractInv == ControlSound /\ UnbornInv /\ CompletionAnnouncedOnce

LEMMA MovedMapped ==
  ASSUME TypeOK, NEW j \in Jobs, NEW status, Moved(j, status)
  PROVE  /\ Phases' = [Phases EXCEPT ![j] = status]
         /\ Revisions' = [Revisions EXCEPT ![j] = @ + 1]
BY DEF Moved, Phases, Revisions

LEMMA GrantMapped ==
  ASSUME TypeOK, NEW j \in Jobs, NEW w \in Workers, Grant(j, w)
  PROVE  Contract!Issue(j)
<1>1. attempt \in [Jobs -> AttemptRows]
  BY DEF TypeOK
<1>2. /\ attempt'[j].generation = attempt[j].generation + 1
      /\ \A i \in Jobs : i # j => attempt'[i] = attempt[i]
      /\ writer' = [writer EXCEPT ![j] = attempt[j].generation + 1]
  BY <1>1 DEF Grant, AttemptRows
<1>3. Tokens' = [Tokens EXCEPT ![j] = @ + 1]
  BY <1>2 DEF Tokens
<1>4. writer' = [writer EXCEPT ![j] = Tokens[j] + 1]
  BY <1>2 DEF Tokens
<1> QED
  BY <1>3, <1>4 DEF Contract!Issue, Tokens

(* A live lease is that of the last writer, and its renewal writes nothing *)
(* new.                                                                    *)
LEMMA FencedMapped ==
  ASSUME ControlSound, NEW j \in Jobs, NEW w \in Workers, NEW g \in Generations,
         Fenced(j, w, g)
  PROVE  /\ Contract!Current(j)
         /\ [writer EXCEPT ![j] = g] = writer
<1>1. writer[j] = g /\ Tokens[j] = g
  BY DEF Fenced, ControlSound, LeaseMatchesGrant, Tokens
<1> QED
  BY <1>1 DEF Contract!Current, Tokens, ControlSound, TypeOK

LEMMA TokensKept ==
  ASSUME \A j \in Jobs : attempt'[j].generation = attempt[j].generation
  PROVE  Tokens' = Tokens
BY DEF Tokens

LEMMA ToldKept ==
  ASSUME outbox \subseteq outbox',
         \A o \in outbox' \ outbox : o.topic # "completed"
  PROVE  Told' = Told
<1>1. \A j \in Jobs : CompletionsOf(j)' = CompletionsOf(j)
  BY DEF CompletionsOf
<1> QED
  BY <1>1 DEF Told

LEMMA ToldEnded ==
  ASSUME ContractInv, ContractInv', NEW j \in Jobs, NEW outcome \in Outcomes,
         ~Terminal(j), Moved(j, outcome)
  PROVE  Told' = [Told EXCEPT ![j] = {Revisions[j] + 1}]
<1>1. /\ Terminal(j)' /\ job'[j].revision = job[j].revision + 1
      /\ \A i \in Jobs : i # j => job'[i] = job[i]
  BY DEF Moved, Terminal
<1>2. CompletionsOf(j)' = {[job |-> j, topic |-> "completed", request |-> 0,
                            revision |-> job[j].revision + 1]}
  BY <1>1 DEF ContractInv, CompletionAnnouncedOnce
<1>3. \A i \in Jobs : i # j => CompletionsOf(i)' = CompletionsOf(i)
  BY <1>1 DEF ContractInv, CompletionAnnouncedOnce, Terminal
<1>4. {o.revision : o \in CompletionsOf(j)'} = {job[j].revision + 1}
  BY <1>2
<1> QED
  BY <1>3, <1>4 DEF Told, Revisions

LEMMA ContractStep ==
  ASSUME ContractInv, ContractInv', [Next]_vars
  PROVE  [Contract!Next]_(Contract!contractVars)
<1> USE DEF Contract!Move, Phases, Revisions, Tokens, Told
<1>1. /\ ControlSound /\ UnbornInv /\ TypeOK
      /\ attempt \in [Jobs -> AttemptRows]
      /\ writer \in [Jobs -> 0 .. MaxGeneration]
  BY DEF ContractInv, ControlSound, TypeOK
<1>2. CASE /\ UNCHANGED <<job, writer, outbox>>
           /\ \A j \in Jobs : attempt'[j].generation = attempt[j].generation
  <2>1. Tokens' = Tokens /\ Told' = Told
    BY <1>2, TokensKept, ToldKept
  <2> QED
    BY <1>2, <2>1 DEF Contract!contractVars
<1>3. ASSUME NEW j \in Jobs, Admission(j) PROVE Contract!Next
  <2>1. PICK status \in {"queued", "blocked"} : Moved(j, status)
    BY <1>1, <1>3, AdmissionMoves
  <2>2. job[j].status = "none" /\ attempt[j].generation = 0
    <3>1. job[j].status = "none"
      BY <1>3 DEF Admission, CreateQueued, CreateBlocked
    <3>2. attempt[j].status = "none"
      BY <1>1, <3>1 DEF ControlSound, StatusesAgree, AgreeingStatuses
    <3>3. attempt[j] = NoAttemptRow
      BY <1>1, <3>2 DEF ControlSound, StatusesAgree
    <3> QED
      BY <3>1, <3>3 DEF NoAttemptRow
  <2>3. Tokens' = Tokens
    <3>1. \/ UNCHANGED attempt
          \/ \E r \in Runtimes :
               attempt' = [attempt EXCEPT ![j] = [NoAttemptRow EXCEPT
                             !.status = "pending", !.runtime = r]]
      BY <1>3 DEF Admission, CreateQueued, CreateBlocked
    <3>2. \A r : [NoAttemptRow EXCEPT !.status = "pending",
                                      !.runtime = r].generation = 0
      BY DEF NoAttemptRow
    <3>3. attempt'[j].generation = 0
      BY <1>1, <2>2, <3>1, <3>2
    <3>4. \A i \in Jobs : i # j => attempt'[i] = attempt[i]
      BY <1>1, <3>1
    <3> QED
      BY <2>2, <3>3, <3>4
  <2>4. Told' = Told /\ UNCHANGED writer
    BY <1>3, ToldKept DEF Admission, CreateQueued, CreateBlocked
  <2>5. Contract!Admit(j)
    BY <1>1, <2>1, <2>2, <2>3, <2>4, MovedMapped DEF Contract!Admit
  <2> QED
    BY <2>5 DEF Contract!Next
<1>4. ASSUME NEW j \in Jobs, NEW w \in Workers, Claim(j, w)
      PROVE  Contract!Next
  <2>1. Contract!Issue(j) /\ Told' = Told
    BY <1>1, <1>4, GrantMapped, ToldKept
    DEF Claim, ClaimPending, ClaimSuspended, Reclaim
  <2>2. CASE ClaimPending(j, w)
    <3>1. Moved(j, "running") /\ job[j].status = "queued"
      BY <1>1, <2>2, MoveJobMoves DEF ClaimPending
    <3>2. Contract!Start(j)
      BY <1>1, <2>1, <3>1, MovedMapped DEF Contract!Start
    <3> QED
      BY <3>2 DEF Contract!Next
  <2>3. CASE ClaimSuspended(j, w) \/ Reclaim(j, w)
    <3>1. /\ job[j].status \in {"running", "cancel_requested"}
          /\ UNCHANGED job
      BY <2>3 DEF ClaimSuspended, Reclaim, JobOpen
    <3>2. Contract!Takeover(j)
      BY <2>1, <3>1 DEF Contract!Takeover
    <3> QED
      BY <3>2 DEF Contract!Next
  <2> QED
    BY <1>4, <2>2, <2>3 DEF Claim
<1>5. ASSUME NEW j \in Jobs, NEW w \in Workers, NEW g \in Generations,
             WorkerCommand(j, w, g)
      PROVE  [Contract!Next]_(Contract!contractVars)
  <2>1. /\ Fenced(j, w, g) /\ attempt[j].generation = g
        /\ Contract!Current(j) /\ UNCHANGED writer
    <3>1. Fenced(j, w, g) /\ writer' = [writer EXCEPT ![j] = g]
      BY <1>5 DEF WorkerCommand, Heartbeat, WaitForInput, Complete, Quarantine,
                  ResolveRecovery
    <3> QED
      BY <1>1, <3>1, FencedMapped DEF Fenced
  <2>2. CASE Heartbeat(j, w, g)
    BY <1>1, <1>2, <2>1, <2>2 DEF Heartbeat, AttemptRows
  <2>3. CASE WaitForInput(j, w, g)
    <3>1. Moved(j, "waiting_input") /\ job[j].status = "running"
      BY <1>1, <2>3, MoveJobMoves DEF WaitForInput
    <3>2. Tokens' = [Tokens EXCEPT ![j] = @ + 1]
      BY <1>1, <2>1, <2>3 DEF WaitForInput, Unleased, AttemptRows
    <3>3. Told' = Told
      BY <2>3, ToldKept, InputRowTopic DEF WaitForInput, Enqueue
    <3>4. Contract!Ask(j)
      BY <1>1, <2>1, <3>1, <3>2, <3>3, MovedMapped DEF Contract!Ask
    <3> QED
      BY <3>4 DEF Contract!Next
  <2>4. ASSUME NEW outcome \in Outcomes, Complete(j, w, g, outcome)
        PROVE  Contract!Next
    <3>1. /\ Moved(j, outcome) /\ ~Terminal(j)
          /\ \/ job[j].status = "running"
             \/ job[j].status = "cancel_requested" /\ outcome = "cancelled"
      BY <1>1, <2>4, MoveJobMoves
      DEF Complete, OutcomeAllowed, Terminal, Outcomes
    <3>2. Tokens' = Tokens
      BY <1>1, <2>4 DEF Complete, Unleased, AttemptRows
    <3>3. Told' = [Told EXCEPT ![j] = {Revisions[j] + 1}]
      BY <3>1, ToldEnded
    <3>4. Contract!End(j)
      <4>1. \/ /\ job[j].status = "running"
               /\ outcome \in {"succeeded", "failed", "cancelled"}
            \/ /\ job[j].status = "cancel_requested"
               /\ outcome = "cancelled"
        BY <3>1 DEF Outcomes
      <4>2. /\ Phases' = [Phases EXCEPT ![j] = outcome]
            /\ Revisions' = [Revisions EXCEPT ![j] = @ + 1]
        BY <1>1, <3>1, MovedMapped
      <4> QED
        BY <2>1, <3>2, <3>3, <4>1, <4>2 DEF Contract!End
    <3> QED
      BY <3>4 DEF Contract!Next
  <2>5. ASSUME NEW discardable \in DiscardChoices,
               Quarantine(j, w, g, discardable)
        PROVE  Contract!Next
    <3>1. /\ Moved(j, "blocked")
          /\ job[j].status \in {"running", "cancel_requested"}
      BY <1>1, <2>5, MoveJobMoves DEF Quarantine, JobOpen
    <3>2. Tokens' = Tokens /\ Told' = Told
      BY <1>1, <2>5, ToldKept DEF Quarantine, Unleased, AttemptRows
    <3>3. Contract!Quarantine(j)
      BY <1>1, <2>1, <3>1, <3>2, MovedMapped DEF Contract!Quarantine
    <3> QED
      BY <3>3 DEF Contract!Next
  <2>6. ASSUME NEW i \in Generations, ResolveRecovery(j, w, g, i)
        PROVE  [Contract!Next]_(Contract!contractVars)
    BY <1>2, <2>1, <2>6 DEF ResolveRecovery
  <2> QED
    BY <1>5, <2>2, <2>3, <2>4, <2>5, <2>6 DEF WorkerCommand
<1>6. ASSUME NEW j \in Jobs, HumanCommand(j)
      PROVE  [Contract!Next]_(Contract!contractVars)
  <2>1. CASE ReadForCancel(j)
    BY <1>2, <2>1 DEF ReadForCancel
  <2>2. ASSUME NEW g \in Generations, AnswerInput(j, g) PROVE Contract!Next
    <3>1. Moved(j, "queued") /\ job[j].status = "waiting_input"
      BY <1>1, <2>2, MoveJobMoves DEF AnswerInput
    <3>2. Tokens' = Tokens /\ UNCHANGED writer
      BY <1>1, <2>2 DEF AnswerInput, AttemptRows
    <3>3. Told' = Told
      BY <2>2, ToldKept, InputRowTopic DEF AnswerInput, Enqueue
    <3>4. Contract!Requeue(j)
      BY <1>1, <3>1, <3>2, <3>3, MovedMapped DEF Contract!Requeue
    <3> QED
      BY <3>4 DEF Contract!Next
  <2>3. ASSUME NEW i \in Generations, NEW a \in {"retry", "discard"},
               RequestRecovery(j, i, a)
        PROVE  Contract!Next
    <3>1. Moved(j, "queued") /\ job[j].status = "blocked"
      BY <1>1, <2>3, MoveJobMoves DEF RequestRecovery
    <3>2. Tokens' = Tokens /\ Told' = Told /\ UNCHANGED writer
      BY <1>1, <2>3, ToldKept DEF RequestRecovery, Unleased, AttemptRows
    <3>3. Contract!Requeue(j)
      BY <1>1, <3>1, <3>2, MovedMapped DEF Contract!Requeue
    <3> QED
      BY <3>3 DEF Contract!Next
  <2> QED
    BY <1>6, <2>1, <2>2, <2>3 DEF HumanCommand
<1>7. CASE CommitCancel
  <2>1. PICK j \in Jobs : j = cancelCall.job
    BY <1>1, <1>7, CancelMoves
  <2>2. job[j].status = cancelCall.status /\ UNCHANGED writer
    BY <1>1, <1>7, <2>1, CancelMoves DEF CommitCancel
  <2>3. CASE CommitGracefully /\ Moved(j, "cancel_requested")
    <3>1. /\ job[j].status \in {"running", "waiting_input"}
          /\ Tokens' = Tokens /\ Told' = Told
      BY <2>2, <2>3, ToldKept DEF CommitGracefully
    <3>2. Contract!RequestCancel(j)
      BY <1>1, <2>2, <2>3, <3>1, MovedMapped DEF Contract!RequestCancel
    <3> QED
      BY <3>2 DEF Contract!Next
  <2>4. CASE CommitDirectly /\ Moved(j, "cancelled")
    <3>1. job[j].status \in {"queued", "blocked"} /\ ~Terminal(j)
      BY <2>2, <2>4 DEF CommitDirectly, Terminal, Outcomes
    <3>2. Tokens' = Tokens
      BY <1>1, <2>1, <2>4 DEF CommitDirectly, AttemptRows
    <3>3. Told' = [Told EXCEPT ![j] = {Revisions[j] + 1}]
      BY <2>4, <3>1, ToldEnded DEF Outcomes
    <3>4. Contract!End(j)
      BY <1>1, <2>2, <2>4, <3>1, <3>2, <3>3, MovedMapped DEF Contract!End
    <3> QED
      BY <3>4 DEF Contract!Next
  <2> QED
    BY <1>1, <1>7, <2>1, <2>3, <2>4, CancelMoves
<1>8. CASE \E j \in Jobs : Tick(j)
  BY <1>1, <1>2, <1>8 DEF Tick, AttemptRows
<1>9. CASE \/ ReadForAdmission
           \/ AbortCancel
           \/ \E r \in Runtimes, enabled \in EnabledChoices,
                 total \in CapacityChoices : RegisterRuntime(r, enabled, total)
           \/ \E t \in Tasks, status \in TaskStatuses : MoveTask(t, status)
           \/ UNCHANGED vars
  <2>1. UNCHANGED <<job, attempt, writer, outbox>>
    BY <1>9 DEF ReadForAdmission, AbortCancel, RegisterRuntime, MoveTask, vars
  <2> QED
    BY <1>2, <2>1
<1> QED
  BY <1>3, <1>4, <1>5, <1>6, <1>7, <1>8, <1>9 DEF Next

(* The rows and transactions of the control plane keep the contract: one   *)
(* status graph counted by revisions, one current token, one announced end. *)
THEOREM Implementation == Spec => KeepsContract
<1>1. Spec => []ContractInv
  BY Control, Unborn, Announcement, PTL DEF ContractInv
<1>2. ContractInv /\ ContractInv' /\ [Next]_vars
        => [Contract!Next]_(Contract!contractVars)
  BY ContractStep
<1>3. Init => Contract!Init
  BY DEF Init, Contract!Init, NoJobRow, NoAttemptRow, CompletionsOf
<1> QED
  BY <1>1, <1>2, <1>3, PTL DEF Spec, KeepsContract, Contract!Spec

-----------------------------------------------------------------------------
(* The rows that people act on: the questions of a suspended job, what the *)
(* Room is told of them, and the incident of a quarantined attempt.        *)

(* Questions.  Of one job: the pending one, the withdrawn ones, and for    *)
(* each of them the rows of the outbox.                                    *)

OneQuestion(j) ==
  IF job[j].status = "waiting_input"
    THEN \E g \in Generations : PendingRequests(j) = {g}
    ELSE PendingRequests(j) = {}
WithdrawnByCancel(j) == CancelledInputs(j) # {} => job[j].cancelRequestedAt
Announced(j, g) ==
  /\ InputRow(j, "input_requested", g, 1) \in outbox
       <=> request[j][g] # "none"
  /\ InputRow(j, "input_answered", g, 2) \in outbox
       <=> request[j][g] = "answered"
  /\ InputRow(j, "input_cancelled", g, 2) \in outbox
       => request[j][g] = "cancelled" /\ job[j].status = "cancelled"

QuestionsOf(j) ==
  /\ OneQuestion(j)
  /\ WithdrawnByCancel(j)
  /\ \A g \in Generations : Announced(j, g)
QuestionInv == \A j \in Jobs : QuestionsOf(j)

(* A question whose rows are not added to stays as it was announced.       *)
LEMMA RowsKept ==
  ASSUME NEW j \in Jobs, NEW g \in Generations, Announced(j, g),
         request'[j][g] = request[j][g],
         job[j].status = "cancelled" => job'[j].status = "cancelled",
         outbox \subseteq outbox',
         \A o \in outbox' \ outbox :
           o.topic = "completed" \/ o.job # j \/ o.request # g
  PROVE  Announced(j, g)'
BY DEF Announced, InputRow

(* A job that neither asks, hears nor withdraws anything.                  *)
LEMMA QuestionsKept ==
  ASSUME NEW j \in Jobs, QuestionsOf(j), request'[j] = request[j],
         job'[j].status = "waiting_input" <=> job[j].status = "waiting_input",
         job[j].cancelRequestedAt => job'[j].cancelRequestedAt,
         job[j].status = "cancelled" => job'[j].status = "cancelled",
         outbox \subseteq outbox',
         \A o \in outbox' \ outbox : o.topic = "completed" \/ o.job # j
  PROVE  QuestionsOf(j)'
<1>1. /\ PendingRequests(j)' = PendingRequests(j)
      /\ CancelledInputs(j)' = CancelledInputs(j)
  BY DEF PendingRequests, CancelledInputs
<1>2. OneQuestion(j)'
  BY <1>1 DEF QuestionsOf, OneQuestion
<1>3. WithdrawnByCancel(j)'
  BY <1>1 DEF QuestionsOf, WithdrawnByCancel
<1>4. \A g \in Generations : Announced(j, g)'
  BY RowsKept DEF QuestionsOf
<1> QED
  BY <1>2, <1>3, <1>4 DEF QuestionsOf

(* A transaction on one job is none on the others.                         *)
LEMMA QuestionsOfOthers ==
  ASSUME QuestionInv, NEW j \in Jobs, QuestionsOf(j)',
         \A i \in Jobs : i # j => job'[i] = job[i] /\ request'[i] = request[i],
         outbox \subseteq outbox',
         \A o \in outbox' \ outbox : o.topic = "completed" \/ o.job = j
  PROVE  QuestionInv'
<1>1. ASSUME NEW i \in Jobs, i # j PROVE QuestionsOf(i)'
  BY <1>1, QuestionsKept DEF QuestionInv
<1> QED
  BY <1>1 DEF QuestionInv

(* MoveJob keeps the record of a cancellation.                             *)
LEMMA MoveKeepsRequest ==
  ASSUME TypeOK, NEW j \in Jobs, NEW status, MoveJob(j, status)
  PROVE  /\ job'[j].cancelRequestedAt = job[j].cancelRequestedAt
         /\ job'[j].status = status
         /\ \A i \in Jobs : i # j => job'[i] = job[i]
BY DEF MoveJob, TypeOK, JobRows

LEMMA QuestionAsked ==
  ASSUME TypeOK, QuestionInv, NEW j \in Jobs, NEW w \in Workers,
         NEW g \in Generations, WaitForInput(j, w, g)
  PROVE  QuestionInv'
<1> DEFINE row == InputRow(j, "input_requested", g, 1)
<1>1. /\ job[j].status = "running" /\ request[j][g] = "none"
      /\ job'[j].status = "waiting_input"
      /\ job'[j].cancelRequestedAt = job[j].cancelRequestedAt
      /\ \A i \in Jobs : i # j => job'[i] = job[i]
  BY MoveKeepsRequest DEF WaitForInput
<1>2. /\ request'[j][g] = "pending"
      /\ \A h \in Generations : h # g => request'[j][h] = request[j][h]
      /\ \A i \in Jobs : i # j => request'[i] = request[i]
  BY DEF WaitForInput, TypeOK
<1>3. outbox' = outbox \cup {row}
  BY DEF WaitForInput, Enqueue
<1>4. PendingRequests(j) = {} /\ WithdrawnByCancel(j)
  BY <1>1 DEF QuestionInv, QuestionsOf, OneQuestion
<1>5. PendingRequests(j)' = {g}
  BY <1>2, <1>4 DEF PendingRequests
<1>6. CancelledInputs(j)' = CancelledInputs(j)
  BY <1>1, <1>2 DEF CancelledInputs
<1>7. OneQuestion(j)' /\ WithdrawnByCancel(j)'
  BY <1>1, <1>4, <1>5, <1>6 DEF OneQuestion, WithdrawnByCancel
<1>8. Announced(j, g)'
  <2>1. Announced(j, g)
    BY DEF QuestionInv, QuestionsOf
  <2> QED
    BY <1>1, <1>2, <1>3, <2>1 DEF Announced, InputRow
<1>9. \A h \in Generations : h # g => Announced(j, h)'
  <2>1. row.request = g
    BY DEF InputRow
  <2> HIDE DEF row
  <2>2. ASSUME NEW h \in Generations, h # g PROVE Announced(j, h)'
    BY <1>1, <1>2, <1>3, <2>1, <2>2, RowsKept DEF QuestionInv, QuestionsOf
  <2> QED
    BY <2>2
<1>10. QuestionsOf(j)'
  BY <1>7, <1>8, <1>9 DEF QuestionsOf
<1>11. \A o \in outbox' \ outbox : o.job = j
  BY <1>3 DEF InputRow
<1> QED
  BY <1>1, <1>2, <1>3, <1>10, <1>11, QuestionsOfOthers

LEMMA QuestionAnswered ==
  ASSUME TypeOK, QuestionInv, NEW j \in Jobs, NEW g \in Generations,
         AnswerInput(j, g)
  PROVE  QuestionInv'
<1> DEFINE row == InputRow(j, "input_answered", g, 2)
<1>1. /\ job[j].status = "waiting_input" /\ request[j][g] = "pending"
      /\ job'[j].status = "queued"
      /\ job'[j].cancelRequestedAt = job[j].cancelRequestedAt
      /\ \A i \in Jobs : i # j => job'[i] = job[i]
  BY MoveKeepsRequest DEF AnswerInput
<1>2. /\ request'[j][g] = "answered"
      /\ \A h \in Generations : h # g => request'[j][h] = request[j][h]
      /\ \A i \in Jobs : i # j => request'[i] = request[i]
  BY DEF AnswerInput, TypeOK
<1>3. outbox' = outbox \cup {row}
  BY DEF AnswerInput, Enqueue
<1>4. PendingRequests(j) = {g} /\ WithdrawnByCancel(j)
  <2>1. g \in PendingRequests(j)
    BY <1>1 DEF PendingRequests
  <2> QED
    BY <1>1, <2>1 DEF QuestionInv, QuestionsOf, OneQuestion
<1>5. PendingRequests(j)' = {}
  BY <1>2, <1>4 DEF PendingRequests
<1>6. CancelledInputs(j)' = CancelledInputs(j)
  BY <1>1, <1>2 DEF CancelledInputs
<1>7. OneQuestion(j)' /\ WithdrawnByCancel(j)'
  BY <1>1, <1>4, <1>5, <1>6 DEF OneQuestion, WithdrawnByCancel
<1>8. Announced(j, g)'
  <2>1. Announced(j, g)
    BY DEF QuestionInv, QuestionsOf
  <2> QED
    BY <1>1, <1>2, <1>3, <2>1 DEF Announced, InputRow
<1>9. \A h \in Generations : h # g => Announced(j, h)'
  <2>1. row.request = g
    BY DEF InputRow
  <2> HIDE DEF row
  <2>2. ASSUME NEW h \in Generations, h # g PROVE Announced(j, h)'
    BY <1>1, <1>2, <1>3, <2>1, <2>2, RowsKept DEF QuestionInv, QuestionsOf
  <2> QED
    BY <2>2
<1>10. QuestionsOf(j)'
  BY <1>7, <1>8, <1>9 DEF QuestionsOf
<1>11. \A o \in outbox' \ outbox : o.job = j
  BY <1>3 DEF InputRow
<1> QED
  BY <1>1, <1>2, <1>3, <1>10, <1>11, QuestionsOfOthers

LEMMA QuestionsEnded ==
  ASSUME TypeOK, QuestionInv, NEW j \in Jobs, NEW w \in Workers,
         NEW g \in Generations, NEW outcome \in Outcomes,
         Complete(j, w, g, outcome)
  PROVE  QuestionInv'
<1> DEFINE rows == IF outcome = "cancelled"
                     THEN {InputRow(j, "input_cancelled", c, 2) :
                             c \in CancelledInputs(j)}
                     ELSE {}
<1>1. /\ job[j].status \in {"running", "cancel_requested"}
      /\ job'[j].status = outcome
      /\ job'[j].cancelRequestedAt = job[j].cancelRequestedAt
      /\ \A i \in Jobs : i # j => job'[i] = job[i]
      /\ request' = request
  BY MoveKeepsRequest DEF Complete, OutcomeAllowed
<1>2. outbox' = outbox \cup ({CompletedRow(j)} \cup rows)
  BY DEF Complete, Enqueue
<1>3. outcome # "waiting_input"
  BY DEF Outcomes
<1>4. /\ PendingRequests(j)' = PendingRequests(j)
      /\ CancelledInputs(j)' = CancelledInputs(j)
  BY <1>1 DEF PendingRequests, CancelledInputs
<1>5. OneQuestion(j)' /\ WithdrawnByCancel(j)'
  <2>1. OneQuestion(j) /\ WithdrawnByCancel(j)
    BY DEF QuestionInv, QuestionsOf
  <2> QED
    BY <1>1, <1>3, <1>4, <2>1 DEF OneQuestion, WithdrawnByCancel
<1>6. \A h \in Generations : Announced(j, h)'
  <2> SUFFICES ASSUME NEW h \in Generations PROVE Announced(j, h)'
    OBVIOUS
  <2>1. Announced(j, h)
    BY DEF QuestionInv, QuestionsOf
  <2>2. \A o \in {CompletedRow(j)} \cup rows :
          \/ o.topic = "completed"
          \/ /\ o.topic = "input_cancelled" /\ outcome = "cancelled"
             /\ o.request \in CancelledInputs(j)
    BY DEF CompletedRow, InputRow
  <2> DEFINE requested == InputRow(j, "input_requested", h, 1)
             answered == InputRow(j, "input_answered", h, 2)
             cancelled == InputRow(j, "input_cancelled", h, 2)
  <2>3. /\ requested.topic = "input_requested"
        /\ answered.topic = "input_answered"
        /\ cancelled.topic = "input_cancelled" /\ cancelled.request = h
    BY DEF InputRow
  <2>4. /\ requested \in outbox' <=> requested \in outbox
        /\ answered \in outbox' <=> answered \in outbox
        /\ cancelled \in outbox' =>
             \/ cancelled \in outbox
             \/ outcome = "cancelled" /\ h \in CancelledInputs(j)
    <3> HIDE DEF rows, requested, answered, cancelled
    <3> QED
      BY <1>2, <2>2, <2>3
  <2>5. cancelled \notin outbox
    BY <1>1, <2>1 DEF Announced
  <2>6. request'[j][h] = request[j][h]
    BY <1>1
  <2>7. h \in CancelledInputs(j) => request[j][h] = "cancelled"
    BY DEF CancelledInputs
  <2> QED
    BY <1>1, <2>1, <2>4, <2>5, <2>6, <2>7 DEF Announced
<1>7. QuestionsOf(j)'
  BY <1>5, <1>6 DEF QuestionsOf
<1>8. \A o \in outbox' \ outbox : o.topic = "completed" \/ o.job = j
  BY <1>2 DEF CompletedRow, InputRow
<1>9. /\ outbox \subseteq outbox'
      /\ \A i \in Jobs : i # j => request'[i] = request[i]
  BY <1>1, <1>2
<1> QED
  BY <1>1, <1>7, <1>8, <1>9, QuestionsOfOthers

LEMMA QuestionsWithdrawn ==
  ASSUME TypeOK, QuestionInv, NEW j \in Jobs, j = cancelCall.job,
         job[j].status = cancelCall.status, CommitGracefully
  PROVE  QuestionInv'
<1>1. /\ job[j].status \in {"running", "waiting_input"}
      /\ job'[j].status = "cancel_requested" /\ job'[j].cancelRequestedAt
      /\ \A i \in Jobs : i # j => job'[i] = job[i]
      /\ outbox' = outbox
  BY DEF CommitGracefully, TypeOK, JobRows
<1>2. /\ \A i \in Jobs : i # j => request'[i] = request[i]
      /\ \A h \in Generations : request'[j][h] =
           IF /\ request[j][h] = "pending"
              /\ job[j].status = "waiting_input" THEN "cancelled"
                                                 ELSE request[j][h]
  <2>1. CASE cancelCall.status = "waiting_input"
    BY <2>1 DEF CommitGracefully, TypeOK
  <2>2. CASE cancelCall.status # "waiting_input"
    BY <2>2 DEF CommitGracefully
  <2> QED
    BY <2>1, <2>2
<1>3. PendingRequests(j)' = {}
  <2>1. job[j].status # "waiting_input" => PendingRequests(j) = {}
    BY DEF QuestionInv, QuestionsOf, OneQuestion
  <2> QED
    BY <1>2, <2>1 DEF PendingRequests
<1>4. OneQuestion(j)' /\ WithdrawnByCancel(j)'
  BY <1>1, <1>3 DEF OneQuestion, WithdrawnByCancel
<1>5. \A h \in Generations : Announced(j, h)'
  <2> SUFFICES ASSUME NEW h \in Generations PROVE Announced(j, h)'
    OBVIOUS
  <2>1. Announced(j, h)
    BY DEF QuestionInv, QuestionsOf
  <2> QED
    BY <1>1, <1>2, <2>1 DEF Announced
<1>6. QuestionsOf(j)'
  BY <1>4, <1>5 DEF QuestionsOf
<1> QED
  BY <1>1, <1>2, <1>6, QuestionsOfOthers

(* A job that moves between statuses in which nothing is asked.            *)
LEMMA QuestionsMoved ==
  ASSUME TypeOK, QuestionInv, NEW j \in Jobs, NEW status,
         status # "waiting_input",
         job[j].status \notin {"waiting_input", "cancelled"},
         job'[j].status = status,
         job[j].cancelRequestedAt => job'[j].cancelRequestedAt,
         \A i \in Jobs : i # j => job'[i] = job[i],
         request' = request, outbox \subseteq outbox',
         \A o \in outbox' \ outbox : o.topic = "completed"
  PROVE  QuestionInv'
<1>1. QuestionsOf(j)
  BY DEF QuestionInv
<1>2. QuestionsOf(j)'
  BY <1>1, QuestionsKept
<1> QED
  BY <1>2, QuestionsOfOthers

LEMMA QuestionStep ==
  ASSUME ControlSound, UnbornInv, QuestionInv, [Next]_vars PROVE QuestionInv'
<1>1. TypeOK
  BY DEF ControlSound
<1>2. CASE UNCHANGED <<job, request, outbox>>
  BY <1>2, QuestionsKept DEF QuestionInv
<1>3. ASSUME NEW j \in Jobs, Admission(j) PROVE QuestionInv'
  <2>1. job[j].status = "none" /\ ~job[j].cancelRequestedAt
    <3>1. job[j].status = "none"
      BY <1>3, Zenon DEF Admission, CreateQueued, CreateBlocked
    <3> QED
      BY <3>1 DEF UnbornInv, NoJobRow
  <2>2. PICK status \in {"queued", "blocked"} : Moved(j, status)
    BY <1>3, AdmissionMoves
  <2>3. request' = request /\ outbox' = outbox
    BY <1>3 DEF Admission, CreateQueued, CreateBlocked
  <2>4. /\ status # "waiting_input" /\ job'[j].status = status
        /\ \A i \in Jobs : i # j => job'[i] = job[i]
    BY <2>2 DEF Moved
  <2>5. /\ job[j].status \notin {"waiting_input", "cancelled"}
        /\ job[j].cancelRequestedAt => job'[j].cancelRequestedAt
        /\ outbox \subseteq outbox'
        /\ \A o \in outbox' \ outbox : o.topic = "completed"
    BY <2>1, <2>3
  <2> QED
    BY <1>1, <2>3, <2>4, <2>5, QuestionsMoved
<1>4. ASSUME NEW j \in Jobs, NEW w \in Workers, Claim(j, w)
      PROVE  QuestionInv'
  <2>1. CASE ClaimPending(j, w)
    BY <1>1, <2>1, MoveKeepsRequest, QuestionsMoved DEF ClaimPending
  <2>2. CASE ClaimSuspended(j, w) \/ Reclaim(j, w)
    BY <1>2, <2>2 DEF ClaimSuspended, Reclaim
  <2> QED
    BY <1>4, <2>1, <2>2 DEF Claim
<1>5. ASSUME NEW j \in Jobs, NEW w \in Workers, NEW g \in Generations,
             WorkerCommand(j, w, g)
      PROVE  QuestionInv'
  <2>1. CASE WaitForInput(j, w, g)
    BY <1>1, <2>1, QuestionAsked
  <2>2. ASSUME NEW outcome \in Outcomes, Complete(j, w, g, outcome)
        PROVE  QuestionInv'
    BY <1>1, <2>2, QuestionsEnded
  <2>3. ASSUME NEW discardable \in DiscardChoices,
               Quarantine(j, w, g, discardable)
        PROVE  QuestionInv'
    <3>1. /\ job'[j].status = "blocked"
          /\ job'[j].cancelRequestedAt = job[j].cancelRequestedAt
          /\ \A i \in Jobs : i # j => job'[i] = job[i]
      BY <1>1, <2>3, MoveKeepsRequest DEF Quarantine
    <3>2. /\ job[j].status \notin {"waiting_input", "cancelled"}
          /\ request' = request /\ outbox' = outbox
      BY <2>3 DEF Quarantine, JobOpen
    <3>3. /\ outbox \subseteq outbox'
          /\ \A o \in outbox' \ outbox : o.topic = "completed"
      BY <3>2
    <3> QED
      BY <1>1, <3>1, <3>2, <3>3, QuestionsMoved
  <2>4. CASE UNCHANGED <<job, request, outbox>>
    BY <1>2, <2>4
  <2> QED
    BY <1>5, <2>1, <2>2, <2>3, <2>4
    DEF WorkerCommand, Heartbeat, ResolveRecovery
<1>6. ASSUME NEW j \in Jobs, HumanCommand(j) PROVE QuestionInv'
  <2>1. CASE ReadForCancel(j)
    BY <1>2, <2>1 DEF ReadForCancel
  <2>2. ASSUME NEW g \in Generations, AnswerInput(j, g) PROVE QuestionInv'
    BY <1>1, <2>2, QuestionAnswered
  <2>3. ASSUME NEW i \in Generations, NEW a \in {"retry", "discard"},
               RequestRecovery(j, i, a)
        PROVE  QuestionInv'
    BY <1>1, <2>3, MoveKeepsRequest, QuestionsMoved DEF RequestRecovery
  <2> QED
    BY <1>6, <2>1, <2>2, <2>3 DEF HumanCommand
<1>7. CASE CommitCancel
  <2>1. PICK j \in Jobs : j = cancelCall.job /\ job[j].status = cancelCall.status
    BY <1>7, CancelMoves
  <2>2. CASE CommitGracefully
    BY <1>1, <2>1, <2>2, QuestionsWithdrawn
  <2>3. CASE CommitDirectly
    <3>1. /\ job[j].status \in {"queued", "blocked"}
          /\ job'[j].status = "cancelled" /\ job'[j].cancelRequestedAt
          /\ \A i \in Jobs : i # j => job'[i] = job[i]
          /\ request' = request /\ outbox' = outbox \cup {CompletedRow(j)}
      BY <1>1, <2>1, <2>3 DEF CommitDirectly, Enqueue, TypeOK, JobRows
    <3>2. CompletedRow(j).topic = "completed"
      BY DEF CompletedRow
    <3> QED
      BY <1>1, <3>1, <3>2, QuestionsMoved
  <2> QED
    BY <1>7, <2>2, <2>3 DEF CommitCancel
<1>8. CASE \/ ReadForAdmission
           \/ AbortCancel
           \/ \E j \in Jobs : Tick(j)
           \/ \E r \in Runtimes, enabled \in EnabledChoices,
                 total \in CapacityChoices : RegisterRuntime(r, enabled, total)
           \/ \E t \in Tasks, status \in TaskStatuses : MoveTask(t, status)
           \/ UNCHANGED vars
  <2>1. UNCHANGED <<job, request, outbox>>
    BY <1>8 DEF ReadForAdmission, AbortCancel, Tick, RegisterRuntime, MoveTask,
                vars
  <2> QED
    BY <1>2, <2>1
<1> QED
  BY <1>3, <1>4, <1>5, <1>6, <1>7, <1>8 DEF Next

LEMMA QuestionInit == ASSUME Init PROVE QuestionInv
<1> SUFFICES ASSUME NEW j \in Jobs PROVE QuestionsOf(j)
  BY DEF QuestionInv
<1>1. PendingRequests(j) = {} /\ CancelledInputs(j) = {}
  BY DEF Init, PendingRequests, CancelledInputs
<1>2. job[j].status = "none" /\ outbox = {}
  BY DEF Init, NoJobRow
<1>3. \A g \in Generations : request[j][g] = "none"
  BY DEF Init
<1> QED
  BY <1>1, <1>2, <1>3
  DEF QuestionsOf, OneQuestion, WithdrawnByCancel, Announced

LEMMA QuestionsCounted == ASSUME QuestionInv PROVE QuestionsSound
<1>1. ASSUME NEW j \in Jobs
      PROVE  Cardinality(PendingRequests(j)) =
               IF job[j].status = "waiting_input" THEN 1 ELSE 0
  BY FS_Singleton, FS_EmptySet DEF QuestionInv, QuestionsOf, OneQuestion
<1>2. QuestionsSettled
  BY <1>1 DEF QuestionsSettled, QuestionInv, QuestionsOf, WithdrawnByCancel
<1>3. QuestionsAnnounced
  BY DEF QuestionsAnnounced, QuestionInv, QuestionsOf, Announced
<1> QED
  BY <1>2, <1>3 DEF QuestionsSound

(* A job waits for a person exactly while one question is pending, only a  *)
(* cancellation withdraws one, and the Room is told of each question what  *)
(* became of it.                                                           *)
THEOREM Questions == Spec => []QuestionsSound
<1>1. ControlSound /\ UnbornInv /\ QuestionInv /\ [Next]_vars => QuestionInv'
  BY QuestionStep
<1>2. Init => QuestionInv
  BY QuestionInit
<1>3. Spec => [](ControlSound /\ UnbornInv)
  BY Control, Unborn, PTL
<1>4. Spec => []QuestionInv
  BY <1>1, <1>2, <1>3, PTL DEF Spec
<1> QED
  BY <1>4, QuestionsCounted, PTL

-----------------------------------------------------------------------------
(* Incidents.  A step that opens or closes none keeps every attempt that   *)
(* is quarantined, under its generation, and quarantines none.             *)

LEMMA IncidentsKept ==
  ASSUME IncidentMatchesQuarantine, incident' = incident,
         \A j \in Jobs :
           \/ /\ attempt'[j].status = attempt[j].status
              /\ attempt'[j].generation = attempt[j].generation
           \/ /\ attempt[j].status # "quarantined"
              /\ attempt'[j].status # "quarantined"
  PROVE  IncidentMatchesQuarantine'
BY DEF IncidentMatchesQuarantine

LEMMA IncidentOpened ==
  ASSUME TypeOK, IncidentMatchesQuarantine, NEW j \in Jobs, NEW w \in Workers,
         NEW g \in Generations, NEW discardable \in DiscardChoices,
         Quarantine(j, w, g, discardable)
  PROVE  IncidentMatchesQuarantine'
<1>1. attempt[j].status = "running" /\ attempt[j].generation = g
  BY DEF Quarantine, Fenced
<1>2. \A i \in Generations : incident[j][i].status # "open"
  BY <1>1 DEF IncidentMatchesQuarantine
<1>3. /\ attempt'[j].status = "quarantined" /\ attempt'[j].generation = g
      /\ \A k \in Jobs : k # j => attempt'[k] = attempt[k]
  <2>1. attempt' = [attempt EXCEPT ![j] = Unleased(attempt[j], "quarantined")]
    BY DEF Quarantine
  <2>2. /\ Unleased(attempt[j], "quarantined").status = "quarantined"
        /\ Unleased(attempt[j], "quarantined").generation = g
    BY <1>1 DEF Unleased, TypeOK, AttemptRows
  <2> QED
    BY <2>1, <2>2 DEF TypeOK
<1>4. \A k \in Jobs : k # j => incident'[k] = incident[k]
  BY DEF Quarantine, TypeOK
<1>5. ASSUME NEW i \in Generations
      PROVE  incident'[j][i].status = "open" <=> i = g
  <2>1. incident'[j][i] =
          IF i = g
            THEN [NoIncidentRow EXCEPT !.status = "open",
                                       !.discardable = discardable]
            ELSE IF /\ incident[j][i].status = "action_requested"
                    /\ incident[j][i].action = "retry"
                   THEN [incident[j][i] EXCEPT !.status = "resolved",
                                               !.resolution = "superseded"]
                   ELSE incident[j][i]
    BY DEF Quarantine, TypeOK
  <2>2. incident[j][i] \in IncidentRows
    BY DEF TypeOK
  <2>3. CASE i = g
    BY <2>1, <2>3 DEF NoIncidentRow
  <2>4. CASE /\ i # g
             /\ incident[j][i].status = "action_requested"
             /\ incident[j][i].action = "retry"
    BY <2>1, <2>2, <2>4 DEF IncidentRows
  <2>5. CASE /\ i # g
             /\ ~(/\ incident[j][i].status = "action_requested"
                  /\ incident[j][i].action = "retry")
    BY <1>2, <2>1, <2>5
  <2> QED
    BY <2>3, <2>4, <2>5
<1> QED
  BY <1>3, <1>4, <1>5 DEF IncidentMatchesQuarantine

LEMMA IncidentClosed ==
  ASSUME TypeOK, IncidentMatchesQuarantine, NEW j \in Jobs,
         NEW i \in Generations, NEW action \in {"retry", "discard"},
         RequestRecovery(j, i, action)
  PROVE  IncidentMatchesQuarantine'
<1>1. attempt[j].status = "quarantined" /\ attempt[j].generation = i
  BY DEF RequestRecovery
<1>2. \A h \in Generations : h # i => incident[j][h].status # "open"
  BY <1>1 DEF IncidentMatchesQuarantine
<1>3. /\ attempt'[j].status = "pending"
      /\ \A k \in Jobs : k # j => attempt'[k] = attempt[k]
  <2>1. attempt' = [attempt EXCEPT ![j] = Unleased(attempt[j], "pending")]
    BY DEF RequestRecovery
  <2>2. Unleased(attempt[j], "pending").status = "pending"
    BY DEF Unleased, TypeOK, AttemptRows
  <2> QED
    BY <2>1, <2>2 DEF TypeOK
<1>4. /\ incident'[j][i].status = "action_requested"
      /\ \A h \in Generations : h # i => incident'[j][h] = incident[j][h]
      /\ \A k \in Jobs : k # j => incident'[k] = incident[k]
  BY DEF RequestRecovery, TypeOK, IncidentRows
<1> QED
  BY <1>2, <1>3, <1>4 DEF IncidentMatchesQuarantine

LEMMA IncidentResolved ==
  ASSUME TypeOK, IncidentMatchesQuarantine, NEW j \in Jobs, NEW w \in Workers,
         NEW g \in Generations, NEW i \in Generations,
         ResolveRecovery(j, w, g, i)
  PROVE  IncidentMatchesQuarantine'
<1>1. incident[j][i].status = "action_requested" /\ attempt' = attempt
  BY DEF ResolveRecovery
<1>2. /\ incident'[j][i].status = "resolved"
      /\ \A h \in Generations : h # i => incident'[j][h] = incident[j][h]
      /\ \A k \in Jobs : k # j => incident'[k] = incident[k]
  BY DEF ResolveRecovery, TypeOK, IncidentRows
<1>3. ~(attempt[j].status = "quarantined" /\ attempt[j].generation = i)
  BY <1>1 DEF IncidentMatchesQuarantine
<1> QED
  BY <1>1, <1>2, <1>3 DEF IncidentMatchesQuarantine

LEMMA IncidentStep ==
  ASSUME ControlSound, IncidentMatchesQuarantine, [Next]_vars
  PROVE  IncidentMatchesQuarantine'
<1>1. TypeOK /\ attempt \in [Jobs -> AttemptRows]
  BY DEF ControlSound, TypeOK
<1>2. CASE UNCHANGED <<attempt, incident>>
  BY <1>2, IncidentsKept
<1>3. ASSUME NEW j \in Jobs, incident' = incident,
             attempt[j].status # "quarantined",
             attempt'[j].status # "quarantined",
             \A k \in Jobs : k # j => attempt'[k] = attempt[k]
      PROVE  IncidentMatchesQuarantine'
  BY <1>3, IncidentsKept
<1>4. ASSUME NEW j \in Jobs, Admission(j)
      PROVE  IncidentMatchesQuarantine'
  <2>1. ASSUME NEW r \in Runtimes, NEW t \in Tasks \cup {NoTask},
               CreateQueued(j, r, t)
        PROVE  IncidentMatchesQuarantine'
    <3>1. job[j].status = "none"
      BY <2>1, Zenon DEF CreateQueued
    <3>2. attempt[j].status = "none"
      BY <3>1 DEF ControlSound, StatusesAgree, AgreeingStatuses
    <3> DEFINE row == [NoAttemptRow EXCEPT !.status = "pending", !.runtime = r]
    <3>3. attempt' = [attempt EXCEPT ![j] = row] /\ incident' = incident
      BY <2>1, Zenon DEF CreateQueued
    <3>4. row.status = "pending"
      BY DEF NoAttemptRow
    <3> HIDE DEF row
    <3> QED
      BY <1>1, <1>3, <3>2, <3>3, <3>4
  <2>2. ASSUME NEW t \in Tasks \cup {NoTask}, CreateBlocked(j, t)
        PROVE  IncidentMatchesQuarantine'
    BY <1>2, <2>2 DEF CreateBlocked
  <2> QED
    BY <1>4, <2>1, <2>2 DEF Admission
<1>5. ASSUME NEW j \in Jobs, NEW w \in Workers, Claim(j, w)
      PROVE  IncidentMatchesQuarantine'
  <2>1. attempt[j].status # "quarantined" /\ Grant(j, w) /\ incident' = incident
    BY <1>5 DEF Claim, ClaimPending, ClaimSuspended, Reclaim
  <2>2. /\ attempt'[j].status = "running"
        /\ \A k \in Jobs : k # j => attempt'[k] = attempt[k]
    BY <1>1, <2>1 DEF Grant, AttemptRows
  <2> QED
    BY <1>3, <2>1, <2>2
<1>6. ASSUME NEW j \in Jobs, NEW w \in Workers, NEW g \in Generations,
             WorkerCommand(j, w, g)
      PROVE  IncidentMatchesQuarantine'
  <2>1. CASE Heartbeat(j, w, g)
    <3>1. /\ attempt[j].status = "running" /\ attempt'[j].status = "running"
          /\ \A k \in Jobs : k # j => attempt'[k] = attempt[k]
          /\ incident' = incident
      BY <1>1, <2>1 DEF Heartbeat, Fenced, AttemptRows
    <3> QED
      BY <1>3, <3>1
  <2>2. CASE WaitForInput(j, w, g)
    <3> DEFINE row == Unleased(attempt[j], "waiting_input")
    <3>1. /\ attempt' = [attempt EXCEPT ![j] = [row EXCEPT !.generation = g + 1]]
          /\ attempt[j].status = "running" /\ incident' = incident
      BY <2>2 DEF WaitForInput, Fenced
    <3>2. row \in AttemptRows /\ row.status = "waiting_input"
      <4>1. "waiting_input" \in AttemptStatuses
        BY DEF AttemptStatuses
      <4>2. attempt[j] \in AttemptRows
        BY <1>1
      <4>3. Unleased(attempt[j], "waiting_input") \in AttemptRows
        BY <4>1, <4>2, UnleasedTyped
      <4>4. Unleased(attempt[j], "waiting_input").status = "waiting_input"
        BY <4>2 DEF Unleased, AttemptRows
      <4> QED
        BY <4>3, <4>4
    <3> HIDE DEF row
    <3>3. [row EXCEPT !.generation = g + 1].status = "waiting_input"
      BY <3>2 DEF AttemptRows
    <3> QED
      BY <1>1, <1>3, <3>1, <3>3
  <2>3. ASSUME NEW outcome \in Outcomes, Complete(j, w, g, outcome)
        PROVE  IncidentMatchesQuarantine'
    <3>1. /\ attempt' = [attempt EXCEPT ![j] = Unleased(attempt[j], outcome)]
          /\ attempt[j].status = "running" /\ incident' = incident
      BY <2>3 DEF Complete, Fenced
    <3>2. Unleased(attempt[j], outcome).status = outcome
      BY <1>1 DEF Unleased, AttemptRows
    <3>3. outcome # "quarantined"
      BY DEF Outcomes
    <3> QED
      BY <1>1, <1>3, <3>1, <3>2, <3>3
  <2>4. ASSUME NEW discardable \in DiscardChoices,
               Quarantine(j, w, g, discardable)
        PROVE  IncidentMatchesQuarantine'
    BY <1>1, <2>4, IncidentOpened
  <2>5. ASSUME NEW i \in Generations, ResolveRecovery(j, w, g, i)
        PROVE  IncidentMatchesQuarantine'
    BY <1>1, <2>5, IncidentResolved
  <2> QED
    BY <1>6, <2>1, <2>2, <2>3, <2>4, <2>5 DEF WorkerCommand
<1>7. ASSUME NEW j \in Jobs, HumanCommand(j)
      PROVE  IncidentMatchesQuarantine'
  <2>1. CASE ReadForCancel(j)
    BY <1>2, <2>1 DEF ReadForCancel
  <2>2. ASSUME NEW g \in Generations, AnswerInput(j, g)
        PROVE  IncidentMatchesQuarantine'
    <3>1. /\ attempt[j].status = "waiting_input"
          /\ attempt'[j].status = "pending"
          /\ \A k \in Jobs : k # j => attempt'[k] = attempt[k]
          /\ incident' = incident
      BY <1>1, <2>2 DEF AnswerInput, AttemptRows
    <3> QED
      BY <1>3, <3>1
  <2>3. ASSUME NEW i \in Generations, NEW a \in {"retry", "discard"},
               RequestRecovery(j, i, a)
        PROVE  IncidentMatchesQuarantine'
    BY <1>1, <2>3, IncidentClosed
  <2> QED
    BY <1>7, <2>1, <2>2, <2>3 DEF HumanCommand
<1>8. CASE CommitCancel
  <2>1. PICK j \in Jobs : j = cancelCall.job
    BY <1>8, CancelMoves
  <2>2. incident' = incident
    BY <1>8 DEF CommitCancel
  <2>3. CASE CommitGracefully
    BY <1>2, <2>2, <2>3 DEF CommitGracefully
  <2>4. CASE CommitDirectly /\ AttemptIsIdle(j)
    <3>1. /\ attempt[j].status # "quarantined"
          /\ attempt'[j].status = "cancelled"
          /\ \A k \in Jobs : k # j => attempt'[k] = attempt[k]
      BY <1>1, <2>1, <2>4 DEF CommitDirectly, AttemptIsIdle, AttemptRows
    <3> QED
      BY <1>3, <2>2, <3>1
  <2>5. CASE CommitDirectly /\ ~AttemptIsIdle(j)
    <3>1. attempt' = attempt
      BY <2>1, <2>5 DEF CommitDirectly
    <3> QED
      BY <1>2, <2>2, <3>1
  <2> QED
    BY <1>8, <2>3, <2>4, <2>5 DEF CommitCancel
<1>9. ASSUME NEW j \in Jobs, Tick(j) PROVE IncidentMatchesQuarantine'
  <2>1. /\ attempt[j].status = "running" /\ attempt'[j].status = "running"
        /\ \A k \in Jobs : k # j => attempt'[k] = attempt[k]
        /\ incident' = incident
    BY <1>1, <1>9 DEF Tick, AttemptRows
  <2> QED
    BY <1>3, <2>1
<1>10. CASE \/ ReadForAdmission
            \/ AbortCancel
            \/ \E r \in Runtimes, enabled \in EnabledChoices,
                  total \in CapacityChoices : RegisterRuntime(r, enabled, total)
            \/ \E t \in Tasks, status \in TaskStatuses : MoveTask(t, status)
            \/ UNCHANGED vars
  <2>1. UNCHANGED <<attempt, incident>>
    BY <1>10 DEF ReadForAdmission, AbortCancel, RegisterRuntime, MoveTask, vars
  <2> QED
    BY <1>2, <2>1
<1> QED
  BY <1>4, <1>5, <1>6, <1>7, <1>8, <1>9, <1>10 DEF Next

(* An attempt is quarantined exactly while the incident of its generation  *)
(* is open: no end, cancellation or late worker leaves an incident that    *)
(* nothing stands behind, or a quarantine that no operator sees.           *)
THEOREM Incidents == Spec => []IncidentMatchesQuarantine
<1>1. Init => IncidentMatchesQuarantine
  BY DEF Init, IncidentMatchesQuarantine, NoIncidentRow, NoAttemptRow
<1>2. ControlSound /\ IncidentMatchesQuarantine /\ [Next]_vars
        => IncidentMatchesQuarantine'
  BY IncidentStep
<1>3. Spec => []ControlSound
  BY Control
<1> QED
  BY <1>1, <1>2, <1>3, PTL DEF Spec

-----------------------------------------------------------------------------
(* A Team task follows its jobs and is closed by people.                    *)

(* The end of a job moves an open task to the outcome's target, and leaves  *)
(* a closed one, and all others.                                            *)
LEMMA FinishedTask ==
  ASSUME task \in [Tasks -> TaskStatuses], NEW s, NEW outcome \in Outcomes,
         FinishTask(s, outcome)
  PROVE  /\ s \in Tasks => task'[s] \in {TaskTarget(outcome), "done", "cancelled"}
         /\ \A t \in Tasks :
              /\ task[t] # "done" => task'[t] # "done"
              /\ task[t] \in {"done", "cancelled"} => task'[t] = task[t]
<1>1. TaskTarget(outcome) \in {"review", "blocked", "cancelled"}
  BY DEF TaskTarget, Outcomes
<1>2. CASE s = NoTask \/ task[s] \in {TaskTarget(outcome), "done", "cancelled"}
  BY <1>2, NullAssumption DEF FinishTask
<1>3. CASE ~(s = NoTask \/ task[s] \in {TaskTarget(outcome), "done", "cancelled"})
  <2>1. task' = [task EXCEPT ![s] = TaskTarget(outcome)]
    BY <1>3 DEF FinishTask
  <2> QED
    BY <1>1, <1>3, <2>1
<1> QED
  BY <1>2, <1>3

(* What a step may do to the jobs and the tasks.                            *)
TasksMove ==
  /\ \A j \in Jobs :
       ~Terminal(j) /\ Terminal(j)' /\ job[j].teamTask \in Tasks =>
         task'[job[j].teamTask] \in
           {TaskTarget(job'[j].status), "done", "cancelled"}
  /\ \A t \in Tasks :
       /\ task[t] # "done" /\ task'[t] = "done" =>
            UNCHANGED <<job, attempt, outbox>>
       /\ task[t] \in {"done", "cancelled"} => task'[t] = task[t]

(* A step that moves one job, by a status that is no end.                   *)
LEMMA UnfinishedJob ==
  ASSUME job \in [Jobs -> JobRows], NEW k \in Jobs,
         NEW status \in JobStatuses \ Outcomes, MoveJob(k, status)
  PROVE  \A j \in Jobs : ~Terminal(j) => ~Terminal(j)'
<1>1. SUFFICES ASSUME NEW j \in Jobs, ~Terminal(j) PROVE ~Terminal(j)'
  OBVIOUS
<1>2. CASE j = k
  <2>1. job'[j].status = status
    BY <1>2 DEF MoveJob, JobRows
  <2> QED
    BY <2>1 DEF Terminal
<1>3. CASE j # k
  BY <1>1, <1>3 DEF MoveJob, Terminal
<1> QED
  BY <1>2, <1>3

(* The same for a step that leaves the jobs, or their ends, as they are.    *)
LEMMA TasksRest ==
  ASSUME \A j \in Jobs : ~Terminal(j) => ~Terminal(j)', UNCHANGED task
  PROVE  TasksMove
BY DEF TasksMove

(* A step that ends one job and finishes its task.                          *)
LEMMA TasksEnd ==
  ASSUME TypeOK, NEW k \in Jobs, NEW outcome \in Outcomes,
         FinishTask(job[k].teamTask, outcome),
         job'[k].status = outcome, \A j \in Jobs \ {k} : job'[j] = job[j]
  PROVE  TasksMove
<1>1. task \in [Tasks -> TaskStatuses]
  BY DEF TypeOK
<1>2. /\ job[k].teamTask \in Tasks =>
           task'[job[k].teamTask] \in {TaskTarget(outcome), "done", "cancelled"}
      /\ \A t \in Tasks : /\ task[t] # "done" => task'[t] # "done"
                          /\ task[t] \in {"done", "cancelled"} => task'[t] = task[t]
  BY <1>1, FinishedTask
<1>3. \A j \in Jobs \ {k} : ~Terminal(j) => ~Terminal(j)'
  BY DEF Terminal
<1> QED
  BY <1>2, <1>3 DEF TasksMove

LEMMA TaskStep ==
  ASSUME TypeOK, [Next]_vars
  PROVE  TasksMove
<1>1. job \in [Jobs -> JobRows] /\ task \in [Tasks -> TaskStatuses]
  BY DEF TypeOK
<1>2. ASSUME NEW k \in Jobs, Admission(k) PROVE TasksMove
  <2>1. PICK t \in Tasks \cup {NoTask}, status \in {"queued", "blocked"} :
          /\ job' = [job EXCEPT ![k] = [status |-> status, revision |-> 1,
                                        cancelRequestedAt |-> FALSE, teamTask |-> t]]
          /\ UNCHANGED task \/ StartTask(t)
    BY <1>2 DEF Admission, CreateQueued, CreateBlocked
  <2>2. job'[k].status = status /\ \A j \in Jobs \ {k} : job'[j] = job[j]
    BY <1>1, <2>1
  <2>3. status \notin Outcomes
    BY DEF Outcomes
  <2>4. \A j \in Jobs : ~Terminal(j) => ~Terminal(j)'
    BY <2>2, <2>3 DEF Terminal
  <2>5. \A s \in Tasks : /\ task[s] # "done" => task'[s] # "done"
                         /\ task[s] \in {"done", "cancelled"} => task'[s] = task[s]
    BY <1>1, <2>1 DEF StartTask
  <2> QED
    BY <2>4, <2>5 DEF TasksMove
<1>3. ASSUME NEW k \in Jobs, NEW w \in Workers, Claim(k, w) PROVE TasksMove
  <2>1. CASE ClaimPending(k, w)
    BY <1>1, <2>1, UnfinishedJob, TasksRest DEF ClaimPending, JobStatuses, Outcomes
  <2>2. CASE ClaimSuspended(k, w) \/ Reclaim(k, w)
    BY <2>2, TasksRest DEF ClaimSuspended, Reclaim, Terminal
  <2> QED
    BY <1>3, <2>1, <2>2 DEF Claim
<1>4. ASSUME NEW k \in Jobs, NEW w \in Workers, NEW g \in Generations,
             WorkerCommand(k, w, g)
      PROVE  TasksMove
  <2>1. CASE WaitForInput(k, w, g)
    BY <1>1, <2>1, UnfinishedJob, TasksRest DEF WaitForInput, JobStatuses, Outcomes
  <2>2. ASSUME NEW outcome \in Outcomes, Complete(k, w, g, outcome)
        PROVE  TasksMove
    <3>1. MoveJob(k, outcome) /\ FinishTask(job[k].teamTask, outcome)
      BY <2>2 DEF Complete
    <3>2. job'[k].status = outcome /\ \A j \in Jobs \ {k} : job'[j] = job[j]
      BY <1>1, <3>1 DEF MoveJob, JobRows
    <3> QED
      BY <3>1, <3>2, TasksEnd
  <2>3. ASSUME NEW discardable \in DiscardChoices, Quarantine(k, w, g, discardable)
        PROVE  TasksMove
    BY <1>1, <2>3, UnfinishedJob, TasksRest DEF Quarantine, JobStatuses, Outcomes
  <2>4. ASSUME \/ Heartbeat(k, w, g)
               \/ \E i \in Generations : ResolveRecovery(k, w, g, i)
        PROVE  TasksMove
    BY <2>4, TasksRest DEF Heartbeat, ResolveRecovery, Terminal
  <2> QED
    BY <1>4, <2>1, <2>2, <2>3, <2>4 DEF WorkerCommand
<1>5. ASSUME NEW k \in Jobs, HumanCommand(k) PROVE TasksMove
  <2>1. CASE ReadForCancel(k)
    BY <2>1, TasksRest DEF ReadForCancel, Terminal
  <2>2. ASSUME NEW g \in Generations, AnswerInput(k, g) PROVE TasksMove
    BY <1>1, <2>2, UnfinishedJob, TasksRest DEF AnswerInput, JobStatuses, Outcomes
  <2>3. ASSUME NEW i \in Generations, NEW a \in {"retry", "discard"},
               RequestRecovery(k, i, a)
        PROVE  TasksMove
    BY <1>1, <2>3, UnfinishedJob, TasksRest DEF RequestRecovery, JobStatuses, Outcomes
  <2> QED
    BY <1>5, <2>1, <2>2, <2>3 DEF HumanCommand
<1>6. CASE CommitCancel
  <2>1. PICK k \in Jobs : k = cancelCall.job
    BY <1>6 DEF CommitCancel, TypeOK, CancelCalls
  <2>2. CASE CommitGracefully
    <3>1. job' = [job EXCEPT ![k].status = "cancel_requested", ![k].revision = @ + 1,
                             ![k].cancelRequestedAt = TRUE]
      BY <2>1, <2>2 DEF CommitGracefully
    <3>2. job'[k].status = "cancel_requested" /\ \A j \in Jobs \ {k} : job'[j] = job[j]
      BY <1>1, <3>1 DEF JobRows
    <3>3. \A j \in Jobs : ~Terminal(j) => ~Terminal(j)'
      BY <3>2 DEF Terminal, Outcomes
    <3> QED
      BY <2>2, <3>3, TasksRest DEF CommitGracefully
  <2>3. CASE CommitDirectly
    <3>1. /\ job' = [job EXCEPT ![k].status = "cancelled", ![k].revision = @ + 1,
                                ![k].cancelRequestedAt = TRUE]
          /\ FinishTask(job[k].teamTask, "cancelled")
      BY <2>1, <2>3 DEF CommitDirectly
    <3>2. job'[k].status = "cancelled" /\ \A j \in Jobs \ {k} : job'[j] = job[j]
      BY <1>1, <3>1 DEF JobRows
    <3>3. "cancelled" \in Outcomes
      BY DEF Outcomes
    <3> QED
      BY <3>1, <3>2, <3>3, TasksEnd
  <2> QED
    BY <1>6, <2>2, <2>3 DEF CommitCancel
<1>7. ASSUME NEW t \in Tasks, NEW status \in TaskStatuses, MoveTask(t, status)
      PROVE  TasksMove
  <2>1. task[t] \notin {"done", "cancelled"}
    BY <1>7 DEF MoveTask, TaskMoves
  <2>2. \A s \in Tasks : task[s] \in {"done", "cancelled"} => task'[s] = task[s]
    BY <1>1, <1>7, <2>1 DEF MoveTask
  <2> QED
    BY <1>7, <2>2 DEF MoveTask, Terminal, TasksMove
<1>8. CASE \/ ReadForAdmission
           \/ AbortCancel
           \/ \E j \in Jobs : Tick(j)
           \/ \E r \in Runtimes, enabled \in EnabledChoices,
                 total \in CapacityChoices : RegisterRuntime(r, enabled, total)
           \/ UNCHANGED vars
  BY <1>8, TasksRest DEF ReadForAdmission, AbortCancel, Tick, RegisterRuntime, vars,
                         Terminal
<1> QED
  BY <1>2, <1>3, <1>4, <1>5, <1>6, <1>7, <1>8 DEF Next

(* The outcome of a job and the status of its task commit together, and     *)
(* only a person closes a task as done or moves it where no job does:       *)
(* projectExecutionTerminalToTeamTask runs in the transaction of the end.   *)
THEOREM Projection == Spec => TasksFollow
<1>1. TypeOK /\ [Next]_vars => TasksMove
  BY TaskStep
<1>2. TasksMove => [\A j \in Jobs :
                      ~Terminal(j) /\ Terminal(j)' /\ job[j].teamTask \in Tasks =>
                        task'[job[j].teamTask] \in
                          {TaskTarget(job'[j].status), "done", "cancelled"}]_vars
  BY DEF TasksMove
<1>3. TasksMove => [\A t \in Tasks :
                      /\ task[t] # "done" /\ task'[t] = "done" =>
                           UNCHANGED <<job, attempt, outbox>>
                      /\ task[t] \in {"done", "cancelled"} => task'[t] = task[t]]_vars
  BY DEF TasksMove
<1> QED
  BY <1>1, <1>2, <1>3, Typing, PTL DEF Spec, TasksFollow, OutcomeReachesTask, DoneIsHuman

=============================================================================
