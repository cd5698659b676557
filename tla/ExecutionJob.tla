---------------------------- MODULE ExecutionJob ----------------------------
(***************************************************************************)
(* The durable execution control plane: the rows ExecutionJob,             *)
(* ExecutionAttempt, ExecutionRuntime, ExecutionInputRequest,              *)
(* ExecutionRecoveryIncident, ExecutionOutbox and the TeamTask linked to a *)
(* job, and the commands that change them.  Every command runs its writes  *)
(* in one database transaction, so one action is one committed             *)
(* transaction; a command that throws leaves no trace and is no step.      *)
(*                                                                         *)
(* Admission creates at most one attempt per job and no command creates    *)
(* another, so the attempt row is indexed by its job.  A job, an attempt,  *)
(* a request or an incident that does not exist has the status "none".     *)
(*                                                                         *)
(* Workers are not trusted to be timely: any lease ever granted may be     *)
(* used again, late, twice or after a crash, by the worker that got it.    *)
(* The history variable grant holds those leases, and writer the           *)
(* generation of the last worker command that took effect.                 *)
(***************************************************************************)
EXTENDS Naturals, FiniteSets

CONSTANTS
  Jobs,             \* job ids
  Runtimes,         \* registered execution runtimes
  Workers,          \* daemon worker ids
  Tasks,            \* team tasks a job may be linked to
  NoWorker, NoRuntime, NoTask, NoCall,   \* NULL columns, no call in flight
  CapacityChoices,  \* values a runtime may advertise as capacityTotal
  EnabledChoices,   \* values it may register for enabled
  DiscardChoices,   \* whether a quarantined workspace may be discarded
  LeaseTerm,        \* lease length, in ticks
  MaxGeneration     \* bound on the generations of an attempt

ASSUME JobsAssumption == IsFiniteSet(Jobs)
ASSUME NullAssumption ==
  /\ NoWorker \notin Workers
  /\ NoRuntime \notin Runtimes
  /\ NoTask \notin Tasks
ASSUME BoundAssumption ==
  /\ CapacityChoices \subseteq Nat
  /\ EnabledChoices \subseteq BOOLEAN
  /\ DiscardChoices \subseteq BOOLEAN
  /\ LeaseTerm \in Nat \ {0}
  /\ MaxGeneration \in Nat

VARIABLES
  job,         \* ExecutionJob: status, revision, cancelRequestedAt, teamTask
  attempt,     \* ExecutionAttempt of the job: status, generation, lease, slot
  runtime,     \* ExecutionRuntime: enabled, capacityTotal, capacityUsed
  request,     \* input requests, by the generation that asked
  incident,    \* recovery incidents, by the quarantined generation
  task,        \* TeamTask status
  outbox,      \* rows of ExecutionOutbox
  admission,   \* runtimes a createExecutionJob in flight read as available
  cancelCall,  \* a cancelExecutionJob between its read and its transaction
  grant,       \* history: the worker each generation was leased to
  writer       \* history: generation of the last effective worker command

vars == <<job, attempt, runtime, request, incident, task, outbox,
          admission, cancelCall, grant, writer>>

-----------------------------------------------------------------------------
(* The shapes of the rows.                                                 *)

Generations == 1 .. MaxGeneration
Outcomes == {"succeeded", "failed", "cancelled"}
JobStatuses == {"none", "queued", "running", "waiting_input",
                "cancel_requested", "blocked"} \cup Outcomes
AttemptStatuses == {"none", "pending", "running", "waiting_input",
                    "quarantined"} \cup Outcomes
RequestStatuses == {"none", "pending", "answered", "cancelled"}
TaskStatuses == {"open", "claimed", "in_progress", "blocked", "review",
                 "done", "cancelled"}
Topics == {"completed", "input_requested", "input_answered",
           "input_cancelled"}

JobRows == [status: JobStatuses, revision: Nat,
            cancelRequestedAt: BOOLEAN, teamTask: Tasks \cup {NoTask}]
AttemptRows == [status: AttemptStatuses, runtime: Runtimes \cup {NoRuntime},
                generation: 0 .. MaxGeneration, capacityReserved: BOOLEAN,
                leaseOwner: Workers \cup {NoWorker}, lease: 0 .. LeaseTerm]
RuntimeRows == [enabled: BOOLEAN, capacityTotal: Nat, capacityUsed: Nat]
IncidentRows == [status: {"none", "open", "action_requested", "resolved"},
                 action: {"none", "retry", "discard"},
                 resolution: {"none", "retried", "discarded", "superseded"},
                 discardable: BOOLEAN]
OutboxRows == [job: Jobs, topic: Topics, request: 0 .. MaxGeneration,
               revision: Nat]
CancelCalls == [job: Jobs, revision: Nat,
                status: {"queued", "running", "waiting_input", "blocked"}]

NoJobRow == [status |-> "none", revision |-> 0,
             cancelRequestedAt |-> FALSE, teamTask |-> NoTask]
NoAttemptRow == [status |-> "none", runtime |-> NoRuntime, generation |-> 0,
                 capacityReserved |-> FALSE, leaseOwner |-> NoWorker,
                 lease |-> 0]
NoIncidentRow == [status |-> "none", action |-> "none",
                  resolution |-> "none", discardable |-> FALSE]

Init ==
  /\ job = [j \in Jobs |-> NoJobRow]
  /\ attempt = [j \in Jobs |-> NoAttemptRow]
  /\ runtime \in [Runtimes -> [enabled: EnabledChoices,
                               capacityTotal: CapacityChoices,
                               capacityUsed: {0}]]
  /\ request = [j \in Jobs |-> [g \in Generations |-> "none"]]
  /\ incident = [j \in Jobs |-> [g \in Generations |-> NoIncidentRow]]
  /\ task \in [Tasks -> {"open", "claimed"}]
  /\ outbox = {}
  /\ admission = NoCall
  /\ cancelCall = NoCall
  /\ grant = [j \in Jobs |-> [g \in Generations |-> NoWorker]]
  /\ writer = [j \in Jobs |-> 0]

-----------------------------------------------------------------------------
(* Parts of transactions shared by the commands.                           *)

Terminal(j) == job[j].status \in Outcomes
OnlyRunning(j) == job[j].status = "running"   \* mutant of JobOpen
JobOpen(j) == job[j].status \in {"running", "cancel_requested"}

(* Mutant of Fenced: the owner is compared, the generation is not.         *)
FencedByOwner(j, w, g) ==
  /\ attempt[j].status = "running"
  /\ attempt[j].leaseOwner = w
  /\ attempt[j].lease > 0

(* The fence of every worker write: the caller's generation and identity   *)
(* are those of the current lease, and that lease has not expired.         *)
Fenced(j, w, g) ==
  /\ attempt[j].status = "running"
  /\ attempt[j].generation = g
  /\ attempt[j].leaseOwner = w
  /\ attempt[j].lease > 0

(* A lease that was granted at some time, whatever became of it since.     *)
Granted(j, w, g) == grant[j][g] = w

(* Mutant of Unleased: the slot is given back, the lease owner stays.      *)
UnleasedButOwned(row, status) ==
  [row EXCEPT !.status = status, !.capacityReserved = FALSE, !.lease = 0]

(* Leaving the running state gives the lease and the slot back.            *)
Unleased(row, status) ==
  [row EXCEPT !.status = status, !.capacityReserved = FALSE,
              !.leaseOwner = NoWorker, !.lease = 0]

(* Mutant of MoveJob: a move that does not count as a revision.            *)
MoveJobUncounted(j, status) == job' = [job EXCEPT ![j].status = status]

MoveJob(j, status) ==
  job' = [job EXCEPT ![j].status = status, ![j].revision = @ + 1]

(* Mutant of ReserveSlot: the last slot is never given out.                *)
ReserveAllButLast(r, forCancel) ==
  /\ runtime[r].enabled \/ forCancel
  /\ runtime[r].capacityUsed + 1 < runtime[r].capacityTotal
  /\ runtime' = [runtime EXCEPT ![r].capacityUsed = @ + 1]

ReserveSlot(r, forCancel) ==
  /\ runtime[r].enabled \/ forCancel
  /\ runtime[r].capacityUsed < runtime[r].capacityTotal
  /\ runtime' = [runtime EXCEPT ![r].capacityUsed = @ + 1]

KeepSlot(j) == UNCHANGED runtime   \* mutant of ReleaseSlot
ReleaseSlot(j) ==
  IF attempt[j].capacityReserved
    THEN /\ runtime[attempt[j].runtime].capacityUsed > 0
         /\ runtime' = [runtime EXCEPT
                          ![attempt[j].runtime].capacityUsed = @ - 1]
    ELSE UNCHANGED runtime

(* An outbox key that exists with other content aborts the transaction;    *)
(* the payload holds the time of the call, so an existing key is other     *)
(* content.                                                                *)
Enqueue(rows) ==
  /\ rows \cap outbox = {}
  /\ outbox' = outbox \cup rows

(* Mutant of CompletedRow: the revision read before the move.              *)
StaleCompletedRow(j) == [job |-> j, topic |-> "completed", request |-> 0,
                         revision |-> job[j].revision]
CompletedRow(j) == [job |-> j, topic |-> "completed", request |-> 0,
                    revision |-> job[j].revision + 1]
InputRow(j, topic, g, rev) ==
  [job |-> j, topic |-> topic, request |-> g, revision |-> rev]

(* projectExecutionStartToTeamTask: a queued job may only start work that  *)
(* is open, claimed or in progress.                                        *)
StartTask(t) ==
  IF t = NoTask
    THEN UNCHANGED task
    ELSE /\ task[t] \in {"open", "claimed", "in_progress"}
         /\ task' = [task EXCEPT ![t] = "in_progress"]

(* projectExecutionTerminalToTeamTask: the outcome's target, the statuses  *)
(* it may be reached from, and the abort when it may not.                  *)
TaskTarget(outcome) ==
  CASE outcome = "succeeded" -> "review"
    [] outcome = "failed"    -> "blocked"
    [] outcome = "cancelled" -> "cancelled"
TaskSources(target) ==
  CASE target = "review"    -> {"in_progress"}
    [] target = "blocked"   -> {"claimed", "in_progress"}
    [] target = "cancelled" -> {"open", "claimed", "in_progress",
                                "blocked", "review"}
(* Mutants of FinishTask: an outcome the task cannot take is dropped, and  *)
(* an outcome is written whatever became of the task.                      *)
FinishTaskIfPossible(t, outcome) ==
  IF t # NoTask /\ task[t] \in TaskSources(TaskTarget(outcome))
    THEN task' = [task EXCEPT ![t] = TaskTarget(outcome)]
    ELSE UNCHANGED task

FinishTask(t, outcome) ==
  IF t = NoTask \/ task[t] \in {TaskTarget(outcome), "done", "cancelled"}
    THEN UNCHANGED task
    ELSE /\ task[t] \in TaskSources(TaskTarget(outcome))
         /\ task' = [task EXCEPT ![t] = TaskTarget(outcome)]

-----------------------------------------------------------------------------
(* Admission and runtime registration.                                     *)

(* createExecutionJob reads the runtimes before its transaction, and the   *)
(* transaction matches against what was read then.  The bounds: one such   *)
(* call is in flight at a time, and only while a job id is left.           *)
AvailableRuntimes ==
  {r \in Runtimes : /\ runtime[r].enabled
                    /\ runtime[r].capacityUsed < runtime[r].capacityTotal}

ReadForAdmission ==
  /\ \E j \in Jobs : job[j].status = "none"
  /\ admission' = AvailableRuntimes
  /\ UNCHANGED <<job, attempt, runtime, request, incident, task, outbox,
                 cancelCall, grant, writer>>

CreateQueued(j, r, t) ==
  /\ job[j].status = "none"
  /\ admission # NoCall
  /\ r \in admission
  /\ StartTask(t)
  /\ job' = [job EXCEPT ![j] = [status |-> "queued", revision |-> 1,
                                cancelRequestedAt |-> FALSE, teamTask |-> t]]
  /\ attempt' = [attempt EXCEPT ![j] = [NoAttemptRow EXCEPT
                                          !.status = "pending",
                                          !.runtime = r]]
  /\ admission' = NoCall
  /\ UNCHANGED <<runtime, request, incident, outbox, cancelCall, grant, writer>>

(* No runtime meets the requirements: the job is recorded without attempt. *)
CreateBlocked(j, t) ==
  /\ job[j].status = "none"
  /\ admission # NoCall
  /\ job' = [job EXCEPT ![j] = [status |-> "blocked", revision |-> 1,
                                cancelRequestedAt |-> FALSE, teamTask |-> t]]
  /\ admission' = NoCall
  /\ UNCHANGED <<attempt, runtime, request, incident, task, outbox,
                 cancelCall, grant, writer>>

(* Registration and heartbeat of a runtime daemon never write capacityUsed. *)
RegisterRuntime(r, enabled, total) ==
  /\ runtime' = [runtime EXCEPT ![r].enabled = enabled,
                                ![r].capacityTotal = total]
  /\ UNCHANGED <<job, attempt, request, incident, task, outbox,
                 admission, cancelCall, grant, writer>>

-----------------------------------------------------------------------------
(* Worker commands.                                                        *)

Grant(j, w) ==
  LET g == attempt[j].generation + 1
  IN  /\ g \in Generations
      /\ attempt' = [attempt EXCEPT ![j].status = "running",
                                    ![j].generation = g,
                                    ![j].capacityReserved = TRUE,
                                    ![j].leaseOwner = w,
                                    ![j].lease = LeaseTerm]
      /\ grant' = [grant EXCEPT ![j][g] = w]
      /\ writer' = [writer EXCEPT ![j] = g]

(* claimExecutionAttempt takes a pending attempt, a suspended one whose job *)
(* is being cancelled, or a running one whose lease expired.                *)
ClaimPending(j, w) ==
  /\ attempt[j].status = "pending"
  /\ ~attempt[j].capacityReserved
  /\ job[j].status = "queued"
  /\ ReserveSlot(attempt[j].runtime, FALSE)
  /\ Grant(j, w)
  /\ MoveJob(j, "running")
  /\ UNCHANGED <<request, incident, task, outbox, admission, cancelCall>>

ClaimSuspended(j, w) ==
  /\ attempt[j].status = "waiting_input"
  /\ ~attempt[j].capacityReserved
  /\ job[j].status = "cancel_requested"
  /\ ReserveSlot(attempt[j].runtime, TRUE)
  /\ Grant(j, w)
  /\ UNCHANGED <<job, request, incident, task, outbox, admission, cancelCall>>

Reclaim(j, w) ==
  /\ attempt[j].status = "running"
  /\ attempt[j].capacityReserved
  /\ attempt[j].lease = 0
  /\ JobOpen(j)
  /\ \/ runtime[attempt[j].runtime].enabled
     \/ job[j].status = "cancel_requested"
  /\ Grant(j, w)
  /\ UNCHANGED <<job, runtime, request, incident, task, outbox, admission,
                 cancelCall>>

Heartbeat(j, w, g) ==
  /\ Fenced(j, w, g)
  /\ attempt[j].capacityReserved
  /\ JobOpen(j)
  /\ attempt' = [attempt EXCEPT ![j].lease = LeaseTerm]
  /\ writer' = [writer EXCEPT ![j] = g]
  /\ UNCHANGED <<job, runtime, request, incident, task, outbox, admission,
                 cancelCall, grant>>

(* Time passing on a lease nobody renews.  The bound: a lease only runs    *)
(* out while a generation is left to reclaim it.                           *)
Tick(j) ==
  /\ attempt[j].status = "running"
  /\ attempt[j].lease > 0
  /\ attempt[j].lease = 1 => attempt[j].generation < MaxGeneration
  /\ attempt' = [attempt EXCEPT ![j].lease = @ - 1]
  /\ UNCHANGED <<job, runtime, request, incident, task, outbox, admission,
                 cancelCall, grant, writer>>

(* The waiting-for-human event: the slot and the lease are given back and  *)
(* the generation moves on, so that the suspended worker is fenced out.    *)
(* The bound leaves a generation for the claim that follows.               *)
WaitForInput(j, w, g) ==
  /\ Fenced(j, w, g)
  /\ attempt[j].capacityReserved
  /\ job[j].status = "running"
  /\ request[j][g] = "none"
  /\ g + 1 < MaxGeneration
  /\ request' = [request EXCEPT ![j][g] = "pending"]
  /\ attempt' = [attempt EXCEPT
                   ![j] = [Unleased(@, "waiting_input") EXCEPT
                             !.generation = g + 1]]
  /\ ReleaseSlot(j)
  /\ MoveJob(j, "waiting_input")
  /\ Enqueue({InputRow(j, "input_requested", g, 1)})
  /\ writer' = [writer EXCEPT ![j] = g]
  /\ UNCHANGED <<incident, task, admission, cancelCall, grant>>

CancelledInputs(j) == {g \in Generations : request[j][g] = "cancelled"}

(* A job that is being cancelled ends as cancelled or not at all.          *)
AnyOutcomeAllowed(j, outcome) == JobOpen(j)   \* mutant of OutcomeAllowed
OutcomeAllowed(j, outcome) ==
  \/ job[j].status = "running"
  \/ job[j].status = "cancel_requested" /\ outcome = "cancelled"

Complete(j, w, g, outcome) ==
  /\ Fenced(j, w, g)
  /\ attempt[j].capacityReserved
  /\ OutcomeAllowed(j, outcome)
  /\ attempt' = [attempt EXCEPT ![j] = Unleased(@, outcome)]
  /\ MoveJob(j, outcome)
  /\ ReleaseSlot(j)
  /\ Enqueue({CompletedRow(j)} \cup
             IF outcome = "cancelled"
               THEN {InputRow(j, "input_cancelled", c, 2) :
                       c \in CancelledInputs(j)}
               ELSE {})
  /\ FinishTask(job[j].teamTask, outcome)
  /\ writer' = [writer EXCEPT ![j] = g]
  /\ UNCHANGED <<request, incident, admission, cancelCall, grant>>

-----------------------------------------------------------------------------
(* Quarantine and operator recovery.                                       *)

Quarantine(j, w, g, discardable) ==
  /\ incident[j][g].status = "none"
  /\ Fenced(j, w, g)
  /\ JobOpen(j)
  /\ g < MaxGeneration
  /\ attempt' = [attempt EXCEPT ![j] = Unleased(@, "quarantined")]
  /\ ReleaseSlot(j)
  /\ MoveJob(j, "blocked")
  /\ incident' = [incident EXCEPT ![j] =
       [i \in Generations |->
          IF i = g
            THEN [NoIncidentRow EXCEPT !.status = "open",
                                       !.discardable = discardable]
            ELSE IF /\ incident[j][i].status = "action_requested"
                    /\ incident[j][i].action = "retry"
                   THEN [incident[j][i] EXCEPT !.status = "resolved",
                                               !.resolution = "superseded"]
                   ELSE incident[j][i]]]
  /\ writer' = [writer EXCEPT ![j] = g]
  /\ UNCHANGED <<request, task, outbox, admission, cancelCall, grant>>

RequestRecovery(j, i, action) ==
  /\ incident[j][i].status = "open"
  /\ action = "discard" => incident[j][i].discardable
  /\ attempt[j].status = "quarantined"
  /\ attempt[j].generation = i
  /\ ~attempt[j].capacityReserved
  /\ job[j].status = "blocked"
  /\ attempt' = [attempt EXCEPT ![j] = Unleased(@, "pending")]
  /\ MoveJob(j, "queued")
  /\ incident' = [incident EXCEPT ![j][i].status = "action_requested",
                                  ![j][i].action = action]
  /\ UNCHANGED <<runtime, request, task, outbox, admission, cancelCall, grant,
                 writer>>

ResolveRecovery(j, w, g, i) ==
  /\ incident[j][i].status = "action_requested"
  /\ Fenced(j, w, g)
  /\ attempt[j].capacityReserved
  /\ incident' = [incident EXCEPT
       ![j][i].status = "resolved",
       ![j][i].resolution = IF incident[j][i].action = "retry"
                              THEN "retried" ELSE "discarded"]
  /\ writer' = [writer EXCEPT ![j] = g]
  /\ UNCHANGED <<job, attempt, runtime, request, task, outbox, admission,
                 cancelCall, grant>>

-----------------------------------------------------------------------------
(* Human commands: answer, cancel, and moving the linked task.             *)

AnswerInput(j, g) ==
  /\ request[j][g] = "pending"
  /\ job[j].status = "waiting_input"
  /\ attempt[j].status = "waiting_input"
  /\ request' = [request EXCEPT ![j][g] = "answered"]
  /\ attempt' = [attempt EXCEPT ![j].status = "pending",
                                ![j].leaseOwner = NoWorker, ![j].lease = 0]
  /\ MoveJob(j, "queued")
  /\ Enqueue({InputRow(j, "input_answered", g, 2)})
  /\ UNCHANGED <<runtime, incident, task, admission, cancelCall, grant, writer>>

(* cancelExecutionJob reads the job first, outside the transaction that    *)
(* then compares and sets both the revision and the status it read.  The   *)
(* bound: one such call is in flight at a time.                            *)
ReadForCancel(j) ==
  /\ cancelCall = NoCall
  /\ job[j].status \in {"queued", "running", "waiting_input", "blocked"}
  /\ cancelCall' = [job |-> j, revision |-> job[j].revision,
                    status |-> job[j].status]
  /\ UNCHANGED <<job, attempt, runtime, request, incident, task, outbox,
                 admission, grant, writer>>

CallIsCurrent == /\ job[cancelCall.job].status = cancelCall.status
                 /\ job[cancelCall.job].revision = cancelCall.revision

(* Mutant of CommitGracefully: the pending question is forgotten.          *)
CommitForgetfully ==
  LET j == cancelCall.job
  IN
  /\ cancelCall.status \in {"running", "waiting_input"}
  /\ job' = [job EXCEPT ![j].status = "cancel_requested",
                        ![j].revision = @ + 1,
                        ![j].cancelRequestedAt = TRUE]
  /\ UNCHANGED <<attempt, request, outbox, task>>

(* A running or suspended attempt is left to a worker to clean up.         *)
CommitGracefully ==
  LET j == cancelCall.job
  IN
  /\ cancelCall.status \in {"running", "waiting_input"}
  /\ job' = [job EXCEPT ![j].status = "cancel_requested",
                        ![j].revision = @ + 1,
                        ![j].cancelRequestedAt = TRUE]
  /\ request' = IF cancelCall.status = "waiting_input"
       THEN [request EXCEPT ![j] = [g \in Generations |->
               IF request[j][g] = "pending" THEN "cancelled"
                                            ELSE request[j][g]]]
       ELSE request
  /\ UNCHANGED <<attempt, outbox, task>>

(* An attempt no worker has, and nothing to recover of, ends with its job. *)
HasAttempt(j) == attempt[j].status # "none"   \* mutant of AttemptIsIdle
AttemptIsIdle(j) == attempt[j].status \in {"pending", "waiting_input"}

CommitDirectly ==
  LET j == cancelCall.job
  IN
  /\ cancelCall.status \in {"queued", "blocked"}
  /\ job' = [job EXCEPT ![j].status = "cancelled",
                        ![j].revision = @ + 1,
                        ![j].cancelRequestedAt = TRUE]
  /\ attempt' = IF AttemptIsIdle(j)
       THEN [attempt EXCEPT ![j].status = "cancelled",
                            ![j].leaseOwner = NoWorker, ![j].lease = 0]
       ELSE attempt
  /\ Enqueue({CompletedRow(j)})
  /\ FinishTask(job[j].teamTask, "cancelled")
  /\ UNCHANGED request

CommitCancel ==
  /\ cancelCall # NoCall
  /\ CallIsCurrent
  /\ CommitGracefully \/ CommitDirectly
  /\ cancelCall' = NoCall
  /\ UNCHANGED <<runtime, incident, admission, grant, writer>>

AbortCancel ==
  /\ cancelCall # NoCall
  /\ ~CallIsCurrent
  /\ cancelCall' = NoCall
  /\ UNCHANGED <<job, attempt, runtime, request, incident, task, outbox,
                 admission, grant, writer>>

(* updateTeamTask: the moves a person may make.                            *)
TaskMoves ==
  [open        |-> {"claimed", "in_progress", "cancelled"},
   claimed     |-> {"open", "in_progress", "blocked", "cancelled"},
   in_progress |-> {"blocked", "review", "done", "cancelled"},
   blocked     |-> {"claimed", "in_progress", "cancelled"},
   review      |-> {"in_progress", "done", "cancelled"},
   done        |-> {},
   cancelled   |-> {}]

MoveTask(t, status) ==
  /\ status \in TaskMoves[task[t]]
  /\ task' = [task EXCEPT ![t] = status]
  /\ UNCHANGED <<job, attempt, runtime, request, incident, outbox,
                 admission, cancelCall, grant, writer>>

-----------------------------------------------------------------------------
Admission(j) ==
  \E t \in Tasks \cup {NoTask} :
    \/ \E r \in Runtimes : CreateQueued(j, r, t)
    \/ CreateBlocked(j, t)

Claim(j, w) == ClaimPending(j, w) \/ ClaimSuspended(j, w) \/ Reclaim(j, w)

WorkerCommand(j, w, g) ==
  \/ Heartbeat(j, w, g)
  \/ WaitForInput(j, w, g)
  \/ \E outcome \in Outcomes : Complete(j, w, g, outcome)
  \/ \E discardable \in DiscardChoices : Quarantine(j, w, g, discardable)
  \/ \E i \in Generations : ResolveRecovery(j, w, g, i)

HumanCommand(j) ==
  \/ ReadForCancel(j)
  \/ \E g \in Generations : AnswerInput(j, g)
  \/ \E i \in Generations, a \in {"retry", "discard"} :
       RequestRecovery(j, i, a)

Next ==
  \/ \E j \in Jobs : Admission(j)
  \/ \E j \in Jobs, w \in Workers : Claim(j, w)
  \/ \E j \in Jobs, w \in Workers, g \in Generations :
       Granted(j, w, g) /\ WorkerCommand(j, w, g)
  \/ \E j \in Jobs : HumanCommand(j)
  \/ ReadForAdmission
  \/ CommitCancel
  \/ AbortCancel
  \/ \E j \in Jobs : Tick(j)
  \/ \E r \in Runtimes, enabled \in EnabledChoices, total \in CapacityChoices :
       RegisterRuntime(r, enabled, total)
  \/ \E t \in Tasks, status \in TaskStatuses : MoveTask(t, status)

Spec == Init /\ [][Next]_vars

(* The properties that matter hold without any fairness.  Those that say    *)
(* what finally happens assume that daemons keep polling, so that a job     *)
(* that can be claimed again and again is claimed, and that a worker which  *)
(* holds a live lease again and again completes the attempt once.  Nothing  *)
(* is assumed of people, of the clock, or of any one lease holder.          *)
ClaimedBySomeone(j) == \E w \in Workers : Claim(j, w)
CompletedByHolder(j) ==
  \E w \in Workers, g \in Generations, outcome \in Outcomes :
    Granted(j, w, g) /\ Complete(j, w, g, outcome)

FairSpec ==
  /\ Spec
  /\ \A j \in Jobs : /\ SF_vars(ClaimedBySomeone(j))
                     /\ SF_vars(CompletedByHolder(j))

-----------------------------------------------------------------------------
(* What must hold in every state.                                          *)

(* Every row has the shape its table and its writers give it.              *)
TypeOK ==
  /\ job \in [Jobs -> JobRows]
  /\ attempt \in [Jobs -> AttemptRows]
  /\ runtime \in [Runtimes -> RuntimeRows]
  /\ request \in [Jobs -> [Generations -> RequestStatuses]]
  /\ incident \in [Jobs -> [Generations -> IncidentRows]]
  /\ task \in [Tasks -> TaskStatuses]
  /\ outbox \subseteq OutboxRows
  /\ admission \in (SUBSET Runtimes) \cup {NoCall}
  /\ cancelCall \in CancelCalls \cup {NoCall}
  /\ grant \in [Jobs -> [Generations -> Workers \cup {NoWorker}]]
  /\ writer \in [Jobs -> 0 .. MaxGeneration]

(* No slot leaks and none is given back twice: the counter of a runtime is *)
(* the number of attempts that hold one of its slots, through claims,      *)
(* reclaims, suspensions, completions, quarantines and cancellations.      *)
SlotHolders(r) == {j \in Jobs : /\ attempt[j].capacityReserved
                                /\ attempt[j].runtime = r}
CapacityConserved ==
  \A r \in Runtimes : runtime[r].capacityUsed = Cardinality(SlotHolders(r))

(* The two status machines, moved by different commands, never drift apart *)
(* into a pair no command can continue from, an attempt that exists is     *)
(* placed on a runtime, and one that does not carries nothing over.        *)
AgreeingStatuses ==
  {<<"none", "none">>, <<"queued", "pending">>, <<"running", "running">>,
   <<"waiting_input", "waiting_input">>,
   <<"cancel_requested", "running">>, <<"cancel_requested", "waiting_input">>,
   <<"blocked", "none">>, <<"blocked", "quarantined">>,
   <<"succeeded", "succeeded">>, <<"failed", "failed">>,
   <<"cancelled", "cancelled">>, <<"cancelled", "quarantined">>,
   <<"cancelled", "none">>}
StatusesAgree ==
  \A j \in Jobs :
    /\ <<job[j].status, attempt[j].status>> \in AgreeingStatuses
    /\ IF attempt[j].status = "none"
         THEN attempt[j] = NoAttemptRow
         ELSE attempt[j].runtime \in Runtimes

(* A running attempt is owned, slot and lease, by the worker its current   *)
(* generation was granted to, and no later writer than that exists; an     *)
(* attempt in any other status holds neither.                              *)
LeaseMatchesGrant ==
  \A j \in Jobs :
    IF attempt[j].status = "running"
      THEN /\ attempt[j].capacityReserved
           /\ attempt[j].leaseOwner \in Workers
           /\ Granted(j, attempt[j].leaseOwner, attempt[j].generation)
           /\ writer[j] = attempt[j].generation
      ELSE /\ ~attempt[j].capacityReserved
           /\ attempt[j].leaseOwner = NoWorker
           /\ writer[j] <= attempt[j].generation

(* Who may write to which attempt is settled at every moment: the rows     *)
(* have their shapes, one worker owns what runs, and job and attempt are   *)
(* in a pair of statuses that some command continues from.                 *)
ControlSound == TypeOK /\ LeaseMatchesGrant /\ StatusesAgree

(* A job waits for a person exactly while one question is pending, so no   *)
(* worker runs past an unanswered question and no finished job leaves one  *)
(* open; a question is withdrawn only by a cancellation.                   *)
PendingRequests(j) == {g \in Generations : request[j][g] = "pending"}
QuestionsSettled ==
  \A j \in Jobs :
    /\ Cardinality(PendingRequests(j)) =
         IF job[j].status = "waiting_input" THEN 1 ELSE 0
    /\ CancelledInputs(j) # {} => job[j].cancelRequestedAt

(* The Room is told of the end of a job exactly once, in the transaction   *)
(* that ends it, and never of a job that may still run.                    *)
CompletionsOf(j) == {o \in outbox : o.job = j /\ o.topic = "completed"}
CompletionAnnouncedOnce ==
  \A j \in Jobs :
    CompletionsOf(j) =
      IF Terminal(j)
        THEN {[job |-> j, topic |-> "completed", request |-> 0,
               revision |-> job[j].revision]}
        ELSE {}

(* What the outbox says of a question is what became of it.                *)
QuestionsAnnounced ==
  \A j \in Jobs, g \in Generations :
    /\ InputRow(j, "input_requested", g, 1) \in outbox
         <=> request[j][g] # "none"
    /\ InputRow(j, "input_answered", g, 2) \in outbox
         <=> request[j][g] = "answered"
    /\ InputRow(j, "input_cancelled", g, 2) \in outbox
         => request[j][g] = "cancelled" /\ job[j].status = "cancelled"

(* What a person is asked and what the Room is told of it agree.           *)
QuestionsSound == QuestionsSettled /\ QuestionsAnnounced

(* An attempt is quarantined exactly while the incident of its current     *)
(* generation is open, and at most that one incident is open.              *)
IncidentMatchesQuarantine ==
  \A j \in Jobs, i \in Generations :
    incident[j][i].status = "open"
      <=> attempt[j].status = "quarantined" /\ attempt[j].generation = i

(* An open incident can be acted on: docs and operator interface offer     *)
(* retry and discard for as long as the incident is open.                  *)
OpenIncidentActionable ==
  \A j \in Jobs, i \in Generations :
    incident[j][i].status = "open" => job[j].status = "blocked"

-----------------------------------------------------------------------------
(* What a step may never do.                                               *)

(* Fencing: once a generation has written, no lease of an earlier one ever *)
(* takes effect again, even when the same worker holds both.               *)
WritersNeverGoBack == [][\A j \in Jobs : writer'[j] >= writer[j]]_vars

(* A job that ended stays as it ended: no late worker, answer, operator    *)
(* or second cancellation changes it, its attempt, questions or incidents. *)
TerminalIsFinal ==
  [][\A j \in Jobs : Terminal(j) =>
       UNCHANGED <<job[j], attempt[j], request[j], incident[j]>>]_vars

(* An accepted cancellation of a running or suspended job is overtaken by  *)
(* no outcome but a quarantine, and its record is never erased.            *)
CancelIsKept ==
  [][\A j \in Jobs :
       /\ job[j].status = "cancel_requested" =>
            job'[j].status \in {"cancel_requested", "cancelled", "blocked"}
       /\ job[j].cancelRequestedAt => job'[j].cancelRequestedAt]_vars

(* What was decided stays decided: an end, and a request to cancel.        *)
DecisionsKept == TerminalIsFinal /\ CancelIsKept

(* The outcome of a job and the status of its task commit together: a step *)
(* that ends a job leaves the task at the outcome's target, unless a       *)
(* person closed the task before.                                          *)
OutcomeReachesTask ==
  [][\A j \in Jobs :
       ~Terminal(j) /\ Terminal(j)' /\ job[j].teamTask \in Tasks =>
         task'[job[j].teamTask] \in
           {TaskTarget(job'[j].status), "done", "cancelled"}]_vars

(* Only a person closes a task as done, and no step reopens a closed one.  *)
DoneIsHuman ==
  [][\A t \in Tasks :
       /\ task[t] # "done" /\ task'[t] = "done" =>
            UNCHANGED <<job, attempt, outbox>>
       /\ task[t] \in {"done", "cancelled"} => task'[t] = task[t]]_vars

(* A task follows its jobs, and is closed by people only.                  *)
TasksFollow == OutcomeReachesTask /\ DoneIsHuman

-----------------------------------------------------------------------------
(* The rows and transactions above keep the promises of JobContract: the   *)
(* lease token of a job is the generation of its attempt.                  *)
Contract ==
  INSTANCE JobContract WITH
    phase <- [j \in Jobs |-> job[j].status],
    revision <- [j \in Jobs |-> job[j].revision],
    token <- [j \in Jobs |-> attempt[j].generation],
    told <- [j \in Jobs |-> {o.revision : o \in CompletionsOf(j)}]

KeepsContract == Contract!Spec

-----------------------------------------------------------------------------
(* What must finally happen, under FairSpec.                               *)

(* A cancellation that was accepted reaches the end of the job, or its     *)
(* quarantine, although workers crash and leases run out on the way.       *)
CancelSettles ==
  \A j \in Jobs : job[j].status = "cancel_requested"
                    ~> job[j].status \in {"cancelled", "blocked"}

(* A queued job does not wait for ever behind the others for a slot.       *)
QueuedIsServed ==
  \A j \in Jobs : job[j].status = "queued" ~> job[j].status # "queued"
=============================================================================
