--------------------------- MODULE WorkspaceAttempt ---------------------------
(* One execution attempt that owns a Git workspace, and the daemons that may *)
(* run it.  Every await of the daemon is a step: a write of the store checks *)
(* the lease (status, generation, owner, expiry), an operation on Git does   *)
(* not, so a daemon that lost its lease may still finish the one it started. *)
(* A native run is a child of its daemon and dies with it.  Abstracted: the  *)
(* contents of the tree (a commit is named by the generation that made it),  *)
(* the runtime's capacity and every event but start, question and terminal.  *)
EXTENDS Integers, FiniteSets

CONSTANTS
  Daemons,         \* execution daemons
  NoDaemon,        \* the owner of an attempt nobody leases
  NativeResume,    \* the runtime can resume a native run and ask a person
  MaxGeneration,   \* bound on claims and questions
  MaxFaults        \* bound on crashes, stalls and failed heartbeats

(* What the parameters must be; the instances assume it.                   *)
WorkspaceAssumption ==
  /\ NoDaemon \notin Daemons
  /\ NativeResume \in BOOLEAN
  /\ MaxGeneration \in Nat \ {0}
  /\ MaxFaults \in Nat

VARIABLES
  job,        \* ExecutionJob: status and cancelRequestedAt
  attempt,    \* ExecutionAttempt: status, generation, lease, run, questions
  receipt,    \* workspaceLifecycleJson: the stages reached
  incident,   \* the latest recovery incident of the attempt
  clone,      \* the isolated clone of the attempt
  branch,     \* the proposal branch in the knowledge repository
  requests,   \* head commits of the change requests of the attempt
  daemon,     \* memory of each daemon about its active attempt
  faults,     \* faults so far
  reasons     \* history: claims the faults and commands so far account for

durable == <<job, attempt, receipt, incident>>
git == <<clone, branch, requests>>
vars == <<job, attempt, receipt, incident, clone, branch, requests, daemon,
          faults, reasons>>

-----------------------------------------------------------------------------
Generations == 1 .. MaxGeneration
Nothing == 0                           \* no run, no commit, no generation
NoBranch == -1
NotYet == -1                        \* a workspace that is not finalized
Outcomes == {"succeeded", "failed", "cancelled"}

NoReceipt == [prepared |-> FALSE, completion |-> "none", finalized |-> NotYet,
              request |-> Nothing, cleaned |-> FALSE]
Receipts == [prepared: BOOLEAN, completion: Outcomes \cup {"none"},
             finalized: NotYet .. MaxGeneration,
             request: {Nothing} \cup Generations, cleaned: BOOLEAN]

(* The clone: missing, half made, made but not yet marked with its receipt, *)
(* at its base (with or without changes) or at a commit (likewise).         *)
CloneStates == {"absent", "partial", "unmarked", "base", "dirty", "head",
                "drifted"}

(* Where a daemon is: the operation it is about to perform.                 *)
GitSteps == {"recover", "discard", "prepare", "clone", "checkout", "mark",
             "finalize", "commit", "publish", "cleanup"}
StoreSteps == {"handshake", "readRecovery", "resolveDiscard", "resolveRetry",
               "quarantine", "save", "terminal", "saveFinalized", "request",
               "saveCleaned", "complete"}
RunSteps == {"start", "started", "running"}

Idle == [pc |-> "idle", generation |-> 0, receipt |-> NoReceipt,
         claimRun |-> Nothing, run |-> Nothing, answer |-> Nothing, live |-> FALSE,
         cancel |-> FALSE, allow |-> TRUE, pending |-> FALSE,
         outcome |-> "none", head |-> Nothing, seen |-> NoBranch,
         discardable |-> FALSE]
Memories == [pc: {"idle"} \cup GitSteps \cup StoreSteps \cup RunSteps,
             generation: 0 .. MaxGeneration, receipt: Receipts,
             claimRun: 0 .. MaxGeneration, run: 0 .. MaxGeneration,
             answer: 0 .. MaxGeneration, live: BOOLEAN, cancel: BOOLEAN,
             allow: BOOLEAN, pending: BOOLEAN, outcome: Outcomes \cup {"none"},
             head: 0 .. MaxGeneration, seen: NoBranch .. MaxGeneration,
             discardable: BOOLEAN]

Init ==
  /\ job = [status |-> "queued", intent |-> FALSE]
  /\ attempt = [status |-> "pending", generation |-> 0, owner |-> NoDaemon,
                live |-> FALSE, run |-> Nothing, asked |-> Nothing, answer |-> Nothing]
  /\ receipt = NoReceipt
  /\ incident = [status |-> "none", action |-> "none", discardable |-> FALSE]
  /\ clone = [state |-> "absent", commit |-> Nothing]
  /\ branch = NoBranch
  /\ requests = {}
  /\ daemon = [d \in Daemons |-> Idle]
  /\ faults = 0
  /\ reasons = 1

-----------------------------------------------------------------------------
(* Parts shared by the steps of a daemon.                                   *)

AnyOwner(d) ==                                           \* mutant of Leased
  /\ attempt.status = "running"
  /\ attempt.live
  /\ job.status \in {"running", "cancel_requested"}

Leased(d) ==
  /\ attempt.status = "running"
  /\ attempt.owner = d
  /\ attempt.generation = daemon[d].generation
  /\ attempt.live
  /\ job.status \in {"running", "cancel_requested"}

At(d, pc) == daemon[d].pc = pc
Move(d, memory) == daemon' = [daemon EXCEPT ![d] = memory]
To(d, pc) == [daemon[d] EXCEPT !.pc = pc]
Stop(d) == Move(d, Idle)            \* abandonAttempt, or an uncaught error

(* The daemon reads allowComplete again after most of its awaits.           *)
Continue(d, memory) == Move(d, IF daemon[d].allow THEN memory ELSE Idle)

(* A write of the store whose lease is gone ends the attempt in memory.     *)
FencedOut(d) ==
  ~Leased(d) /\ Stop(d) /\ UNCHANGED <<durable, git, faults, reasons>>

CleansBeforeRequest(r) ==                                \* mutant of Stage
  IF r.completion = "succeeded" /\ r.finalized = NotYet THEN "finalize"
  ELSE IF r.cleaned THEN "complete" ELSE "cleanup"

Stage(r) ==
  IF r.completion = "succeeded" /\ r.finalized = NotYet THEN "finalize"
  ELSE IF r.finalized \in Generations /\ r.request = Nothing THEN "request"
  ELSE IF r.cleaned THEN "complete" ELSE "cleanup"

Recorded(d, r, pc) ==
  Continue(d, [daemon[d] EXCEPT !.receipt = r, !.pc = pc])

-----------------------------------------------------------------------------
(* Commands of people.                                                      *)

Cancel ==
  /\ job.status \in {"queued", "running", "waiting_input", "blocked"}
  /\ LET requested == job.status \in {"running", "waiting_input"} IN
     /\ job' = [status |-> IF requested THEN "cancel_requested"
                                        ELSE "cancelled",
                intent |-> TRUE]
     /\ attempt' =
          IF requested THEN [attempt EXCEPT !.asked = Nothing]
          ELSE IF attempt.status = "pending"
            THEN [attempt EXCEPT !.status = "cancelled"] ELSE attempt
  /\ reasons' = reasons + 1
  /\ UNCHANGED <<receipt, incident, git, daemon, faults>>

Answer ==
  /\ job.status = "waiting_input"
  /\ job' = [job EXCEPT !.status = "queued"]
  /\ attempt' = [attempt EXCEPT !.status = "pending",
                   !.answer = attempt.asked, !.asked = Nothing]
  /\ reasons' = reasons + 1
  /\ UNCHANGED <<receipt, incident, git, daemon, faults>>

RequestRecovery(action) ==
  /\ incident.status = "open"
  /\ action = "discard" => incident.discardable
  /\ attempt.status = "quarantined"
  /\ job.status = "blocked"
  /\ incident' = [incident EXCEPT !.status = "action_requested",
                    !.action = action]
  /\ job' = [job EXCEPT !.status = "queued"]
  /\ attempt' = [attempt EXCEPT !.status = "pending"]
  /\ reasons' = reasons + 2
  /\ UNCHANGED <<receipt, git, daemon, faults>>

-----------------------------------------------------------------------------
(* Claim, handshake and heartbeat.                                          *)

PendingOnly ==                                           \* mutant of Claimable
  \/ attempt.status = "pending" /\ job.status = "queued"
  \/ attempt.status = "waiting_input" /\ job.status = "cancel_requested"

Claimable ==
  \/ attempt.status = "pending" /\ job.status = "queued"
  \/ attempt.status = "waiting_input" /\ job.status = "cancel_requested"
  \/ /\ attempt.status = "running"
     /\ ~attempt.live
     /\ job.status \in {"running", "cancel_requested"}

NeverForgotten == FALSE                                  \* mutant of RunForgotten

(* A run that cannot be resumed loses its address when its lease is         *)
(* reclaimed, unless the job is being cancelled or the run has ended.       *)
RunForgotten ==
  /\ attempt.status = "running"
  /\ job.status = "running"
  /\ receipt.completion = "none"
  /\ ~NativeResume

Claim(d) ==
  /\ At(d, "idle")
  /\ attempt.generation < MaxGeneration
  /\ Claimable
  /\ LET g == attempt.generation + 1
         run == IF RunForgotten THEN Nothing ELSE attempt.run IN
     /\ attempt' = [attempt EXCEPT !.status = "running", !.generation = g,
                      !.owner = d, !.live = TRUE, !.run = run]
     /\ Move(d, [Idle EXCEPT !.pc = "handshake", !.generation = g,
                   !.receipt = receipt, !.claimRun = run,
                   !.answer = attempt.answer,
                   !.cancel = (job.status = "cancel_requested")])
  /\ job' = [job EXCEPT !.status = IF @ = "queued" THEN "running" ELSE @]
  /\ UNCHANGED <<receipt, incident, git, faults, reasons>>

Handshake(d) ==
  /\ At(d, "handshake")
  /\ \/ FencedOut(d)
     \/ /\ Leased(d)
        /\ Move(d, [To(d, "readRecovery") EXCEPT !.cancel =
                      @ \/ job.status = "cancel_requested"])
        /\ UNCHANGED <<durable, git, faults, reasons>>

(* A heartbeat that sees the request stops the native run; a run that has   *)
(* ended keeps its outcome.                                                 *)
HeartbeatCancels(d) ==
  /\ ~At(d, "idle") /\ ~At(d, "handshake")
  /\ Leased(d)
  /\ job.status = "cancel_requested"
  /\ daemon[d].allow /\ ~daemon[d].cancel
  /\ Move(d, IF daemon[d].pc \in RunSteps
               THEN [To(d, "terminal") EXCEPT !.cancel = TRUE, !.live = FALSE,
                                              !.outcome = "cancelled"]
               ELSE [daemon[d] EXCEPT !.cancel = TRUE])
  /\ UNCHANGED <<durable, git, faults, reasons>>

(* A heartbeat that is fenced, or fails, abandons the attempt and stops its *)
(* native run.  An operation on Git that has begun runs to its end.         *)
Abandoned(d) ==
  IF daemon[d].pc \in GitSteps
    THEN [daemon[d] EXCEPT !.allow = FALSE, !.live = FALSE]
    ELSE Idle

HeartbeatFenced(d) ==
  /\ ~At(d, "idle")
  /\ ~Leased(d)
  /\ daemon[d].allow
  /\ Move(d, Abandoned(d))
  /\ UNCHANGED <<durable, git, faults, reasons>>

HeartbeatFails(d) ==
  /\ ~At(d, "idle")
  /\ daemon[d].allow
  /\ faults < MaxFaults
  /\ faults' = faults + 1
  /\ reasons' = reasons + 1
  /\ Move(d, Abandoned(d))
  /\ UNCHANGED <<durable, git>>

Crash(d) ==
  /\ ~At(d, "idle")
  /\ faults < MaxFaults
  /\ faults' = faults + 1
  /\ reasons' = reasons + 1
  /\ Stop(d)
  /\ UNCHANGED <<durable, git>>

(* A lease expires under a daemon that stalls (a fault), or because nobody  *)
(* renews it any more.                                                      *)
Renewed ==
  \E d \in Daemons :
    ~At(d, "idle") /\ daemon[d].allow /\ Leased(d)

Expire ==
  /\ attempt.status = "running" /\ attempt.live
  /\ Renewed => faults < MaxFaults
  /\ faults' = IF Renewed THEN faults + 1 ELSE faults
  /\ reasons' = IF Renewed THEN reasons + 1 ELSE reasons
  /\ attempt' = [attempt EXCEPT !.live = FALSE]
  /\ UNCHANGED <<job, receipt, incident, git, daemon>>

-----------------------------------------------------------------------------
(* Recovery requested by an operator.                                       *)

ReadRecovery(d) ==
  /\ At(d, "readRecovery")
  /\ \/ FencedOut(d)
     \/ /\ Leased(d)
        /\ LET asked == incident.status = "action_requested"
               saw == [daemon[d] EXCEPT !.cancel = @ \/ (asked /\ job.intent)]
           IN Move(d,
                IF ~asked THEN [saw EXCEPT !.pc = "prepare"]
                ELSE IF incident.action = "discard"
                  THEN IF saw.receipt.prepared
                         THEN [saw EXCEPT !.pc = "discard"] ELSE Idle
                ELSE IF saw.receipt.prepared
                  THEN [saw EXCEPT !.pc = "recover"]
                  ELSE [saw EXCEPT !.pc = "prepare", !.pending = TRUE])
        /\ UNCHANGED <<durable, git, faults, reasons>>

Removable == clone.state \notin {"partial", "unmarked"}
RemoveClone == clone' = [state |-> "absent", commit |-> Nothing]

Discard(d) ==
  /\ At(d, "discard")
  /\ IF Removable
       THEN RemoveClone /\ Move(d, To(d, "resolveDiscard"))
       ELSE clone' = clone /\ Stop(d)
  /\ UNCHANGED <<durable, branch, requests, faults, reasons>>

(* The receipt, the run and the incident change in one transaction.  Only   *)
(* the daemon's copy of the answer is dropped.                              *)
ResolveDiscard(d) ==
  /\ At(d, "resolveDiscard")
  /\ \/ FencedOut(d)
     \/ /\ Leased(d)
        /\ incident.status = "action_requested"
        /\ incident' = [incident EXCEPT !.status = "resolved"]
        /\ receipt' = NoReceipt
        /\ attempt' = [attempt EXCEPT !.run = Nothing]
        /\ Move(d, [To(d, "prepare") EXCEPT !.receipt = NoReceipt,
                      !.claimRun = Nothing, !.run = Nothing, !.answer = Nothing])
        /\ UNCHANGED <<job, git, faults, reasons>>

ResolveRetry(d) ==
  /\ At(d, "resolveRetry")
  /\ \/ FencedOut(d)
     \/ /\ Leased(d)
        /\ incident.status = "action_requested"
        /\ incident' = [incident EXCEPT !.status = "resolved"]
        /\ Continue(d, [To(d, "save") EXCEPT !.pending = FALSE])
        /\ UNCHANGED <<job, attempt, receipt, git, faults, reasons>>

(* A workspace that cannot go on is inspected: changes on the base can be   *)
(* discarded, a drifted clone cannot; any other state ends the attempt in   *)
(* memory and leaves it to the next claim.                                  *)
AfterFailure(d) ==
  LET give(discardable) ==
        [To(d, "quarantine") EXCEPT !.discardable = discardable] IN
  IF ~daemon[d].receipt.prepared THEN give(FALSE)
  ELSE IF clone.state = "dirty" THEN give(TRUE)
  ELSE IF clone.state \in {"partial", "unmarked", "drifted"} THEN give(FALSE)
  ELSE Idle

RecoverSuspended(d) ==
  /\ At(d, "recover")
  /\ Move(d, IF clone.state \in {"base", "dirty"}
               THEN To(d, "resolveRetry") ELSE AfterFailure(d))
  /\ UNCHANGED <<durable, git, faults, reasons>>

Quarantine(d) ==
  /\ At(d, "quarantine")
  /\ \/ FencedOut(d)
     \/ /\ Leased(d)
        /\ attempt' = [attempt EXCEPT !.status = "quarantined",
                         !.owner = NoDaemon, !.live = FALSE]
        /\ job' = [job EXCEPT !.status = "blocked"]
        /\ incident' = [status |-> "open", action |-> "none",
                        discardable |-> daemon[d].discardable]
        /\ Stop(d)
        /\ UNCHANGED <<receipt, git, faults, reasons>>

-----------------------------------------------------------------------------
(* Preparing the clone.                                                     *)

Prepared(d) == IF daemon[d].pending THEN To(d, "resolveRetry") ELSE To(d, "save")
Exact == clone.state = "base" /\ branch = Nothing

(* A clone that exists is taken only when it is exactly the prepared state. *)
Prepare(d) ==
  /\ At(d, "prepare")
  /\ LET m == daemon[d] IN
     IF m.receipt.completion # "none" \/ Exact
       THEN Continue(d, Prepared(d))
     ELSE IF clone.state = "absent" /\ branch \in {NoBranch, Nothing}
       THEN Move(d, [To(d, "clone") EXCEPT !.seen = branch])
     ELSE Move(d, AfterFailure(d))
  /\ UNCHANGED <<durable, git, faults, reasons>>

(* A command of Git that fails because another daemon was there first.      *)
PrepareFails(d) ==
  /\ Move(d, IF Exact THEN (IF daemon[d].allow THEN Prepared(d) ELSE Idle)
                      ELSE AfterFailure(d))
  /\ UNCHANGED <<durable, git, faults, reasons>>

MakeClone(d) ==
  /\ At(d, "clone")
  /\ IF branch # daemon[d].seen THEN PrepareFails(d)
     ELSE IF clone.state # "absent"
       THEN /\ branch' = Nothing
            /\ Move(d, IF clone.state = "base" THEN Prepared(d)
                                               ELSE AfterFailure(d))
            /\ UNCHANGED <<durable, clone, requests, faults, reasons>>
     ELSE /\ branch' = Nothing
          /\ clone' = [state |-> "partial", commit |-> Nothing]
          /\ Move(d, To(d, "checkout"))
          /\ UNCHANGED <<durable, requests, faults, reasons>>

Checkout(d) ==
  /\ At(d, "checkout")
  /\ IF clone.state # "partial" THEN PrepareFails(d)
     ELSE /\ clone' = [clone EXCEPT !.state = "unmarked"]
          /\ Move(d, To(d, "mark"))
          /\ UNCHANGED <<durable, branch, requests, faults, reasons>>

Mark(d) ==
  /\ At(d, "mark")
  /\ IF clone.state # "unmarked" THEN PrepareFails(d)
     ELSE /\ clone' = [clone EXCEPT !.state = "base"]
          /\ Continue(d, Prepared(d))
          /\ UNCHANGED <<durable, branch, requests, faults, reasons>>

SavePrepared(d) ==
  /\ At(d, "save")
  /\ \/ FencedOut(d)
     \/ /\ Leased(d)
        /\ LET r == [daemon[d].receipt EXCEPT !.prepared = TRUE] IN
           /\ receipt' = r
           /\ Move(d,
                IF r.completion # "none"
                  THEN [To(d, Stage(r)) EXCEPT !.receipt = r]
                ELSE IF daemon[d].cancel
                  THEN [To(d, "terminal") EXCEPT !.receipt = r,
                          !.outcome = "cancelled"]
                  ELSE [To(d, "start") EXCEPT !.receipt = r])
        /\ UNCHANGED <<job, attempt, incident, git, faults, reasons>>

-----------------------------------------------------------------------------
(* The native run.  driver.start and driver.resume do not read the lease.   *)

Resumes(d) == NativeResume /\ daemon[d].claimRun # Nothing

StartRun(d) ==
  /\ At(d, "start")
  /\ LET m == daemon[d] IN
     Move(d, IF m.answer # Nothing /\ ~Resumes(d)
               THEN [m EXCEPT !.pc = "terminal", !.outcome = "failed"]
             ELSE IF Resumes(d)
               THEN [m EXCEPT !.pc = "running", !.live = TRUE,
                              !.run = m.claimRun]
               ELSE [m EXCEPT !.pc = "started", !.live = TRUE,
                              !.run = m.generation])
  /\ UNCHANGED <<durable, git, faults, reasons>>

(* Every event but an interrupted terminal is fenced once the job is being  *)
(* cancelled; a run whose address differs from the stored one is a conflict.*)
EventAllowed(d) == Leased(d) /\ job.status = "running"

RunStarted(d) ==
  /\ At(d, "started")
  /\ IF EventAllowed(d) /\ attempt.run \in {Nothing, daemon[d].run}
       THEN attempt' = [attempt EXCEPT !.run = daemon[d].run]
            /\ Move(d, To(d, "running"))
       ELSE attempt' = attempt /\ Stop(d)
  /\ UNCHANGED <<job, receipt, incident, git, faults, reasons>>

RunWrites(d) ==
  /\ daemon[d].live
  /\ \/ clone.state = "base"
        /\ clone' = [clone EXCEPT !.state = "dirty"]
     \/ clone.state = "head" /\ clone' = [clone EXCEPT !.state = "drifted"]
  /\ UNCHANGED <<durable, branch, requests, daemon, faults, reasons>>

Ask(d) ==
  /\ At(d, "running")
  /\ NativeResume
  /\ attempt.generation < MaxGeneration
  /\ IF EventAllowed(d)
       THEN /\ attempt' = [attempt EXCEPT !.status = "waiting_input",
                             !.generation = @ + 1, !.owner = NoDaemon,
                             !.live = FALSE, !.asked = daemon[d].run]
            /\ job' = [job EXCEPT !.status = "waiting_input"]
       ELSE UNCHANGED <<attempt, job>>
  /\ reasons' = reasons + 1
  /\ Stop(d)
  /\ UNCHANGED <<receipt, incident, git, faults>>

RunEnds(d, outcome) ==
  /\ At(d, "running")
  /\ Move(d, [To(d, "terminal") EXCEPT !.live = FALSE, !.outcome = outcome])
  /\ UNCHANGED <<durable, git, faults, reasons>>

(* The terminal event and the completion of the receipt commit together.  A *)
(* request to cancel that came first wins: the event is fenced, the probe   *)
(* finds the lease alive and the daemon writes the interrupted terminal.  A *)
(* failure the daemon made up itself is given up instead.                   *)
PersistTerminal(d) ==
  /\ At(d, "terminal")
  /\ \/ FencedOut(d)
     \/ /\ Leased(d)
        /\ LET m == daemon[d]
               r == [m.receipt EXCEPT !.completion = m.outcome] IN
           IF job.status = "cancel_requested" /\ m.outcome # "cancelled"
             THEN /\ receipt' = receipt
                  /\ \/ Move(d, [m EXCEPT !.cancel = TRUE,
                                          !.outcome = "cancelled"])
                     \/ m.outcome = "failed" /\ Stop(d)
             ELSE receipt' = r /\ Recorded(d, r, Stage(r))
        /\ UNCHANGED <<job, attempt, incident, git, faults, reasons>>

-----------------------------------------------------------------------------
(* Finalizing: the commit, its publication, its receipt, its request.       *)

Finalize(d) ==
  /\ At(d, "finalize")
  /\ CASE clone.state = "base" ->
            Continue(d, To(d, "saveFinalized"))
       [] clone.state = "dirty" -> Move(d, To(d, "commit"))
       [] clone.state = "head" -> Move(d, To(d, "publish"))
       [] OTHER -> Move(d, AfterFailure(d))
  /\ UNCHANGED <<durable, git, faults, reasons>>

(* The branch moves only from the base, so that one of two commits wins; a  *)
(* tree that cannot be committed as it is (a write between add and diff, a  *)
(* submodule) fails.                                                        *)
HeadUnmoved == clone.state = "dirty"

Commit(d) ==
  /\ At(d, "commit")
  /\ \/ /\ HeadUnmoved
        /\ clone' = [state |-> "head", commit |-> daemon[d].generation]
        /\ Move(d, To(d, "publish"))
     \/ /\ clone.state \in {"head", "drifted"}
        /\ ~HeadUnmoved
        /\ clone' = clone
        /\ Move(d, To(d, "publish"))
     \/ /\ clone.state # "head"
        /\ clone' = clone
        /\ Move(d, AfterFailure(d))
  /\ UNCHANGED <<durable, branch, requests, faults, reasons>>

Publish(d) ==
  /\ At(d, "publish")
  /\ IF clone.state = "head" /\ branch \in {Nothing, clone.commit}
       THEN /\ branch' = clone.commit
            /\ Continue(d, [To(d, "saveFinalized") EXCEPT
                              !.head = clone.commit])
       ELSE branch' = branch /\ Move(d, AfterFailure(d))
  /\ UNCHANGED <<durable, clone, requests, faults, reasons>>

SaveFinalized(d) ==
  /\ At(d, "saveFinalized")
  /\ \/ FencedOut(d)
     \/ /\ Leased(d)
        /\ LET m == daemon[d]
               r == [m.receipt EXCEPT !.finalized = m.head] IN
           receipt' = r /\ Recorded(d, r, Stage(r))
        /\ UNCHANGED <<job, attempt, incident, git, faults, reasons>>

(* The request and its receipt commit together.                             *)
CreateRequest(d) ==
  /\ At(d, "request")
  /\ \/ FencedOut(d)
     \/ /\ Leased(d)
        /\ LET head == daemon[d].receipt.finalized
               r == [daemon[d].receipt EXCEPT !.request = head] IN
           /\ requests' = requests \cup {head}
           /\ receipt' = r
           /\ Recorded(d, r, "cleanup")
        /\ UNCHANGED <<job, attempt, incident, clone, branch, faults, reasons>>

-----------------------------------------------------------------------------
(* Cleaning up and completing.                                              *)

Cleanup(d) ==
  /\ At(d, "cleanup")
  /\ IF Removable
       THEN RemoveClone /\ Continue(d, To(d, "saveCleaned"))
       ELSE clone' = clone /\ Move(d, AfterFailure(d))
  /\ UNCHANGED <<durable, branch, requests, faults, reasons>>

SaveCleaned(d) ==
  /\ At(d, "saveCleaned")
  /\ \/ FencedOut(d)
     \/ /\ Leased(d)
        /\ LET r == [daemon[d].receipt EXCEPT !.cleaned = TRUE] IN
           receipt' = r /\ Recorded(d, r, "complete")
        /\ UNCHANGED <<job, attempt, incident, git, faults, reasons>>

CleanedIsSuccess(d) ==                                   \* mutant of FinalOutcome
  IF daemon[d].cancel THEN "cancelled" ELSE "succeeded"

FinalOutcome(d) ==
  IF daemon[d].cancel THEN "cancelled" ELSE daemon[d].receipt.completion

Complete(d) ==
  /\ At(d, "complete")
  /\ LET outcome == FinalOutcome(d) IN
     /\ Leased(d)
     /\ \/ /\ \/ job.status = "running"
              \/ job.status = "cancel_requested" /\ outcome = "cancelled"
           /\ job' = [job EXCEPT !.status = outcome]
           /\ attempt' = [attempt EXCEPT !.status = outcome,
                            !.owner = NoDaemon, !.live = FALSE]
        \/ /\ job.status = "cancel_requested" /\ outcome # "cancelled"
           /\ UNCHANGED <<job, attempt>>
     /\ Stop(d)
     /\ UNCHANGED <<receipt, incident, git, faults, reasons>>

CompleteFenced(d) == At(d, "complete") /\ FencedOut(d)

-----------------------------------------------------------------------------
GitOperation(d) ==
  \/ RecoverSuspended(d) \/ Discard(d) \/ Prepare(d) \/ MakeClone(d)
  \/ Checkout(d) \/ Mark(d) \/ Finalize(d) \/ Commit(d) \/ Publish(d)
  \/ Cleanup(d)

StoreWrite(d) ==
  \/ Handshake(d) \/ ReadRecovery(d) \/ ResolveDiscard(d) \/ ResolveRetry(d)
  \/ Quarantine(d) \/ SavePrepared(d) \/ PersistTerminal(d)
  \/ SaveFinalized(d) \/ CreateRequest(d) \/ SaveCleaned(d) \/ Complete(d)
  \/ CompleteFenced(d)

NativeRun(d) ==
  \/ StartRun(d) \/ RunStarted(d)
  \/ \E outcome \in {"succeeded", "failed"} : RunEnds(d, outcome)

DaemonStep(d) == GitOperation(d) \/ StoreWrite(d) \/ NativeRun(d)

Next ==
  \/ Cancel \/ Answer \/ Expire
  \/ \E action \in {"retry", "discard"} : RequestRecovery(action)
  \/ \E d \in Daemons :
       \/ Claim(d) \/ DaemonStep(d) \/ Ask(d) \/ RunWrites(d)
       \/ HeartbeatCancels(d) \/ HeartbeatFenced(d) \/ HeartbeatFails(d)
       \/ Crash(d)

Spec == Init /\ [][Next]_vars

(* Daemons poll and work; a lease that nobody renews expires.               *)
Fairness ==
  /\ WF_vars(Expire)
  /\ \A d \in Daemons : WF_vars(Claim(d)) /\ WF_vars(DaemonStep(d))

FairSpec == Spec /\ Fairness

-----------------------------------------------------------------------------
TypeOK ==
  /\ job \in [status: {"queued", "running", "waiting_input", "blocked",
                       "cancel_requested"} \cup Outcomes, intent: BOOLEAN]
  /\ attempt \in [status: {"pending", "running", "waiting_input",
                           "quarantined"} \cup Outcomes,
                  generation: 0 .. MaxGeneration,
                  owner: Daemons \cup {NoDaemon}, live: BOOLEAN,
                  run: 0 .. MaxGeneration, asked: 0 .. MaxGeneration,
                  answer: 0 .. MaxGeneration]
  /\ receipt \in Receipts
  /\ incident \in [status: {"none", "open", "action_requested", "resolved"},
                   action: {"none", "retry", "discard"},
                   discardable: BOOLEAN]
  /\ clone \in [state: CloneStates, commit: 0 .. MaxGeneration]
  /\ branch \in NoBranch .. MaxGeneration
  /\ requests \subseteq Generations
  /\ daemon \in [Daemons -> Memories]
  /\ faults \in 0 .. MaxFaults
  /\ reasons \in Nat

(* An attempt has one proposal: one change request at most, whose head is   *)
(* the commit its receipt names and the proposal branch points to.  Crashes *)
(* and stale daemons may finalize twice.                                    *)
OneProposal ==
  /\ Cardinality(requests) <= 1
  /\ \A commit \in requests :
       branch = commit /\ receipt.finalized = commit

(* A job that succeeded cleaned its workspace after it proposed what its    *)
(* run committed.                                                           *)
DoneIsProposed ==
  job.status = "succeeded" =>
    /\ receipt.completion = "succeeded" /\ receipt.cleaned
    /\ receipt.finalized # NotYet
    /\ receipt.finalized \in Generations => receipt.finalized \in requests

(* Work leaves the clone only as a commit, after a run that was not to be   *)
(* kept, on an operator's discard, or once its commit has a change request. *)
(* After a run that left nothing to finalize, what a daemon that lost its   *)
(* lease still writes or commits goes with the clone.                       *)
DiscardingDaemon == \E d \in Daemons : At(d, "discard")

UncommittedWorkGoes ==
  clone.state = "dirty" /\ clone'.state \notin {"dirty", "head"}
ProposalGoes ==
  /\ clone.state = "head" /\ clone'.state = "absent"
  /\ clone.commit \notin requests

WorkIsKept ==
  [][UncommittedWorkGoes \/ ProposalGoes =>
       \/ DiscardingDaemon \/ receipt.finalized = Nothing
       \/ receipt.completion \in {"failed", "cancelled"}]_vars

(* The receipt gains one stage at a time, the next one, and loses them only *)
(* together: the check of the store never refuses what a daemon writes.     *)
Advances(old, new) ==
  \/ ~old.prepared /\ new = [NoReceipt EXCEPT !.prepared = TRUE]
  \/ /\ old.prepared /\ ~old.cleaned
     /\ IF old.completion = "none"
          THEN new = [old EXCEPT !.completion = new.completion]
        ELSE IF Stage(old) = "finalize"
          THEN new = [old EXCEPT !.finalized = new.finalized]
        ELSE IF Stage(old) = "request"
          THEN new = [old EXCEPT !.request = new.request]
        ELSE new = [old EXCEPT !.cleaned = TRUE]

ReceiptAdvances ==
  [][receipt' \in {receipt, NoReceipt} \/ Advances(receipt, receipt')]_receipt

(* The outcome of the job is the completion its receipt recorded, or        *)
(* cancelled when somebody asked for that.                                  *)
OutcomeIsRecorded ==
  [][job'.status \in Outcomes /\ job.status # job'.status =>
       \/ job'.status = receipt.completion
       \/ job'.status = "cancelled" /\ job'.intent]_vars

(* Every claim after the first has a reason: a fault, an answer, a request  *)
(* of an operator (which may need a second claim, to forget the run it      *)
(* cannot resume) or a cancellation.  No state is claimed over and over.    *)
ClaimsHaveReasons == attempt.generation <= reasons

(* An attempt that can be worked on ends, or waits for a person.            *)
Settled ==
  \/ job.status \in Outcomes \cup {"waiting_input", "blocked"}
  \/ attempt.generation = MaxGeneration
AttemptSettles == []<>Settled

-----------------------------------------------------------------------------
(* What the documentation says and the code does not do.                    *)

(* docs/agent-runtime-architecture-research.md:779: a cancellation is a     *)
(* durable desired state.  A job that was asked to cancel never succeeds.   *)
CancelIsDesired == job.intent => job.status # "succeeded"

(* docs/agent-runtime-architecture-research.md:769: a suspended workspace   *)
(* may hold the changes of its own task.  A claim that brings the answer    *)
(* does not quarantine them.                                                *)
SuspendedIsRecovered ==
  \A d \in Daemons :
    At(d, "quarantine") /\ daemon[d].answer # Nothing =>
      ~(clone.state = "dirty" /\ daemon[d].answer = daemon[d].claimRun)

(* docs/agent-runtime-architecture-research.md:118: recovery does not       *)
(* overwrite a dirty tree.  A discard removes the changes it was asked for. *)
DiscardIsCurrent ==
  [][clone.state = "dirty" /\ clone'.state = "absent" /\ DiscardingDaemon =>
       incident.status = "action_requested"]_vars

(* docs/agent-runtime-architecture-research.md:758: the next claim hands    *)
(* the answer to resume().  An answer goes to the run that asked.           *)
AnswerReachesAsker ==
  \A d \in Daemons :
    At(d, "start") /\ daemon[d].answer # Nothing =>
      daemon[d].answer = daemon[d].claimRun
=============================================================================
