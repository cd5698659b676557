---------------------------- MODULE KnowledgeMerge ----------------------------
(***************************************************************************)
(* The publication of one knowledge space.  A job is admitted on the tip   *)
(* of the default branch and proposes a change; a person reviews it and    *)
(* queues its merge; merge workers claim the operation under a lease, move *)
(* the branch in Git, record that, build the index and publish it as the   *)
(* active snapshot.                                                        *)
(*                                                                         *)
(* Git, the index and the database have no common transaction: a worker    *)
(* may crash, fail or lose its lease between any two of the steps, and the *)
(* operation is then retried by whoever claims it next.                    *)
(*                                                                         *)
(* The branch only moves from a base to the head proposed on it, so it is  *)
(* the sequence of the changes that landed; a change is also its commit.   *)
(***************************************************************************)
EXTENDS Naturals, Sequences, FiniteSets

CONSTANTS
  Changes,      \* change requests, and the commits they propose
  Root,         \* the first commit of the branch; also no snapshot
  Workers,      \* merge workers
  NoOp,         \* no operation
  MaxAttempts,  \* attempts after which an operation is not listed again
  MaxRevision   \* bound on the revisions of a change

ASSUME NamesAssumption == Root \notin Changes
ASSUME WorkersAssumption == IsFiniteSet(Workers)
ASSUME AttemptsAssumption == MaxAttempts \in Nat \ {0}
ASSUME RevisionAssumption == MaxRevision \in Nat \ {0}

VARIABLES
  change,   \* KnowledgeChangeRequest rows, from the admission of their job on
  op,       \* KnowledgeMergeOperation rows, by change and expected revision
  branch,   \* the default branch in Git
  active,   \* the change whose snapshot the space has active
  worker    \* what each worker has listed and is doing

vars == <<change, op, branch, active, worker>>

Revisions == 1 .. MaxRevision
Ops == Changes \X Revisions
ChangeStatuses == {"none", "admitted", "pending_review", "approved",
                   "conflicted", "rejected", "merged"}
OpStatuses == {"none", "queued", "running", "failed", "conflicted", "succeeded"}
Steps == {"idle", "merge", "record", "build", "publish", "conflict", "fail"}

Attempts == 0 .. MaxAttempts + Cardinality(Workers)
ChangeRows == [status: ChangeStatuses, revision: 0 .. MaxRevision,
               base: Changes \cup {Root}]
OpRows == [status: OpStatuses, attempt: Attempts, live: BOOLEAN,
           merged: BOOLEAN]
WorkerStates == [list: SUBSET Ops, op: Ops \cup {NoOp}, attempt: Attempts,
                 step: Steps]

Idle == [list |-> {}, op |-> NoOp, attempt |-> 0, step |-> "idle"]

Init ==
  /\ change = [c \in Changes |->
                 [status |-> "none", revision |-> 0, base |-> Root]]
  /\ op = [o \in Ops |-> [status |-> "none", attempt |-> 0, live |-> FALSE,
                          merged |-> FALSE]]
  /\ branch = <<>>
  /\ active = Root
  /\ worker = [w \in Workers |-> Idle]

Landed == {branch[i] : i \in DOMAIN branch}
Tip == IF branch = <<>> THEN Root ELSE branch[Len(branch)]

-----------------------------------------------------------------------------
(* Proposals and their review                                              *)

(* No snapshot is active yet, or the active one is of the tip.             *)
Admissible == active \in {Root, Tip}

Admit(c) ==
  /\ change[c].status = "none"
  /\ Admissible
  /\ change' = [change EXCEPT ![c].status = "admitted", ![c].base = Tip]
  /\ UNCHANGED <<op, branch, active, worker>>

Propose(c) ==
  /\ change[c].status = "admitted"
  /\ change' = [change EXCEPT ![c].status = "pending_review",
                              ![c].revision = 1]
  /\ UNCHANGED <<op, branch, active, worker>>

CanReview(status, action) ==
  CASE action = "approved"   -> status \in {"pending_review", "conflicted"}
    [] action = "conflicted" -> status = "approved"
    [] action = "rejected"   -> status \in {"pending_review", "approved",
                                            "conflicted"}

Queued(c) == \E r \in Revisions : op[<<c, r>>].status \in {"queued", "running"}

(* Mutant of Review: a merge under way does not stop a review.             *)
ReviewMerging(c, next) ==
  /\ CanReview(change[c].status, next)
  /\ change[c].revision < MaxRevision - 1
  /\ change' = [change EXCEPT ![c].status = next, ![c].revision = @ + 1]
  /\ UNCHANGED <<op, branch, active, worker>>

(* The bound leaves a revision for the merge itself.                       *)
Review(c, next) ==
  /\ CanReview(change[c].status, next)
  /\ ~Queued(c)
  /\ change[c].revision < MaxRevision - 1
  /\ change' = [change EXCEPT ![c].status = next, ![c].revision = @ + 1]
  /\ UNCHANGED <<op, branch, active, worker>>

Queue(c) ==
  LET o == <<c, change[c].revision>>
  IN /\ change[c].status = "approved"
     /\ op[o].status = "none"
     /\ op' = [op EXCEPT ![o].status = "queued"]
     /\ UNCHANGED <<change, branch, active, worker>>

-----------------------------------------------------------------------------
(* Leases                                                                  *)

Live(o) == op[o].status = "running" /\ op[o].live
Expired(o) == op[o].status = "running" /\ ~op[o].live
Blocked(o) == \E other \in Ops \ {o} : Live(other)

Listed(o) ==
  /\ \/ op[o].status = "queued"
     \/ op[o].status = "failed" /\ op[o].attempt < MaxAttempts
     \/ Expired(o) /\ op[o].attempt < MaxAttempts
  /\ ~Blocked(o)

(* A worker lists what it can claim and goes through the list it read.     *)
List(w) ==
  /\ worker[w].list = {}
  /\ worker[w].step = "idle"
  /\ \E o \in Ops : Listed(o)
  /\ worker' = [worker EXCEPT ![w].list = {o \in Ops : Listed(o)}]
  /\ UNCHANGED <<change, op, branch, active>>

Claimable(o) ==
  /\ op[o].status \in {"queued", "failed"} \/ Expired(o)
  /\ ~Blocked(o)

Approved(o) ==
  change[o[1]].status = "approved" /\ change[o[1]].revision = o[2]

Replayed(o) ==
  change[o[1]].status = "merged" /\ change[o[1]].revision = o[2] + 1

FirstStep(o) ==
  CASE ~(Approved(o) \/ Replayed(o)) -> "conflict"
    [] op[o].merged                  -> "build"
    [] OTHER                         -> "merge"

Claim(w, o) ==
  /\ worker[w].step = "idle"
  /\ o \in worker[w].list
  /\ Claimable(o)
  /\ op' = [op EXCEPT ![o].status = "running", ![o].attempt = @ + 1,
                      ![o].live = TRUE]
  /\ worker' = [worker EXCEPT ![w] =
                  [list |-> @.list \ {o}, op |-> o,
                   attempt |-> op[o].attempt + 1, step |-> FirstStep(o)]]
  /\ UNCHANGED <<change, branch, active>>

SkipListed(w, o) ==
  /\ worker[w].step = "idle"
  /\ o \in worker[w].list
  /\ ~Claimable(o)
  /\ worker' = [worker EXCEPT ![w].list = @ \ {o}]
  /\ UNCHANGED <<change, op, branch, active>>

(* No heartbeat arrived in time.                                           *)
Expire(o) ==
  /\ Live(o)
  /\ op' = [op EXCEPT ![o].live = FALSE]
  /\ UNCHANGED <<change, branch, active, worker>>

Fenced(w) ==
  /\ worker[w].op # NoOp
  /\ Live(worker[w].op)
  /\ op[worker[w].op].attempt = worker[w].attempt

-----------------------------------------------------------------------------
(* What a worker does with the operation it claimed                        *)

Goto(w, step) == worker' = [worker EXCEPT ![w].step = step]

Leave(w) == worker' = [worker EXCEPT ![w].op = NoOp, ![w].attempt = 0,
                                     ![w].step = "idle"]

(* Mutant of UpdateRef: the branch is moved whatever it points at.         *)
UpdateAnyRef(c) == branch' = IF Tip = c THEN branch ELSE Append(branch, c)

(* The ref is at the head already, or moves to it from the base.           *)
UpdateRef(c) ==
  \/ Tip = c /\ UNCHANGED branch
  \/ Tip # c /\ Tip = change[c].base /\ branch' = Append(branch, c)

(* Git asks no lease: a worker that lost its own still moves the branch.   *)
GitMerge(w) ==
  LET c == worker[w].op[1]
  IN /\ worker[w].step = "merge"
     /\ \/ UpdateRef(c) /\ Goto(w, "record")
        \/ Tip \notin {c, change[c].base} /\ UNCHANGED branch
           /\ Goto(w, "conflict")
     /\ UNCHANGED <<change, op, active>>

RecordMerge(w) ==
  LET o == worker[w].op
  IN /\ worker[w].step = "record"
     /\ Fenced(w)
     /\ \/ Approved(o)
           /\ change' = [change EXCEPT ![o[1]].status = "merged",
                                       ![o[1]].revision = @ + 1]
        \/ Replayed(o) /\ UNCHANGED change
     /\ op' = [op EXCEPT ![o].merged = TRUE]
     /\ Goto(w, "build")
     /\ UNCHANGED <<branch, active>>

BuildIndex(w) ==
  /\ worker[w].step = "build"
  /\ Goto(w, "publish")
  /\ UNCHANGED <<change, op, branch, active>>

Publishable(o) == change[o[1]].status = "merged" /\ op[o].merged

(* Snapshot, active pointer and operation, in one transaction.             *)
Publish(w) ==
  LET o == worker[w].op
  IN /\ worker[w].step = "publish"
     /\ Fenced(w)
     /\ Publishable(o)
     /\ active' = o[1]
     /\ op' = [op EXCEPT ![o].status = "succeeded", ![o].live = FALSE]
     /\ Leave(w)
     /\ UNCHANGED <<change, branch>>

RecordConflict(w) ==
  LET o == worker[w].op
  IN /\ worker[w].step = "conflict"
     /\ Fenced(w)
     /\ change' = IF Approved(o)
                    THEN [change EXCEPT ![o[1]].status = "conflicted",
                                        ![o[1]].revision = @ + 1]
                    ELSE change
     /\ op' = [op EXCEPT ![o].status = "conflicted", ![o].live = FALSE]
     /\ Leave(w)
     /\ UNCHANGED <<branch, active>>

(* Git, the index or a write of the database throws.                       *)
Stumble(w) ==
  /\ worker[w].step \in {"merge", "record", "build", "publish"}
  /\ Goto(w, "fail")
  /\ UNCHANGED <<change, op, branch, active>>

RecordFailure(w) ==
  /\ worker[w].step = "fail"
  /\ Fenced(w)
  /\ op' = [op EXCEPT ![worker[w].op].status = "failed",
                      ![worker[w].op].live = FALSE]
  /\ Leave(w)
  /\ UNCHANGED <<change, branch, active>>

(* The next write is refused by the fence and the error is only reported.  *)
LoseLease(w) ==
  /\ worker[w].step \in {"record", "publish", "conflict", "fail"}
  /\ ~Fenced(w)
  /\ Leave(w)
  /\ UNCHANGED <<change, op, branch, active>>

Crash(w) ==
  /\ worker[w] # Idle
  /\ worker' = [worker EXCEPT ![w] = Idle]
  /\ UNCHANGED <<change, op, branch, active>>

-----------------------------------------------------------------------------

Reviews(c) ==
  \/ Admit(c)
  \/ Propose(c)
  \/ \E next \in {"approved", "conflicted", "rejected"} : Review(c, next)
  \/ Queue(c)

Serve(w) ==
  \/ GitMerge(w)
  \/ RecordMerge(w)
  \/ BuildIndex(w)
  \/ Publish(w)
  \/ RecordConflict(w)
  \/ RecordFailure(w)
  \/ LoseLease(w)

TakeUp(w) == \E o \in Ops : Claim(w, o) \/ SkipListed(w, o)

Next ==
  \/ \E c \in Changes : Reviews(c)
  \/ \E o \in Ops : Expire(o)
  \/ \E w \in Workers : List(w) \/ TakeUp(w) \/ Serve(w) \/ Stumble(w) \/ Crash(w)

Spec == Init /\ [][Next]_vars

(* The process loop lists, works through its list and goes on; a lease     *)
(* that is not renewed runs out.  No worker crashes each time it listed    *)
(* something and before it claims it.  Nothing makes a person act.         *)
FairSpec ==
  /\ Spec
  /\ \A w \in Workers : /\ WF_vars(List(w))
                        /\ SF_vars(TakeUp(w))
                        /\ WF_vars(Serve(w))
  /\ \A o \in Ops : WF_vars(Expire(o) /\ \A w \in Workers :
                              ~(worker[w].op = o /\ Fenced(w)))

-----------------------------------------------------------------------------
(* Properties                                                              *)

(* The rows, the branch and the workers keep their types.                  *)
TypeOK ==
  /\ change \in [Changes -> ChangeRows]
  /\ op \in [Ops -> OpRows]
  /\ branch \in Seq(Changes)
  /\ active \in Changes \cup {Root}
  /\ worker \in [Workers -> WorkerStates]

(* A change is recorded as merged only when its commit is on the default   *)
(* branch, and the branch is a chain: of changes proposed on the same base *)
(* one lands.                                                              *)
MergedIsOnBranch ==
  /\ \A c \in Changes : change[c].status = "merged" => c \in Landed
  /\ \A i \in DOMAIN branch :
       change[branch[i]].base = IF i = 1 THEN Root ELSE branch[i - 1]

(* The snapshot agents read is of a change a person approved and Git       *)
(* merged, by an operation that published it.                              *)
ActiveIsReviewed ==
  active # Root =>
    /\ change[active].status = "merged"
    /\ active \in Landed
    /\ op[<<active, change[active].revision - 1>>].status = "succeeded"

(* Of one space one operation at a time is worked on under a lease.        *)
OneLiveMerge ==
  \A o, other \in Ops : Live(o) /\ Live(other) => o = other

(* Lists grow stale: each worker may take one attempt more than the limit  *)
(* it listed by, and none takes two.                                       *)
AttemptsBounded ==
  \A o \in Ops : op[o].attempt < MaxAttempts + Cardinality(Workers)

(* What the rows, the branch and the snapshot agree on at every moment.     *)
MergeSound ==
  /\ TypeOK
  /\ MergedIsOnBranch
  /\ ActiveIsReviewed
  /\ OneLiveMerge
  /\ AttemptsBounded

(* A change whose merge waits or runs is decided by the holder of the      *)
(* merge of that very revision, and by nobody else; an operation that      *)
(* ended stays as it ended, whoever listed it while it ran.                *)
MergeDecides ==
  [][/\ \A c \in Changes : Queued(c) /\ change'[c] # change[c] =>
           /\ change'[c].status \in {"merged", "conflicted"}
           /\ Live(<<c, change[c].revision>>)
     /\ \A o \in Ops : op[o].status \in {"succeeded", "conflicted"} =>
           op'[o] = op[o]]_vars

(* Whatever workers lose, it comes to it again that no operation waits:    *)
(* each that was queued ended, or was tried as often as allowed.           *)
EveryMergeEnds ==
  []<>\A o \in Ops : \/ op[o].status \in {"none", "succeeded", "conflicted"}
                     \/ op[o].attempt >= MaxAttempts

(* A merge that Git made and the database does not know of is replayed:    *)
(* no operation of a change still approved is recorded as a conflict when  *)
(* the branch has its commit.                                              *)
ReplayIsExact ==
  [][\A o \in Ops : op'[o] # op[o] /\ op'[o].status = "conflicted" /\ Approved(o) =>
       o[1] \notin Landed]_vars

(* What the reviewers decided is what the branch has: the commit of a      *)
(* rejected change is not on it.                                           *)
RejectedStaysOff ==
  \A c \in Changes : change[c].status = "rejected" => c \notin Landed

(* The admission of jobs asserts that the active snapshot is of the commit *)
(* the branch is at: it is whenever no operation is left to run.           *)
PublishedIsTip ==
  (\A o \in Ops : op[o].status \in {"none", "succeeded", "conflicted"}) =>
    Admissible

=============================================================================
