---------------------------- MODULE DaemonsProofs ----------------------------
(***************************************************************************)
(* What the daemons of the execution plane keep, whatever their number:    *)
(* the merge workers of a knowledge space (its rows, branch and snapshot   *)
(* agree, and the holder of a lease decides a merge), the poll loops       *)
(* (limits hold and no claim is forgotten) and the attempt in its clone    *)
(* (its work is proposed once, and kept until then).  The parts share no   *)
(* variable: a step of MCDaemons is a step or a stutter of each.           *)
(***************************************************************************)
EXTENDS MCDaemons, FiniteSetTheorems, WellFoundedInduction, TLAPS

-----------------------------------------------------------------------------
(* The inductive invariant                                                 *)

(* The merge itself always has a revision left, and takes one.             *)
RevisionLeft ==
  \A c \in Changes :
    /\ change[c].status = "approved" =>
         change[c].revision > 0 /\ change[c].revision < MaxRevision
    /\ change[c].status = "merged" => change[c].revision > 1

(* Only what was proposed has operations, or is on the branch.             *)
Past(c) == change[c].status \notin {"none", "admitted"}

OnlyProposed ==
  /\ \A o \in Ops : op[o].status # "none" => Past(o[1])
  /\ \A c \in Landed : Past(c)

(* An operation that is recorded as merged is the one that merged.         *)
RecordedByOwn ==
  \A o \in Ops : op[o].merged =>
    /\ change[o[1]].status = "merged"
    /\ change[o[1]].revision = o[2] + 1

(* A worker has an operation at every step, and Git made the merge that it *)
(* is about to record.                                                     *)
WorkersBusy ==
  \A w \in Workers :
    /\ worker[w].step # "idle" =>
         worker[w].op \in Ops /\ op[worker[w].op].status # "none"
    /\ worker[w].step = "record" => worker[w].op[1] \in Landed

(* Whoever has an operation in its list may try it once more.              *)
ListedBy(o) == {w \in Workers : o \in worker[w].list}

AttemptsCounted ==
  \A o \in Ops :
    /\ op[o].status \in {"none", "queued"} => op[o].attempt = 0
    /\ op[o].attempt + Cardinality(ListedBy(o)) <
         MaxAttempts + Cardinality(Workers)

-----------------------------------------------------------------------------
(* What the workers do, whatever the rows are                              *)

WorkersTyped == worker \in [Workers -> WorkerStates]

(* A worker is as before but for its step, or is done with its operation.  *)
Moved(w, step) ==
  /\ worker'[w].list = worker[w].list /\ worker'[w].step = step
  /\ worker'[w].op = worker[w].op
  /\ \A v \in Workers : v # w => worker'[v] = worker[v]

Freed(w) ==
  /\ worker'[w].list \subseteq worker[w].list /\ worker'[w].step = "idle"
  /\ \A v \in Workers : v # w => worker'[v] = worker[v]

LEMMA GotoMoves ==
  ASSUME WorkersTyped, NEW w \in Workers, NEW step \in Steps, Goto(w, step)
  PROVE  WorkersTyped' /\ Moved(w, step)
BY DEF WorkersTyped, WorkerStates, Goto, Moved

LEMMA LeaveFrees ==
  ASSUME WorkersTyped, NEW w \in Workers, Leave(w)
  PROVE  WorkersTyped' /\ Freed(w)
<1>1. 0 \in Attempts /\ "idle" \in Steps
  BY WorkersAssumption, AttemptsAssumption, FS_CardinalityType DEF Attempts, Steps
<1>2. worker' = [worker EXCEPT ![w] = [worker[w] EXCEPT
                   !.op = NoOp, !.attempt = 0, !.step = "idle"]]
  BY DEF Leave
<1> QED
  BY <1>1, <1>2 DEF WorkersTyped, WorkerStates, Freed

LEMMA CrashFrees ==
  ASSUME WorkersTyped, NEW w \in Workers, Crash(w)
  PROVE  WorkersTyped' /\ Freed(w)
<1>1. Idle \in WorkerStates
  BY WorkersAssumption, AttemptsAssumption, FS_CardinalityType
  DEF Attempts, Steps, Idle, WorkerStates
<1> QED
  BY <1>1 DEF WorkersTyped, Freed, Crash, Idle

(* No attempt begins, and no operation is forgotten or begins anew.        *)
OpsGoOn ==
  \A o \in Ops : /\ op'[o].attempt = op[o].attempt
                 /\ op[o].status # "none" => op'[o].status # "none"
                 /\ op'[o].status \in {"none", "queued"} =>
                      op[o].status \in {"none", "queued"}

(* Lists that only get shorter count no attempt.                           *)
LEMMA ListsShrink ==
  ASSUME AttemptsCounted, op \in [Ops -> OpRows],
         \A w \in Workers : worker'[w].list \subseteq worker[w].list, OpsGoOn
  PROVE  AttemptsCounted'
<1> SUFFICES ASSUME NEW o \in Ops
             PROVE  /\ op'[o].status \in {"none", "queued"} => op'[o].attempt = 0
                    /\ op'[o].attempt + Cardinality(ListedBy(o)') <
                         MaxAttempts + Cardinality(Workers)
  BY DEF AttemptsCounted
<1>1. ListedBy(o)' \subseteq ListedBy(o) /\ ListedBy(o) \subseteq Workers
  BY DEF ListedBy
<1>2. /\ Cardinality(ListedBy(o)') <= Cardinality(ListedBy(o))
      /\ Cardinality(ListedBy(o)') \in Nat /\ Cardinality(ListedBy(o)) \in Nat
      /\ Cardinality(Workers) \in Nat
  BY <1>1, WorkersAssumption, FS_Subset, FS_CardinalityType
<1>3. op[o].attempt \in Nat
  BY WorkersAssumption, AttemptsAssumption, FS_CardinalityType DEF OpRows, Attempts
<1> QED
  BY <1>2, <1>3, AttemptsAssumption DEF AttemptsCounted, OpsGoOn

(* Workers that go on with what they have stay busy.                       *)
LEMMA StillBusy ==
  ASSUME WorkersBusy, Landed \subseteq Landed',
         \A o \in Ops : op[o].status # "none" => op'[o].status # "none",
         \A w \in Workers :
           \/ worker'[w].step = "idle"
           \/ worker'[w] = worker[w]
           \/ /\ worker'[w].op = worker[w].op /\ worker[w].step # "idle"
              /\ worker'[w].step = "record" => worker[w].op[1] \in Landed'
  PROVE  WorkersBusy'
BY DEF WorkersBusy

-----------------------------------------------------------------------------
(* What the rows agree on                                                  *)

RowsTyped ==
  /\ change \in [Changes -> ChangeRows]
  /\ op \in [Ops -> OpRows]
  /\ branch \in Seq(Changes)
  /\ active \in Changes \cup {Root}

RowsSound ==
  /\ RowsTyped
  /\ RevisionLeft
  /\ OnlyProposed
  /\ RecordedByOwn
  /\ MergedIsOnBranch
  /\ ActiveIsReviewed
  /\ OneLiveMerge

(* The row of one operation that has not succeeded moves on.               *)
OpMoves(o) ==
  /\ op' \in [Ops -> OpRows]
  /\ op'[o].merged = op[o].merged
  /\ op[o].status # "succeeded"
  /\ \A p \in Ops : p # o => op'[p] = op[p]

LEMMA RowsKept ==
  ASSUME RowsSound, UNCHANGED <<change, op, branch, active>>
  PROVE  RowsSound'
BY DEF RowsSound, RowsTyped, RevisionLeft, OnlyProposed, Past, Landed,
       RecordedByOwn, MergedIsOnBranch, ActiveIsReviewed, OneLiveMerge, Live

(* A published snapshot stays that of the operation that succeeded.        *)
LEMMA StillReviewed ==
  ASSUME RowsSound, UNCHANGED <<branch, active>>,
         \A c \in Changes : change[c].status = "merged" => change'[c] = change[c],
         \A p \in Ops : op[p].status = "succeeded" => op'[p].status = "succeeded"
  PROVE  ActiveIsReviewed'
<1> SUFFICES ASSUME active # Root PROVE ActiveIsReviewed'
  BY DEF ActiveIsReviewed
<1>1. /\ change[active].status = "merged" /\ active \in Landed
      /\ op[<<active, change[active].revision - 1>>].status = "succeeded"
  BY DEF RowsSound, ActiveIsReviewed
<1>2. active \in Changes /\ change[active] \in ChangeRows
  BY DEF RowsSound, RowsTyped
<1>3. /\ change[active].revision > 1
      /\ change[active].revision \in 0 .. MaxRevision
  BY <1>1, <1>2 DEF RowsSound, RevisionLeft, ChangeRows
<1>4. <<active, change[active].revision - 1>> \in Ops
  BY <1>2, <1>3, RevisionAssumption DEF Ops, Revisions
<1> QED
  BY <1>1, <1>2, <1>4 DEF ActiveIsReviewed, Landed

LEMMA OpMovesSound ==
  ASSUME RowsSound, UNCHANGED <<change, branch, active>>,
         NEW o \in Ops, OpMoves(o), Past(o[1]),
         Live(o)' => \A p \in Ops \ {o} : ~Live(p)
  PROVE  RowsSound'
<1>1. RowsTyped' /\ RevisionLeft'
  BY DEF RowsSound, RowsTyped, RevisionLeft, OpMoves
<1>2. OnlyProposed'
  BY DEF RowsSound, OnlyProposed, Past, Landed, OpMoves
<1>3. RecordedByOwn'
  BY DEF RowsSound, RecordedByOwn, OpMoves
<1>4. MergedIsOnBranch'
  BY DEF RowsSound, MergedIsOnBranch, Landed
<1>5. ActiveIsReviewed'
  BY StillReviewed DEF OpMoves
<1>6. OneLiveMerge'
  <2> SUFFICES ASSUME NEW p \in Ops, NEW q \in Ops, Live(p)', Live(q)'
               PROVE  p = q
    BY DEF OneLiveMerge
  <2>1. CASE p # o /\ q # o
    BY <2>1 DEF Live, OpMoves, RowsSound, OneLiveMerge
  <2>2. CASE p = o /\ q # o
    BY <2>2 DEF Live, OpMoves
  <2>3. CASE p # o /\ q = o
    BY <2>3 DEF Live, OpMoves
  <2> QED
    BY <2>1, <2>2, <2>3
<1> QED
  BY <1>1, <1>2, <1>3, <1>4, <1>5, <1>6 DEF RowsSound

(* The row of a change that is not merged moves on, and the operations do  *)
(* not come to life.                                                       *)
LEMMA ChangeMovesSound ==
  ASSUME RowsSound, UNCHANGED <<branch, active>>, NEW c \in Changes,
         change' \in [Changes -> ChangeRows],
         \A d \in Changes : d # c => change'[d] = change[d],
         change[c].status # "merged", change'[c].status # "merged",
         change'[c].status = "approved" =>
           change'[c].revision > 0 /\ change'[c].revision < MaxRevision,
         Past(c) => Past(c)' /\ change'[c].base = change[c].base,
         op' \in [Ops -> OpRows],
         \A p \in Ops : /\ op'[p].merged = op[p].merged
                        /\ op'[p].status # "none" => op[p].status # "none"
                        /\ op[p].status = "succeeded" =>
                             op'[p].status = "succeeded"
                        /\ Live(p)' => Live(p)
  PROVE  RowsSound'
<1>1. RowsTyped' /\ RevisionLeft'
  BY DEF RowsSound, RowsTyped, RevisionLeft
<1>2. OnlyProposed'
  <2>1. \A d \in Changes : Past(d) => Past(d)'
    BY DEF Past
  <2>2. \A o \in Ops : o[1] \in Changes
    BY DEF Ops
  <2>3. Landed' = Landed /\ Landed \subseteq Changes
    BY DEF RowsSound, RowsTyped, Landed
  <2> QED
    BY <2>1, <2>2, <2>3 DEF RowsSound, OnlyProposed
<1>3. RecordedByOwn'
  <2>1. \A o \in Ops : o[1] \in Changes
    BY DEF Ops
  <2> QED
    BY <2>1 DEF RowsSound, RecordedByOwn
<1>4. MergedIsOnBranch'
  <2>1. Landed' = Landed
    BY DEF Landed
  <2>2. \A d \in Changes : change'[d].status = "merged" => d \in Landed
    BY DEF RowsSound, MergedIsOnBranch
  <2>3. \A i \in DOMAIN branch : change'[branch[i]].base = change[branch[i]].base
    <3> SUFFICES ASSUME NEW i \in DOMAIN branch
                 PROVE  change'[branch[i]].base = change[branch[i]].base
      OBVIOUS
    <3>1. branch[i] \in Changes /\ Past(branch[i])
      BY DEF RowsSound, RowsTyped, OnlyProposed, Landed
    <3> QED
      BY <3>1
  <2> QED
    BY <2>1, <2>2, <2>3 DEF RowsSound, MergedIsOnBranch
<1>5. ActiveIsReviewed'
  BY StillReviewed
<1>6. OneLiveMerge'
  BY DEF RowsSound, OneLiveMerge
<1> QED
  BY <1>1, <1>2, <1>3, <1>4, <1>5, <1>6 DEF RowsSound

-----------------------------------------------------------------------------
(* The steps of people and of leases                                       *)

LEMMA ReviewsSound ==
  ASSUME RowsSound, NEW c \in Changes, Reviews(c)
  PROVE  RowsSound' /\ OpsGoOn /\ UNCHANGED <<branch, worker>>
<1> SUFFICES RowsSound' /\ OpsGoOn
  BY DEF Reviews, Admit, Propose, Review, Queue
<1>0. /\ change[c] \in ChangeRows /\ op \in [Ops -> OpRows]
      /\ change \in [Changes -> ChangeRows] /\ branch \in Seq(Changes)
      /\ RevisionLeft
  BY DEF RowsSound, RowsTyped
<1>1. CASE Admit(c)
  <2>1. Tip \in Changes \cup {Root}
    BY <1>0 DEF Tip
  <2>2. /\ change'[c] = [change[c] EXCEPT !.status = "admitted", !.base = Tip]
        /\ change' \in [Changes -> ChangeRows]
        /\ \A d \in Changes : d # c => change'[d] = change[d]
    BY <1>0, <1>1, <2>1 DEF Admit, ChangeRows, ChangeStatuses
  <2>3. change[c].status = "none" /\ UNCHANGED <<op, branch, active>>
    BY <1>1 DEF Admit
  <2>4. change'[c].status = "admitted"
    BY <2>2, <1>0 DEF ChangeRows
  <2> QED
    BY <1>0, <2>2, <2>3, <2>4, ChangeMovesSound DEF Past, Live, OpsGoOn
<1>2. CASE Propose(c)
  <2>1. /\ change' \in [Changes -> ChangeRows]
        /\ change'[c].status = "pending_review"
        /\ \A d \in Changes : d # c => change'[d] = change[d]
    <3>1. change' = [change EXCEPT ![c] = [change[c] EXCEPT
                       !.status = "pending_review", !.revision = 1]]
      BY <1>2 DEF Propose
    <3>2. [change[c] EXCEPT !.status = "pending_review", !.revision = 1]
            \in ChangeRows
      <4>1. 1 \in 0 .. MaxRevision
        BY RevisionAssumption
      <4> QED
        BY <1>0, <4>1 DEF ChangeRows, ChangeStatuses
    <3> QED
      BY <1>0, <3>1, <3>2 DEF ChangeRows
  <2>2. change[c].status = "admitted" /\ UNCHANGED <<op, branch, active>>
    BY <1>2 DEF Propose
  <2> QED
    BY <1>0, <2>1, <2>2, ChangeMovesSound DEF Past, Live, OpsGoOn
<1>3. ASSUME NEW next \in {"approved", "conflicted", "rejected"},
             Review(c, next)
      PROVE  RowsSound' /\ OpsGoOn
  <2>1. /\ change[c].status \in {"pending_review", "approved", "conflicted"}
        /\ change[c].revision < MaxRevision - 1
        /\ UNCHANGED <<op, branch, active>>
    BY <1>3 DEF Review, CanReview
  <2>2. /\ change' \in [Changes -> ChangeRows]
        /\ change'[c].status = next
        /\ change'[c].revision = change[c].revision + 1
        /\ change'[c].base = change[c].base
        /\ \A d \in Changes : d # c => change'[d] = change[d]
    BY <1>0, <1>3, <2>1, RevisionAssumption DEF Review, ChangeRows, ChangeStatuses
  <2>3. change'[c].revision > 0 /\ change'[c].revision < MaxRevision
    BY <1>0, <2>1, <2>2, RevisionAssumption DEF ChangeRows
  <2> QED
    BY <1>0, <2>1, <2>2, <2>3, ChangeMovesSound DEF Past, Live, OpsGoOn
<1>4. CASE Queue(c)
  <2> DEFINE o == <<c, change[c].revision>>
  <2>1. /\ change[c].status = "approved" /\ op[o].status = "none"
        /\ op' = [op EXCEPT ![o].status = "queued"]
        /\ UNCHANGED <<change, branch, active>>
    BY <1>4 DEF Queue
  <2>2. o \in Ops /\ Past(o[1])
    <3>1. change[c].revision > 0 /\ change[c].revision \in 0 .. MaxRevision
      BY <1>0, <2>1 DEF RevisionLeft, ChangeRows
    <3>2. change[c].revision \in Revisions
      BY <3>1, RevisionAssumption DEF Revisions
    <3> QED
      BY <2>1, <3>2 DEF Ops, Past
  <2>3. /\ OpMoves(o) /\ op'[o].status = "queued"
        /\ op'[o].attempt = op[o].attempt
    BY <1>0, <2>1, <2>2 DEF OpMoves, OpRows, OpStatuses
  <2>4. OpsGoOn
    BY <2>1, <2>3 DEF OpsGoOn, OpMoves
  <2> QED
    BY <2>1, <2>2, <2>3, <2>4, OpMovesSound DEF Live
<1> QED
  BY <1>1, <1>2, <1>3, <1>4 DEF Reviews

(* A claimed operation becomes the only one alive.                         *)
LEMMA ClaimSound ==
  ASSUME RowsSound, NEW w \in Workers, NEW o \in Ops, Claim(w, o),
         op[o].attempt + 1 \in Attempts
  PROVE  RowsSound' /\ op'[o].status = "running"
<1>1. /\ op \in [Ops -> OpRows] /\ UNCHANGED <<change, branch, active>>
      /\ op[o].status \in {"queued", "failed", "running"}
      /\ \A p \in Ops \ {o} : ~Live(p)
      /\ op' = [op EXCEPT ![o] = [op[o] EXCEPT !.status = "running",
                    !.attempt = op[o].attempt + 1, !.live = TRUE]]
  BY DEF RowsSound, RowsTyped, Claim, Claimable, Expired, Blocked
<1>2. OpMoves(o) /\ op'[o].status = "running"
  BY <1>1 DEF OpMoves, OpRows, OpStatuses
<1>3. Past(o[1])
  BY <1>1 DEF RowsSound, OnlyProposed
<1> QED
  BY <1>1, <1>2, <1>3, OpMovesSound

LEMMA ExpireSound ==
  ASSUME RowsSound, NEW o \in Ops, Expire(o)
  PROVE  RowsSound' /\ OpsGoOn
<1>1. /\ op \in [Ops -> OpRows] /\ UNCHANGED <<change, branch, active>>
      /\ op[o].status = "running"
      /\ op' = [op EXCEPT ![o].live = FALSE]
  BY DEF RowsSound, RowsTyped, Expire, Live
<1>2. /\ OpMoves(o) /\ ~op'[o].live /\ op'[o].status = "running"
      /\ op'[o].attempt = op[o].attempt
  BY <1>1 DEF OpMoves, OpRows
<1>3. Past(o[1])
  BY <1>1 DEF RowsSound, OnlyProposed
<1>4. OpsGoOn
  BY <1>1, <1>2 DEF OpsGoOn, OpMoves
<1> QED
  BY <1>1, <1>2, <1>3, <1>4, OpMovesSound DEF Live

-----------------------------------------------------------------------------
(* The steps of a worker                                                   *)

(* The step names whose worker holds an operation.                         *)
LEMMA BusyHolds ==
  ASSUME RowsSound, WorkersBusy, NEW w \in Workers, worker[w].step # "idle"
  PROVE  /\ worker[w].op \in Ops /\ worker[w].op[1] \in Changes
         /\ Past(worker[w].op[1])
<1>1. worker[w].op \in Ops /\ op[worker[w].op].status # "none"
  BY DEF WorkersBusy
<1> QED
  BY <1>1 DEF RowsSound, OnlyProposed, Ops

LEMMA GitMergeSound ==
  ASSUME RowsSound, WorkersBusy, NEW w \in Workers, GitMerge(w)
  PROVE  /\ RowsSound' /\ Landed \subseteq Landed'
         /\ \/ Goto(w, "record") /\ worker[w].op[1] \in Landed'
            \/ Goto(w, "conflict")
<1> DEFINE c == worker[w].op[1]
<1>1. /\ UNCHANGED <<change, op, active>> /\ worker[w].step = "merge"
      /\ \/ UpdateRef(c) /\ Goto(w, "record")
         \/ UNCHANGED branch /\ Goto(w, "conflict")
  BY DEF GitMerge
<1>2. c \in Changes /\ Past(c) /\ branch \in Seq(Changes)
  BY <1>1, BusyHolds DEF RowsSound, RowsTyped
<1>3. CASE UNCHANGED branch /\ Goto(w, "conflict")
  BY <1>1, <1>3, RowsKept DEF Landed
<1>4. CASE UNCHANGED branch /\ Tip = c /\ Goto(w, "record")
  <2>1. c \in Landed
    <3>1. branch # <<>>
      BY <1>2, <1>4, NamesAssumption DEF Tip
    <3>2. Len(branch) \in DOMAIN branch
      BY <1>2, <3>1
    <3> QED
      BY <1>4, <3>1, <3>2 DEF Tip, Landed
  <2> QED
    BY <1>1, <1>4, <2>1, RowsKept DEF Landed
<1>5. CASE /\ branch' = Append(branch, c) /\ Tip = change[c].base
           /\ Goto(w, "record")
  <2>1. /\ branch' \in Seq(Changes) /\ Len(branch') = Len(branch) + 1
        /\ \A i \in 1 .. Len(branch) : branch'[i] = branch[i]
        /\ branch'[Len(branch) + 1] = c
        /\ DOMAIN branch = 1 .. Len(branch) /\ Len(branch) \in Nat
        /\ DOMAIN branch' = 1 .. Len(branch) + 1
    BY <1>2, <1>5
  <2>2. Landed' = Landed \cup {c}
    BY <2>1 DEF Landed
  <2>3. RowsTyped' /\ RevisionLeft' /\ RecordedByOwn' /\ OneLiveMerge'
    BY <1>1, <2>1
    DEF RowsSound, RowsTyped, RevisionLeft, RecordedByOwn, OneLiveMerge, Live
  <2>4. OnlyProposed'
    BY <1>1, <1>2, <2>2 DEF RowsSound, OnlyProposed, Past
  <2>5. ActiveIsReviewed'
    BY <1>1, <2>2 DEF RowsSound, ActiveIsReviewed
  <2>6. MergedIsOnBranch'
    <3>1. \A d \in Changes : change'[d].status = "merged" => d \in Landed'
      BY <1>1, <2>2 DEF RowsSound, MergedIsOnBranch
    <3>2. ASSUME NEW i \in DOMAIN branch'
          PROVE  change'[branch'[i]].base =
                   IF i = 1 THEN Root ELSE branch'[i - 1]
      <4>1. CASE i \in 1 .. Len(branch)
        <5>1. change[branch[i]].base = IF i = 1 THEN Root ELSE branch[i - 1]
          BY <2>1, <4>1 DEF RowsSound, MergedIsOnBranch
        <5>2. i # 1 => i - 1 \in 1 .. Len(branch)
          BY <2>1, <4>1
        <5> QED
          BY <1>1, <2>1, <4>1, <5>1, <5>2
      <4>2. CASE i = Len(branch) + 1
        <5>1. change'[branch'[i]].base = Tip
          BY <1>1, <1>5, <2>1, <4>2
        <5>2. CASE branch = <<>>
          BY <5>1, <5>2, <4>2, <2>1 DEF Tip
        <5>3. CASE branch # <<>>
          <6>1. Len(branch) > 0 /\ i # 1 /\ i - 1 = Len(branch)
            BY <1>2, <2>1, <4>2, <5>3
          <6> QED
            BY <2>1, <5>1, <5>3, <6>1 DEF Tip
        <5> QED
          BY <5>2, <5>3
      <4> QED
        BY <2>1, <4>1, <4>2
    <3> QED
      BY <3>1, <3>2 DEF MergedIsOnBranch
  <2> QED
    BY <1>5, <2>2, <2>3, <2>4, <2>5, <2>6 DEF RowsSound
<1> QED
  BY <1>1, <1>3, <1>4, <1>5 DEF UpdateRef

LEMMA RecordMergeSound ==
  ASSUME RowsSound, WorkersBusy, NEW w \in Workers, RecordMerge(w)
  PROVE  RowsSound' /\ OpsGoOn
<1> DEFINE o == worker[w].op
           c == worker[w].op[1]
<1>1. /\ worker[w].step = "record" /\ UNCHANGED <<branch, active>>
      /\ op' = [op EXCEPT ![o].merged = TRUE]
  BY DEF RecordMerge
<1>2. /\ o \in Ops /\ c \in Changes /\ Past(c) /\ c \in Landed
      /\ change[c] \in ChangeRows /\ change \in [Changes -> ChangeRows]
      /\ op \in [Ops -> OpRows] /\ o[2] \in Revisions
      /\ branch \in Seq(Changes)
  BY <1>1, BusyHolds DEF RowsSound, RowsTyped, WorkersBusy, Ops
<1>3. /\ op' \in [Ops -> OpRows] /\ op'[o].merged
      /\ \A p \in Ops : /\ op'[p].status = op[p].status
                        /\ op'[p].attempt = op[p].attempt
                        /\ op'[p].live = op[p].live
                        /\ p # o => op'[p] = op[p]
  BY <1>1, <1>2 DEF OpRows
<1>4. Landed' = Landed
  BY <1>1 DEF Landed
<1>5. OneLiveMerge' /\ OpsGoOn
  BY <1>3 DEF RowsSound, OneLiveMerge, Live, OpsGoOn
<1>6. CASE Replayed(o) /\ UNCHANGED change
  <2>1. RowsTyped' /\ RevisionLeft' /\ OnlyProposed' /\ MergedIsOnBranch'
    BY <1>1, <1>3, <1>4, <1>6
    DEF RowsSound, RowsTyped, RevisionLeft, OnlyProposed, Past, MergedIsOnBranch
  <2>2. RecordedByOwn'
    BY <1>3, <1>6 DEF RowsSound, RecordedByOwn, Replayed
  <2>3. ActiveIsReviewed'
    BY <1>1, <1>3, <1>6, StillReviewed
  <2> QED
    BY <1>3, <1>5, <2>1, <2>2, <2>3 DEF RowsSound
<1>7. CASE /\ Approved(o)
           /\ change' = [change EXCEPT ![c].status = "merged",
                                       ![c].revision = @ + 1]
  <2>1. /\ change[c].status = "approved" /\ change[c].revision = o[2]
        /\ change[c].revision > 0 /\ change[c].revision < MaxRevision
        /\ change[c].revision \in Nat
    BY <1>2, <1>7 DEF Approved, RowsSound, RevisionLeft, ChangeRows
  <2>2. change[c].revision + 1 \in 0 .. MaxRevision
    BY <2>1, RevisionAssumption
  <2>3. /\ change' \in [Changes -> ChangeRows]
        /\ change'[c].status = "merged" /\ change'[c].base = change[c].base
        /\ change'[c].revision = change[c].revision + 1
        /\ \A d \in Changes : d # c => change'[d] = change[d]
    BY <1>2, <1>7, <2>2 DEF ChangeRows, ChangeStatuses
  <2>4. RowsTyped' /\ RevisionLeft'
    BY <1>1, <1>3, <2>1, <2>3 DEF RowsSound, RowsTyped, RevisionLeft
  <2>5. OnlyProposed'
    <3>1. \A d \in Changes : Past(d) => Past(d)'
      BY <2>3 DEF Past
    <3>2. \A p \in Ops : p[1] \in Changes
      BY DEF Ops
    <3>3. Landed \subseteq Changes
      BY <1>2 DEF Landed
    <3> QED
      BY <1>3, <1>4, <3>1, <3>2, <3>3 DEF RowsSound, OnlyProposed
  <2>6. RecordedByOwn'
    <3> SUFFICES ASSUME NEW p \in Ops, op'[p].merged
                 PROVE  /\ change'[p[1]].status = "merged"
                        /\ change'[p[1]].revision = p[2] + 1
      BY DEF RecordedByOwn
    <3>1. CASE p = o
      BY <2>1, <2>3, <3>1
    <3>2. CASE p # o
      <4>1. /\ change[p[1]].status = "merged" /\ p[1] \in Changes
            /\ change[p[1]].revision = p[2] + 1
        BY <1>3, <3>2 DEF RowsSound, RecordedByOwn, Ops
      <4> QED
        BY <2>1, <2>3, <4>1
    <3> QED
      BY <3>1, <3>2
  <2>7. MergedIsOnBranch'
    <3>1. \A d \in Changes : change'[d].status = "merged" => d \in Landed
      BY <1>2, <2>3 DEF RowsSound, MergedIsOnBranch
    <3>2. \A i \in DOMAIN branch : change'[branch[i]].base = change[branch[i]].base
      BY <1>2, <2>3
    <3> QED
      BY <1>1, <1>4, <3>1, <3>2 DEF RowsSound, MergedIsOnBranch
  <2>8. ActiveIsReviewed'
    BY <1>1, <1>3, <2>1, <2>3, StillReviewed
  <2> QED
    BY <1>3, <1>5, <2>4, <2>5, <2>6, <2>7, <2>8 DEF RowsSound
<1> QED
  BY <1>6, <1>7 DEF RecordMerge

LEMMA PublishSound ==
  ASSUME RowsSound, WorkersBusy, NEW w \in Workers, Publish(w)
  PROVE  RowsSound' /\ OpsGoOn
<1> DEFINE o == worker[w].op
           c == worker[w].op[1]
<1>1. /\ worker[w].step = "publish" /\ UNCHANGED <<change, branch>>
      /\ Live(o) /\ change[c].status = "merged" /\ op[o].merged
      /\ active' = c
      /\ op' = [op EXCEPT ![o] = [op[o] EXCEPT !.status = "succeeded",
                                               !.live = FALSE]]
  BY DEF Publish, Fenced, Publishable
<1>2. /\ o \in Ops /\ c \in Changes /\ Past(c) /\ op \in [Ops -> OpRows]
      /\ o = <<c, o[2]>> /\ o[2] \in Nat
  BY <1>1, BusyHolds DEF RowsSound, RowsTyped, Ops, Revisions
<1>3. /\ op' \in [Ops -> OpRows] /\ op'[o].status = "succeeded"
      /\ op'[o].merged = op[o].merged /\ op'[o].attempt = op[o].attempt
      /\ \A p \in Ops : p # o => op'[p] = op[p]
  BY <1>1, <1>2 DEF OpRows, OpStatuses
<1>4. RowsTyped' /\ RevisionLeft' /\ OnlyProposed' /\ MergedIsOnBranch'
  BY <1>1, <1>2, <1>3
  DEF RowsSound, RowsTyped, RevisionLeft, OnlyProposed, Past, MergedIsOnBranch,
      Landed
<1>5. RecordedByOwn'
  BY <1>1, <1>3 DEF RowsSound, RecordedByOwn
<1>6. ActiveIsReviewed'
  <2>1. c \in Landed /\ change[c].revision = o[2] + 1
    BY <1>1, <1>2 DEF RowsSound, MergedIsOnBranch, RecordedByOwn
  <2>2. change[c].revision - 1 = o[2]
    BY <1>2, <2>1
  <2>3. <<c, change[c].revision - 1>> = o
    BY <1>2, <2>2
  <2>4. Landed' = Landed
    BY <1>1 DEF Landed
  <2> QED
    BY <1>1, <1>3, <2>1, <2>3, <2>4 DEF ActiveIsReviewed
<1>7. OneLiveMerge' /\ OpsGoOn
  BY <1>3 DEF RowsSound, OneLiveMerge, Live, OpsGoOn
<1> QED
  BY <1>4, <1>5, <1>6, <1>7 DEF RowsSound

LEMMA RecordConflictSound ==
  ASSUME RowsSound, WorkersBusy, NEW w \in Workers, RecordConflict(w)
  PROVE  RowsSound' /\ OpsGoOn
<1> DEFINE o == worker[w].op
           c == worker[w].op[1]
<1>1. /\ worker[w].step = "conflict" /\ UNCHANGED <<branch, active>> /\ Live(o)
      /\ op' = [op EXCEPT ![o] = [op[o] EXCEPT !.status = "conflicted",
                                               !.live = FALSE]]
      /\ change' = IF Approved(o)
                     THEN [change EXCEPT ![c].status = "conflicted",
                                         ![c].revision = @ + 1]
                     ELSE change
  BY DEF RecordConflict, Fenced
<1>2. /\ o \in Ops /\ c \in Changes /\ Past(c) /\ op \in [Ops -> OpRows]
      /\ change[c] \in ChangeRows /\ change \in [Changes -> ChangeRows]
  BY <1>1, BusyHolds DEF RowsSound, RowsTyped
<1>3. /\ op' \in [Ops -> OpRows] /\ op'[o].status = "conflicted"
      /\ op'[o].merged = op[o].merged /\ op[o].status = "running"
      /\ op'[o].attempt = op[o].attempt
      /\ \A p \in Ops : p # o => op'[p] = op[p]
  BY <1>1, <1>2 DEF OpRows, OpStatuses, Live
<1>4. OpsGoOn
  BY <1>3 DEF OpsGoOn
<1>5. CASE ~Approved(o)
  BY <1>1, <1>2, <1>3, <1>4, <1>5, OpMovesSound DEF OpMoves, Live
<1>6. CASE Approved(o)
  <2>1. /\ change[c].status = "approved" /\ change[c].revision \in Nat
        /\ change[c].revision + 1 \in 0 .. MaxRevision
    BY <1>2, <1>6, RevisionAssumption
    DEF Approved, RowsSound, RevisionLeft, ChangeRows
  <2>2. /\ change' \in [Changes -> ChangeRows]
        /\ change'[c].status = "conflicted" /\ change'[c].base = change[c].base
        /\ \A d \in Changes : d # c => change'[d] = change[d]
    BY <1>1, <1>2, <1>6, <2>1 DEF ChangeRows, ChangeStatuses
  <2>3. \A p \in Ops : /\ op'[p].merged = op[p].merged
                       /\ op'[p].status # "none" => op[p].status # "none"
                       /\ op[p].status = "succeeded" =>
                            op'[p].status = "succeeded"
                       /\ Live(p)' => Live(p)
    BY <1>3 DEF Live
  <2> QED
    BY <1>1, <1>2, <1>3, <1>4, <2>1, <2>2, <2>3, ChangeMovesSound DEF Past
<1> QED
  BY <1>5, <1>6

LEMMA RecordFailureSound ==
  ASSUME RowsSound, WorkersBusy, NEW w \in Workers, RecordFailure(w)
  PROVE  RowsSound' /\ OpsGoOn
<1> DEFINE o == worker[w].op
<1>1. /\ worker[w].step = "fail" /\ UNCHANGED <<change, branch, active>>
      /\ Live(o)
      /\ op' = [op EXCEPT ![o] = [op[o] EXCEPT !.status = "failed",
                                               !.live = FALSE]]
  BY DEF RecordFailure, Fenced
<1>2. o \in Ops /\ Past(o[1]) /\ op \in [Ops -> OpRows]
  BY <1>1, BusyHolds DEF RowsSound, RowsTyped
<1>3. /\ OpMoves(o) /\ op'[o].status = "failed"
      /\ op'[o].attempt = op[o].attempt
  BY <1>1, <1>2 DEF OpMoves, OpRows, OpStatuses, Live
<1>4. OpsGoOn
  BY <1>3 DEF OpsGoOn, OpMoves
<1> QED
  BY <1>1, <1>2, <1>3, <1>4, OpMovesSound DEF Live

-----------------------------------------------------------------------------
(* The whole invariant                                                     *)

WorkersSound == WorkersTyped /\ WorkersBusy /\ AttemptsCounted

(* A worker goes on with the operation it has, to record a merge only of a *)
(* commit that is on the branch.                                           *)
SentOn(w) ==
  /\ worker[w].step # "idle"
  /\ worker'[w].list = worker[w].list
  /\ worker'[w].op = worker[w].op
  /\ (worker'[w].step = "record" => worker[w].op[1] \in Landed')
  /\ \A v \in Workers : v # w => worker'[v] = worker[v]

(* A step that keeps attempts, forgets no operation and lets every worker  *)
(* but w be, which goes on or is done.                                     *)
LEMMA WorkersKept ==
  ASSUME WorkersSound, op \in [Ops -> OpRows], NEW w,
         WorkersTyped', Landed \subseteq Landed', OpsGoOn,
         \/ UNCHANGED worker
         \/ Freed(w)
         \/ SentOn(w)
  PROVE  WorkersSound'
<1>1. \A v \in Workers : worker'[v].list \subseteq worker[v].list
  BY DEF Freed, SentOn
<1>2. AttemptsCounted'
  BY <1>1, ListsShrink DEF WorkersSound
<1>3. \A v \in Workers :
        \/ worker'[v].step = "idle"
        \/ worker'[v] = worker[v]
        \/ /\ worker'[v].op = worker[v].op /\ worker[v].step # "idle"
           /\ worker'[v].step = "record" => worker[v].op[1] \in Landed'
  BY DEF Freed, SentOn
<1>4. WorkersBusy'
  BY <1>3, StillBusy DEF WorkersSound, OpsGoOn
<1> QED
  BY <1>2, <1>4 DEF WorkersSound

LEMMA ListSound ==
  ASSUME RowsTyped, WorkersSound, NEW w \in Workers, List(w)
  PROVE  WorkersSound'
<1>1. /\ worker[w].list = {} /\ worker[w].step = "idle" /\ UNCHANGED <<op, branch>>
      /\ worker' = [worker EXCEPT ![w].list = {o \in Ops : Listed(o)}]
      /\ op \in [Ops -> OpRows]
  BY DEF List, RowsTyped
<1>2. /\ WorkersTyped' /\ worker'[w].list = {o \in Ops : Listed(o)}
      /\ worker'[w].step = "idle"
      /\ \A v \in Workers : v # w => worker'[v] = worker[v]
  <2> DEFINE L == {o \in Ops : Listed(o)}
  <2>1. L \in SUBSET Ops
    OBVIOUS
  <2> HIDE DEF L
  <2>2. worker' = [worker EXCEPT ![w].list = L]
    BY <1>1 DEF L
  <2>3. /\ WorkersTyped' /\ worker'[w].list = L /\ worker'[w].step = "idle"
        /\ \A v \in Workers : v # w => worker'[v] = worker[v]
    BY <1>1, <2>1, <2>2 DEF WorkersSound, WorkersTyped, WorkerStates
  <2> QED
    BY <2>3 DEF L
<1>3. WorkersBusy'
  BY <1>1, <1>2 DEF WorkersSound, WorkersBusy, Landed
<1>4. AttemptsCounted'
  <2> SUFFICES ASSUME NEW o \in Ops
               PROVE  op[o].attempt + Cardinality(ListedBy(o)') <
                        MaxAttempts + Cardinality(Workers)
    BY <1>1 DEF WorkersSound, AttemptsCounted
  <2>1. ListedBy(o) \subseteq Workers /\ ListedBy(o)' \subseteq Workers
    BY DEF ListedBy
  <2>2. /\ Cardinality(ListedBy(o)') <= Cardinality(Workers)
        /\ Cardinality(ListedBy(o)') \in Nat /\ Cardinality(Workers) \in Nat
    BY <2>1, WorkersAssumption, FS_Subset, FS_CardinalityType
  <2>3. op[o].attempt \in Nat
    BY <1>1, WorkersAssumption, AttemptsAssumption, FS_CardinalityType
    DEF OpRows, Attempts
  <2>4. CASE Listed(o)
    <3>1. op[o].attempt < MaxAttempts
      BY <2>4, AttemptsAssumption DEF Listed, WorkersSound, AttemptsCounted
    <3> QED
      BY <2>2, <2>3, <3>1, AttemptsAssumption
  <2>5. CASE ~Listed(o)
    <3>1. ListedBy(o)' = ListedBy(o)
      BY <1>1, <1>2, <2>5 DEF ListedBy
    <3> QED
      BY <3>1 DEF WorkersSound, AttemptsCounted
  <2> QED
    BY <2>4, <2>5
<1> QED
  BY <1>2, <1>3, <1>4 DEF WorkersSound

(* The attempt that a list allows is used up by its claim.                 *)
LEMMA ClaimCounts ==
  ASSUME RowsTyped, WorkersSound, NEW w \in Workers, NEW o \in Ops, Claim(w, o)
  PROVE  WorkersSound' /\ op[o].attempt + 1 \in Attempts
<1>1. /\ worker[w].step = "idle" /\ o \in worker[w].list
      /\ UNCHANGED <<change, branch>>
      /\ op' = [op EXCEPT ![o] = [op[o] EXCEPT !.status = "running",
                    !.attempt = op[o].attempt + 1, !.live = TRUE]]
      /\ worker' = [worker EXCEPT ![w] =
                      [list |-> worker[w].list \ {o}, op |-> o,
                       attempt |-> op[o].attempt + 1, step |-> FirstStep(o)]]
      /\ op \in [Ops -> OpRows]
  BY DEF Claim, RowsTyped
<1>2. \A p \in Ops : /\ ListedBy(p) \subseteq Workers /\ IsFiniteSet(ListedBy(p))
                     /\ Cardinality(ListedBy(p)) \in Nat
                     /\ op[p].attempt \in Nat /\ Cardinality(Workers) \in Nat
                     /\ op[p].attempt + Cardinality(ListedBy(p)) <
                          MaxAttempts + Cardinality(Workers)
  <2> SUFFICES ASSUME NEW p \in Ops
               PROVE  /\ ListedBy(p) \subseteq Workers /\ IsFiniteSet(ListedBy(p))
                      /\ Cardinality(ListedBy(p)) \in Nat
                      /\ op[p].attempt \in Nat /\ Cardinality(Workers) \in Nat
                      /\ op[p].attempt + Cardinality(ListedBy(p)) <
                           MaxAttempts + Cardinality(Workers)
    OBVIOUS
  <2>1. ListedBy(p) \subseteq Workers
    BY DEF ListedBy
  <2>2. IsFiniteSet(ListedBy(p))
    BY <2>1, WorkersAssumption, FS_Subset
  <2>3. Cardinality(ListedBy(p)) \in Nat /\ Cardinality(Workers) \in Nat
    BY <2>2, WorkersAssumption, FS_CardinalityType
  <2>4. op[p].attempt \in Nat
    BY <1>1, <2>3, AttemptsAssumption DEF OpRows, Attempts
  <2> QED
    BY <2>1, <2>2, <2>3, <2>4 DEF WorkersSound, AttemptsCounted
<1>3. op[o].attempt + 1 \in Attempts
  BY <1>2, AttemptsAssumption DEF Attempts
<1>4. FirstStep(o) \in Steps \ {"idle", "record"}
  BY DEF FirstStep, Steps
<1>5. /\ WorkersTyped' /\ worker'[w].list = worker[w].list \ {o}
      /\ worker'[w].op = o /\ worker'[w].step = FirstStep(o)
      /\ \A v \in Workers : v # w => worker'[v] = worker[v]
  BY <1>1, <1>3, <1>4 DEF WorkersSound, WorkersTyped, WorkerStates
<1>6. /\ op'[o].status = "running" /\ op'[o].attempt = op[o].attempt + 1
      /\ \A p \in Ops : p # o => op'[p] = op[p]
  BY <1>1 DEF OpRows
<1>7. WorkersBusy'
  <2> SUFFICES ASSUME NEW v \in Workers
               PROVE  /\ worker'[v].step # "idle" =>
                           /\ worker'[v].op \in Ops
                           /\ op'[worker'[v].op].status # "none"
                      /\ worker'[v].step = "record" =>
                           worker'[v].op[1] \in Landed
    BY <1>1 DEF WorkersBusy, Landed
  <2>1. CASE v = w
    BY <1>4, <1>5, <1>6, <2>1
  <2>2. CASE v # w
    BY <1>5, <1>6, <2>2 DEF WorkersSound, WorkersBusy
  <2> QED
    BY <2>1, <2>2
<1>8. AttemptsCounted'
  <2> SUFFICES ASSUME NEW p \in Ops
               PROVE  /\ op'[p].status \in {"none", "queued"} => op'[p].attempt = 0
                      /\ op'[p].attempt + Cardinality(ListedBy(p)') <
                           MaxAttempts + Cardinality(Workers)
    BY DEF AttemptsCounted
  <2>1. CASE p # o
    <3>1. ListedBy(p)' = ListedBy(p)
      BY <1>5, <2>1 DEF ListedBy
    <3> QED
      BY <1>6, <2>1, <3>1 DEF WorkersSound, AttemptsCounted
  <2>2. CASE p = o
    <3>1. ListedBy(o)' = ListedBy(o) \ {w} /\ w \in ListedBy(o)
      BY <1>1, <1>5 DEF ListedBy
    <3>2. Cardinality(ListedBy(o)') = Cardinality(ListedBy(o)) - 1
      BY <1>2, <3>1, FS_RemoveElement
    <3> QED
      BY <1>2, <1>6, <2>2, <3>2, AttemptsAssumption
  <2> QED
    BY <2>1, <2>2
<1> QED
  BY <1>3, <1>5, <1>7, <1>8 DEF WorkersSound

MergeInv == RowsSound /\ WorkersSound

(* The steps of a worker that goes on with its operation or leaves it.     *)
LEMMA ServeSound ==
  ASSUME MergeInv, NEW w \in Workers, Serve(w) \/ Stumble(w) \/ Crash(w)
  PROVE  MergeInv'
<1>0. /\ RowsSound /\ WorkersSound /\ WorkersBusy /\ WorkersTyped
      /\ op \in [Ops -> OpRows] /\ Landed \subseteq Landed
  BY DEF MergeInv, WorkersSound, RowsSound, RowsTyped
<1> SUFFICES RowsSound' /\ WorkersSound'
  BY DEF MergeInv
<1>1. "record" \in Steps /\ "conflict" \in Steps /\ "fail" \in Steps
      /\ "build" \in Steps /\ "publish" \in Steps
  BY DEF Steps
<1>2. CASE GitMerge(w)
  <2>1. /\ RowsSound' /\ Landed \subseteq Landed' /\ worker[w].step # "idle"
        /\ UNCHANGED op
        /\ \/ Goto(w, "record") /\ worker[w].op[1] \in Landed'
           \/ Goto(w, "conflict")
    BY <1>0, <1>2, GitMergeSound DEF GitMerge
  <2>2. OpsGoOn
    BY <2>1 DEF OpsGoOn
  <2>3. CASE Goto(w, "conflict")
    <3>1. WorkersTyped' /\ Moved(w, "conflict")
      BY <1>0, <1>1, <2>3, GotoMoves
    <3> QED
      BY <1>0, <1>1, <2>1, <2>2, <3>1, WorkersKept DEF SentOn, Moved
  <2>4. CASE Goto(w, "record") /\ worker[w].op[1] \in Landed'
    <3>1. WorkersTyped' /\ Moved(w, "record")
      BY <1>0, <1>1, <2>4, GotoMoves
    <3>2. SentOn(w)
      BY <2>1, <2>4, <3>1 DEF SentOn, Moved
    <3> QED
      BY <1>0, <2>1, <2>2, <3>1, <3>2, WorkersKept
  <2> QED
    BY <2>1, <2>3, <2>4
<1>3. CASE RecordMerge(w)
  <2>1. /\ RowsSound' /\ OpsGoOn /\ Goto(w, "build") /\ Landed' = Landed
        /\ worker[w].step # "idle"
    BY <1>0, <1>3, RecordMergeSound DEF RecordMerge, Landed
  <2>2. WorkersTyped' /\ Moved(w, "build")
    BY <1>0, <1>1, <2>1, GotoMoves
  <2> QED
    BY <1>0, <1>1, <2>1, <2>2, WorkersKept DEF SentOn, Moved
<1>4. CASE BuildIndex(w) \/ Stumble(w)
  <2>1. /\ UNCHANGED <<change, op, branch, active>> /\ worker[w].step # "idle"
        /\ Goto(w, "publish") \/ Goto(w, "fail")
    BY <1>4 DEF BuildIndex, Stumble
  <2>2. PICK step \in {"publish", "fail"} : Goto(w, step)
    BY <2>1
  <2>3. step \in Steps /\ step # "record"
    BY <1>1
  <2>5. WorkersTyped' /\ Moved(w, step)
    BY <1>0, <2>2, <2>3, GotoMoves
  <2>4. RowsSound' /\ OpsGoOn /\ Landed' = Landed
    BY <1>0, <2>1, RowsKept DEF OpsGoOn, Landed
  <2> QED
    BY <1>0, <2>1, <2>3, <2>5, <2>4, WorkersKept DEF SentOn, Moved
<1>5. CASE Publish(w) \/ RecordConflict(w) \/ RecordFailure(w)
  <2>1. RowsSound' /\ OpsGoOn
    BY <1>0, <1>5, PublishSound, RecordConflictSound, RecordFailureSound
  <2>2. Leave(w) /\ Landed' = Landed
    BY <1>5 DEF Publish, RecordConflict, RecordFailure, Landed
  <2>3. WorkersTyped' /\ Freed(w)
    BY <1>0, <2>2, LeaveFrees
  <2> QED
    BY <1>0, <2>1, <2>2, <2>3, WorkersKept
<1>6. CASE LoseLease(w) \/ Crash(w)
  <2>1. UNCHANGED <<change, op, branch, active>> /\ (Leave(w) \/ Crash(w))
    BY <1>6 DEF LoseLease, Crash
  <2>2. WorkersTyped' /\ Freed(w)
    BY <1>0, <2>1, LeaveFrees, CrashFrees
  <2>3. RowsSound' /\ OpsGoOn /\ Landed' = Landed
    BY <1>0, <2>1, RowsKept DEF OpsGoOn, Landed
  <2> QED
    BY <1>0, <2>2, <2>3, WorkersKept
<1> QED
  BY <1>2, <1>3, <1>4, <1>5, <1>6 DEF Serve

LEMMA TakeUpSound ==
  ASSUME MergeInv, NEW w \in Workers, List(w) \/ TakeUp(w)
  PROVE  MergeInv'
<1>0. /\ RowsSound /\ RowsTyped /\ WorkersSound /\ WorkersTyped
      /\ op \in [Ops -> OpRows]
  BY DEF MergeInv, WorkersSound, RowsSound, RowsTyped
<1>1. CASE List(w)
  <2>1. RowsSound'
    BY <1>0, <1>1, RowsKept DEF List
  <2> QED
    BY <1>0, <1>1, <2>1, ListSound DEF MergeInv
<1>2. ASSUME NEW o \in Ops, Claim(w, o)
      PROVE  MergeInv'
  BY <1>0, <1>2, ClaimCounts, ClaimSound DEF MergeInv
<1>3. ASSUME NEW o \in Ops, SkipListed(w, o)
      PROVE  MergeInv'
  <2>1. /\ UNCHANGED <<change, op, branch, active>> /\ worker[w].step = "idle"
        /\ worker' = [worker EXCEPT ![w].list = @ \ {o}]
    BY <1>3 DEF SkipListed
  <2>2. WorkersTyped' /\ Freed(w)
    BY <1>0, <2>1 DEF WorkersTyped, WorkerStates, Freed
  <2>3. RowsSound' /\ OpsGoOn /\ Landed' = Landed
    BY <1>0, <2>1, RowsKept DEF OpsGoOn, Landed
  <2>4. WorkersSound'
    BY <1>0, <2>2, <2>3, WorkersKept
  <2> QED
    BY <2>3, <2>4 DEF MergeInv
<1> QED
  BY <1>1, <1>2, <1>3 DEF TakeUp

LEMMA PeopleSound ==
  ASSUME MergeInv, \/ \E c \in Changes : Reviews(c)
                   \/ \E o \in Ops : Expire(o)
  PROVE  MergeInv'
<1>0. /\ RowsSound /\ WorkersSound /\ WorkersTyped /\ op \in [Ops -> OpRows]
  BY DEF MergeInv, WorkersSound, RowsSound, RowsTyped
<1>1. RowsSound' /\ OpsGoOn /\ UNCHANGED <<branch, worker>>
  BY <1>0, ReviewsSound, ExpireSound DEF Expire
<1>2. WorkersTyped' /\ Landed' = Landed
  BY <1>0, <1>1 DEF WorkersTyped, Landed
<1>3. WorkersSound'
  BY <1>0, <1>1, <1>2, WorkersKept
<1> QED
  BY <1>1, <1>3 DEF MergeInv

LEMMA MergeInvInit == Init => MergeInv
<1> SUFFICES ASSUME Init PROVE RowsSound /\ WorkersSound
  BY DEF MergeInv
<1>1. /\ Cardinality(Workers) \in Nat /\ 0 \in Attempts /\ 0 \in 0 .. MaxRevision
  BY WorkersAssumption, AttemptsAssumption, RevisionAssumption,
     FS_CardinalityType DEF Attempts
<1>2. RowsTyped
  BY <1>1 DEF Init, RowsTyped, ChangeRows, ChangeStatuses, OpRows, OpStatuses
<1>3. /\ \A c \in Changes : change[c].status = "none"
      /\ \A o \in Ops : op[o] = [status |-> "none", attempt |-> 0,
                                live |-> FALSE, merged |-> FALSE]
      /\ branch = <<>> /\ active = Root
      /\ \A w \in Workers : worker[w] = Idle
  BY DEF Init
<1>4. /\ RevisionLeft /\ OnlyProposed /\ RecordedByOwn /\ MergedIsOnBranch
      /\ ActiveIsReviewed /\ OneLiveMerge
  BY <1>3 DEF RevisionLeft, OnlyProposed, Landed, RecordedByOwn,
              MergedIsOnBranch, ActiveIsReviewed, OneLiveMerge, Live
<1>5. WorkersTyped
  <2>1. Idle \in WorkerStates
    BY <1>1 DEF Idle, WorkerStates, Steps
  <2> QED
    BY <2>1 DEF Init, WorkersTyped
<1>6. WorkersBusy
  BY <1>3 DEF WorkersBusy, Idle
<1>7. AttemptsCounted
  <2>1. \A o \in Ops : Cardinality(ListedBy(o)) = 0
    <3> TAKE o \in Ops
    <3>1. ListedBy(o) = {}
      BY <1>3 DEF ListedBy, Idle
    <3> QED
      BY <3>1, FS_EmptySet
  <2>2. \A o \in Ops : op[o].status = "none" /\ op[o].attempt = 0
    BY <1>3
  <2>3. 0 + 0 < MaxAttempts + Cardinality(Workers)
    BY <1>1, AttemptsAssumption
  <2> QED
    BY <2>1, <2>2, <2>3 DEF AttemptsCounted
<1> QED
  BY <1>2, <1>4, <1>5, <1>6, <1>7 DEF RowsSound, WorkersSound

LEMMA MergeInvStep == MergeInv /\ [Next]_vars => MergeInv'
<1> SUFFICES ASSUME MergeInv, [Next]_vars PROVE MergeInv'
  OBVIOUS
<1>1. CASE Next
  BY <1>1, ServeSound, TakeUpSound, PeopleSound DEF Next
<1>2. CASE UNCHANGED vars
  <2>1. /\ RowsSound /\ WorkersSound /\ WorkersTyped /\ op \in [Ops -> OpRows]
    BY DEF MergeInv, WorkersSound, RowsSound, RowsTyped
  <2>2. RowsSound' /\ OpsGoOn /\ UNCHANGED worker /\ Landed' = Landed
    BY <1>2, <2>1, RowsKept DEF vars, OpsGoOn, Landed
  <2>3. WorkersTyped'
    BY <2>1, <2>2 DEF WorkersTyped
  <2> QED
    BY <2>1, <2>2, <2>3, WorkersKept DEF MergeInv
<1> QED
  BY <1>1, <1>2

LEMMA MergeInvSound == MergeInv => MergeSound
<1> SUFFICES ASSUME MergeInv PROVE MergeSound
  OBVIOUS
<1>1. TypeOK
  BY DEF MergeInv, RowsSound, RowsTyped, WorkersSound, WorkersTyped, TypeOK
<1>2. AttemptsBounded
  <2> SUFFICES ASSUME NEW o \in Ops
               PROVE  op[o].attempt < MaxAttempts + Cardinality(Workers)
    BY DEF AttemptsBounded
  <2>1. ListedBy(o) \subseteq Workers
    BY DEF ListedBy
  <2>2. Cardinality(ListedBy(o)) \in Nat /\ Cardinality(Workers) \in Nat
    BY <2>1, WorkersAssumption, FS_Subset, FS_CardinalityType
  <2>3. op[o].attempt \in Nat
    BY <1>1, <2>2, AttemptsAssumption DEF TypeOK, OpRows, Attempts
  <2>4. op[o].attempt + Cardinality(ListedBy(o)) <
          MaxAttempts + Cardinality(Workers)
    BY DEF MergeInv, WorkersSound, AttemptsCounted
  <2> QED
    BY <2>2, <2>3, <2>4, AttemptsAssumption
<1> QED
  BY <1>1, <1>2 DEF MergeSound, MergeInv, RowsSound

LEMMA Invariance == Spec => []MergeInv
  BY MergeInvInit, MergeInvStep, PTL DEF Spec

(* The rows, the branch, the snapshot and the leases of a space agree, and *)
(* no operation is tried more often than the stale lists of its workers    *)
(* allow, for any number of changes, workers, attempts and revisions.      *)
THEOREM Publication == Spec => []MergeSound
  BY Invariance, MergeInvSound, PTL

-----------------------------------------------------------------------------
(* Who decides a change, and what ended operations stay                    *)

(* An operation that ended is none a step writes.                          *)
LEMMA EndedStays ==
  ASSUME MergeInv, [Next]_vars, NEW o \in Ops,
         op[o].status \in {"succeeded", "conflicted"}
  PROVE  op'[o] = op[o]
<1>0. op \in [Ops -> OpRows]
  BY DEF MergeInv, RowsSound, RowsTyped
<1>1. ASSUME NEW c \in Changes, Reviews(c)
      PROVE  op'[o] = op[o]
  BY <1>0, <1>1 DEF Reviews, Admit, Propose, Review, Queue
<1>2. ASSUME NEW other \in Ops, Expire(other)
      PROVE  op'[o] = op[o]
  BY <1>0, <1>2 DEF Expire, Live
<1>3. ASSUME NEW w \in Workers, TakeUp(w)
      PROVE  op'[o] = op[o]
  BY <1>0, <1>3 DEF TakeUp, Claim, SkipListed, Claimable, Expired
<1>4. ASSUME NEW w \in Workers, Serve(w)
      PROVE  op'[o] = op[o]
  <2>1. \/ UNCHANGED op
        \/ Fenced(w) /\ \A p \in Ops \ {worker[w].op} : op'[p] = op[p]
    BY <1>0, <1>4 DEF Serve, GitMerge, RecordMerge, BuildIndex, Publish,
                      RecordConflict, RecordFailure, LoseLease
  <2>2. Fenced(w) => worker[w].op # o
    BY DEF Fenced, Live
  <2> QED
    BY <2>1, <2>2
<1>5. ASSUME NEW w \in Workers, List(w) \/ Stumble(w) \/ Crash(w)
      PROVE  op'[o] = op[o]
  BY <1>5 DEF List, Stumble, Crash
<1> QED
  BY <1>1, <1>2, <1>3, <1>4, <1>5 DEF Next, vars

(* A review waits for the merge of its change, and a worker writes of the  *)
(* change only the revision its lease is of.                               *)
LEMMA HolderDecides ==
  ASSUME MergeInv, [Next]_vars, NEW c \in Changes, Queued(c),
         change'[c] # change[c]
  PROVE  /\ change'[c].status \in {"merged", "conflicted"}
         /\ Live(<<c, change[c].revision>>)
<1>0. /\ change \in [Changes -> ChangeRows] /\ op \in [Ops -> OpRows]
      /\ worker \in [Workers -> WorkerStates] /\ OnlyProposed
  BY DEF MergeInv, RowsSound, RowsTyped, WorkersSound, WorkersTyped
<1>1. Past(c)
  BY <1>0 DEF Queued, OnlyProposed, Ops
<1>2. ASSUME NEW d \in Changes, Reviews(d)
      PROVE  FALSE
  <2>1. ~Review(c, "approved") /\ ~Review(c, "conflicted") /\ ~Review(c, "rejected")
    BY DEF Review
  <2>2. ~Admit(c) /\ ~Propose(c)
    BY <1>1 DEF Admit, Propose, Past
  <2>3. d # c => change'[c] = change[c]
    BY <1>0, <1>2 DEF Reviews, Admit, Propose, Review, Queue
  <2>4. ~Queue(d)
    BY DEF Queue
  <2> QED
    BY <1>2, <2>1, <2>2, <2>3, <2>4 DEF Reviews
<1>3. ASSUME NEW w \in Workers, RecordMerge(w) \/ RecordConflict(w)
      PROVE  /\ change'[c].status \in {"merged", "conflicted"}
             /\ Live(<<c, change[c].revision>>)
  <2> DEFINE d == worker[w].op[1]
  <2>1. Fenced(w) /\ worker[w].op \in Ops /\ d \in Changes
    BY <1>0, <1>3 DEF RecordMerge, RecordConflict, Fenced, WorkerStates, Ops
  <2>2. /\ Approved(worker[w].op)
        /\ \E decided \in {"merged", "conflicted"} :
             change' = [change EXCEPT ![d].status = decided, ![d].revision = @ + 1]
    BY <1>3 DEF RecordMerge, RecordConflict
  <2>3. PICK decided \in {"merged", "conflicted"} :
          change' = [change EXCEPT ![d].status = decided, ![d].revision = @ + 1]
    BY <2>2
  <2>4. d = c /\ change'[c].status = decided
    BY <1>0, <2>1, <2>3 DEF ChangeRows
  <2>5. worker[w].op = <<c, change[c].revision>>
    BY <2>1, <2>2, <2>4 DEF Approved, Ops
  <2> QED
    BY <2>1, <2>4, <2>5 DEF Fenced
<1>4. ASSUME ~\E d \in Changes : Reviews(d),
             ~\E w \in Workers : RecordMerge(w) \/ RecordConflict(w)
      PROVE  FALSE
  BY <1>4 DEF Next, vars, Expire, List, TakeUp, Claim, SkipListed, Serve,
              GitMerge, BuildIndex, Publish, RecordFailure, LoseLease, Stumble,
              Crash
<1> QED
  BY <1>2, <1>3, <1>4

(* While a change waits for its merge or is merged only the holder of the  *)
(* lease on that revision decides it, and what an operation ended as stays *)
(* whatever a worker with an old list does.                                *)
THEOREM Decided == Spec => MergeDecides
<1>1. MergeInv /\ [Next]_vars =>
        /\ \A c \in Changes : Queued(c) /\ change'[c] # change[c] =>
              /\ change'[c].status \in {"merged", "conflicted"}
              /\ Live(<<c, change[c].revision>>)
        /\ \A o \in Ops : op[o].status \in {"succeeded", "conflicted"} =>
              op'[o] = op[o]
  BY EndedStays, HolderDecides
<1> QED
  BY <1>1, Invariance, PTL DEF Spec, MergeDecides

-----------------------------------------------------------------------------
(* The poll loops: what a poll decided on counts it took before its awaits *)
(* holds when the answer of its claim arrives.                             *)

(* A daemon that claims a candidate, or waits for the answer.              *)
InFlight(d) == Poll!Goes(d, "claim") \/ Poll!Goes(d, "launch")

(* A claim in flight is of a candidate its daemon does not drive, and has  *)
(* a slot.                                                                 *)
ClaimFits(d) ==
  /\ Cardinality(driven[d]) <= Slots
  /\ InFlight(d) => /\ batch[d] # {}
                    /\ Poll!First(d) \notin driven[d]
                    /\ Cardinality(driven[d]) < Slots

(* A daemon holds only what it drives, gave up or is about to launch.      *)
HoldsItsOwn(d) ==
  \A w \in Poll!Work :
    Poll!Owns(d, w) /\ loop[d] \in {"running", "draining", "stopped"} =>
      \/ w \in driven[d] \cup dropped[d]
      \/ Poll!Goes(d, "launch") /\ w = Poll!First(d)

(* A daemon that has not run drives and holds nothing, nor drives one that *)
(* has ended.                                                              *)
RestsFree(d) ==
  /\ loop[d] = "idle" =>
       pc[d] = "poll" /\ \A w \in Poll!Work : ~Poll!Owns(d, w)
  /\ loop[d] \in {"idle", "stopped"} => driven[d] = {}

(* A daemon that was forced claims no more, and drove nothing it had not   *)
(* given up when its last claim was made.                                  *)
ForcedStops(d) ==
  d \in forced =>
    /\ loop[d] \notin {"idle", "running"}
    /\ InFlight(d) => driven[d] \subseteq dropped[d]
    /\ Cardinality(driven[d] \ dropped[d]) <= 1

LoopInv(d) == ClaimFits(d) /\ HoldsItsOwn(d) /\ RestsFree(d) /\ ForcedStops(d)

CapacityKept ==
  \A r \in Runtimes : Cardinality(Poll!Reserving(r)) <= CapacityTotal[r]

PollInv == Poll!TypeOK /\ CapacityKept /\ \A d \in Workers : LoopInv(d)

-----------------------------------------------------------------------------
(* Lemmas about the operators.                                             *)

LEMMA PollCounts == ASSUME NEW S PROVE Poll!Cardinality(S) = Cardinality(S)
BY Zenon DEF Poll!Cardinality, Cardinality

LEMMA WorkFinite ==
  ASSUME NEW S, S \subseteq Poll!Work
  PROVE  IsFiniteSet(S) /\ Cardinality(S) \in Nat
<1>1. IsFiniteSet(Poll!Work)
  BY PollAssumption, FS_Interval DEF Poll!Work
<1> QED
  BY <1>1, FS_Subset, FS_CardinalityType

LEMMA CountShrinks ==
  ASSUME NEW S, S \subseteq Poll!Work, NEW T, T \subseteq S
  PROVE  Cardinality(T) <= Cardinality(S)
BY WorkFinite, FS_Subset

LEMMA CountGrows ==
  ASSUME NEW S, S \subseteq Poll!Work, NEW w \in Poll!Work
  PROVE  Cardinality(S \cup {w}) <= Cardinality(S) + 1
<1>1. IsFiniteSet(S) /\ Cardinality(S) \in Nat
  BY WorkFinite
<1> QED
  BY <1>1, FS_AddElement

(* The batch of a loop that is not done with it has a first candidate.     *)
LEMMA LeastWork ==
  ASSUME NEW T \in SUBSET Nat, T # {}
  PROVE  \E x \in T : \A y \in T : x <= y
<1> DEFINE R == {m \in Nat \X Nat : m[1] < m[2]}
<1>1. IsWellFoundedOn(R, Nat)
  BY NatLessThanWellFounded DEF OpToRel
<1>2. \A x, y \in Nat : y < x => <<y, x>> \in R
  OBVIOUS
<1> HIDE DEF R
<1>3. PICK x \in T : \A y \in T : ~(<<y, x>> \in R)
  BY <1>1, WFMin
<1>4. x \in Nat /\ \A y \in T : y \in Nat /\ ~(y < x)
  BY <1>2, <1>3
<1> QED
  BY <1>3, <1>4

LEMMA FirstIn ==
  ASSUME NEW d, batch[d] \subseteq Poll!Work, batch[d] # {}
  PROVE  Poll!First(d) \in batch[d]
<1>1. batch[d] \in SUBSET Nat
  BY DEF Poll!Work
<1>2. \E w \in batch[d] : \A v \in batch[d] : w <= v
  BY <1>1, LeastWork
<1> QED
  BY <1>2 DEF Poll!First

-----------------------------------------------------------------------------
(* What the steps of others and of the rows leave alone.                   *)

(* A loop is where it was, with what it had.                               *)
Untouched(d) ==
  /\ loop'[d] = loop[d] /\ pc'[d] = pc[d] /\ batch'[d] = batch[d]
  /\ driven'[d] = driven[d] /\ dropped'[d] = dropped[d]
  /\ d \in forced' <=> d \in forced

HoldsNoMore(d) == \A w \in Poll!Work : Poll!Owns(d, w)' => Poll!Owns(d, w)

LEMMA LoopKept ==
  ASSUME NEW d, LoopInv(d), Untouched(d), HoldsNoMore(d)
  PROVE  LoopInv(d)'
<1>1. Poll!First(d)' = Poll!First(d) /\ (InFlight(d)' <=> InFlight(d))
      /\ (Poll!Goes(d, "launch")' <=> Poll!Goes(d, "launch"))
  BY DEF Untouched, Poll!First, InFlight, Poll!Goes
<1>2. ClaimFits(d)' /\ ForcedStops(d)'
  BY <1>1 DEF LoopInv, ClaimFits, ForcedStops, Untouched
<1>3. HoldsItsOwn(d)' /\ RestsFree(d)'
  BY <1>1 DEF LoopInv, HoldsItsOwn, RestsFree, Untouched, HoldsNoMore
<1> QED
  BY <1>2, <1>3 DEF LoopInv

(* A step of one loop that claims nothing.                                 *)
LEMMA OthersKept ==
  ASSUME PollInv, NEW d \in Workers, LoopInv(d)', Poll!TypeOK', CapacityKept',
         \A e \in Workers \ {d} : Untouched(e) /\ HoldsNoMore(e)
  PROVE  PollInv'
BY LoopKept DEF PollInv

(* The capacity in use does not grow.                                      *)
LEMMA CapacityStays ==
  ASSUME PollInv,
         \A r \in Runtimes : Poll!Reserving(r)' \subseteq Poll!Reserving(r)
  PROVE  CapacityKept'
<1> SUFFICES ASSUME NEW r \in Runtimes
             PROVE  Cardinality(Poll!Reserving(r)') <= CapacityTotal[r]
  BY DEF CapacityKept
<1>1. Poll!Reserving(r) \subseteq Poll!Work
  BY DEF Poll!Reserving
<1>2. Cardinality(Poll!Reserving(r)') <= Cardinality(Poll!Reserving(r))
  BY <1>1, CountShrinks
<1>3. Cardinality(Poll!Reserving(r)) <= CapacityTotal[r] /\ CapacityTotal[r] \in Nat
  BY PollAssumption DEF PollInv, CapacityKept
<1>4. Cardinality(Poll!Reserving(r)') \in Nat /\ Cardinality(Poll!Reserving(r)) \in Nat
  BY <1>1, WorkFinite
<1> QED
  BY <1>2, <1>3, <1>4

(* Steps that touch no lease.                                              *)
LEMMA LeasesStay ==
  ASSUME PollInv, UNCHANGED <<status, holder>>
  PROVE  CapacityKept' /\ \A d \in Workers : HoldsNoMore(d)
<1>1. \A r \in Runtimes : Poll!Reserving(r)' \subseteq Poll!Reserving(r)
  BY DEF Poll!Reserving
<1> QED
  BY <1>1, CapacityStays DEF HoldsNoMore, Poll!Owns

-----------------------------------------------------------------------------
(* The initial state, and one lemma per kind of step.                      *)

LEMMA PollInvInit == Poll!Init => PollInv
<1> SUFFICES ASSUME Poll!Init PROVE PollInv
  OBVIOUS
<1>1. \A S : S = {} => Cardinality(S) = 0
  BY FS_EmptySet
<1>2. \A d \in Workers : driven[d] = {} /\ loop[d] = "idle" /\ pc[d] = "poll"
  BY DEF Poll!Init
<1>3. \A r \in Runtimes : Poll!Reserving(r) = {}
  BY DEF Poll!Init, Poll!Reserving, Poll!Work
<1>4. Poll!TypeOK
  BY PollAssumption DEF Poll!Init, Poll!TypeOK, Poll!Work
<1>5. CapacityKept
  BY <1>1, <1>3, PollAssumption DEF CapacityKept
<1>6. ASSUME NEW d \in Workers PROVE LoopInv(d)
  <2>1. ~InFlight(d)
    BY <1>2 DEF InFlight, Poll!Goes
  <2>2. ClaimFits(d)
    BY <1>1, <1>2, <2>1, PollAssumption DEF ClaimFits
  <2>3. HoldsItsOwn(d) /\ RestsFree(d)
    BY <1>2 DEF Poll!Init, HoldsItsOwn, RestsFree, Poll!Owns, Poll!Work
  <2>4. ForcedStops(d)
    BY DEF Poll!Init, ForcedStops
  <2> QED
    BY <2>2, <2>3, <2>4 DEF LoopInv
<1> QED
  BY <1>4, <1>5, <1>6 DEF PollInv

(* What is queued, lapses or is toggled moves no loop, and no lease is     *)
(* gained.                                                                 *)
LEMMA RowsMove ==
  ASSUME PollInv,
         \/ \E w \in Poll!Work :
              Poll!Queue(w) \/ Poll!LeaseLapses(w) \/ Poll!LeaseStalls(w)
         \/ \E r \in Runtimes : Poll!Toggle(r)
  PROVE  PollInv'
<1>1. UNCHANGED <<loop, pc, batch, driven, dropped, forced, holder, limit, losses>>
  BY DEF Poll!Queue, Poll!LeaseLapses, Poll!LeaseStalls, Poll!Toggle, Poll!polling,
     Poll!driving, Poll!lease, Poll!bounds
<1>2. \A w \in Poll!Work : status'[w] # status[w] =>
         \/ status[w] = "absent" /\ status'[w] = "queued"
         \/ status[w] = "held" /\ status'[w] = "lapsed"
  BY DEF PollInv, Poll!TypeOK, Poll!Queue, Poll!LeaseLapses, Poll!LeaseStalls,
     Poll!Toggle, Poll!lease
<1>3. Poll!TypeOK'
  <2>1. status' \in [Poll!Work -> {"absent", "queued", "held", "lapsed", "done"}]
    BY DEF PollInv, Poll!TypeOK, Poll!Queue, Poll!LeaseLapses, Poll!LeaseStalls,
       Poll!Toggle, Poll!lease
  <2>2. stalls' \in 0 .. MaxStalls /\ toggles' \in 0 .. MaxToggles
    BY PollAssumption DEF PollInv, Poll!TypeOK, Poll!Queue, Poll!LeaseLapses,
       Poll!LeaseStalls, Poll!Toggle, Poll!bounds
  <2>3. enabled' \subseteq Runtimes
    BY DEF PollInv, Poll!TypeOK, Poll!Queue, Poll!LeaseLapses, Poll!LeaseStalls,
       Poll!Toggle
  <2> QED
    BY <1>1, <2>1, <2>2, <2>3 DEF PollInv, Poll!TypeOK
<1>4. CapacityKept'
  <2>1. \A r \in Runtimes : Poll!Reserving(r)' \subseteq Poll!Reserving(r)
    BY <1>2 DEF Poll!Reserving
  <2> QED
    BY <2>1, CapacityStays
<1>5. \A d \in Workers : Untouched(d) /\ HoldsNoMore(d)
  BY <1>1, <1>2 DEF Untouched, HoldsNoMore, Poll!Owns
<1> QED
  BY <1>3, <1>4, <1>5, LoopKept DEF PollInv

(* A step of one loop that touches no lease.                               *)
LEMMA LoopStep ==
  ASSUME PollInv, NEW d \in Workers, UNCHANGED <<status, holder>>,
         Poll!TypeOK', \A e \in Workers \ {d} : Untouched(e), LoopInv(d)'
  PROVE  PollInv'
BY LeasesStay, OthersKept DEF PollInv

(* The loop starts, turns, waits and reads its window.                     *)
Turns(d) ==
  \/ Poll!Run(d) \/ Poll!StartPoll(d) \/ Poll!ListCandidates(d)
  \/ Poll!ListFails(d) \/ Poll!NextCandidate(d) \/ Poll!WaitForNextPoll(d)

LEMMA WindowTyped == ASSUME NEW n PROVE Poll!Window(n) \subseteq Poll!Work
BY DEF Poll!Window, Poll!Candidates

LEMMA LoopTurns ==
  ASSUME PollInv, NEW d \in Workers, Turns(d)
  PROVE  PollInv'
<1>1. UNCHANGED <<status, holder, enabled, driven, dropped, forced, losses, toggles>>
  BY DEF Turns, Poll!Run, Poll!StartPoll, Poll!ListCandidates, Poll!ListFails,
     Poll!NextCandidate, Poll!WaitForNextPoll, Poll!lease, Poll!driving, Poll!bounds
<1>2. /\ loop' \in [Workers -> {"idle", "running", "draining", "stopped", "crashed"}]
      /\ \A e \in Workers \ {d} : loop'[e] = loop[e]
      /\ loop'[d] # loop[d] => loop[d] = "idle" /\ loop'[d] = "running" /\ UNCHANGED pc
  BY DEF PollInv, Poll!TypeOK, Turns, Poll!Run, Poll!StartPoll, Poll!ListCandidates,
     Poll!ListFails, Poll!NextCandidate, Poll!WaitForNextPoll, Poll!polling
<1>3. /\ batch' \in [Workers -> SUBSET Poll!Work]
      /\ \A e \in Workers \ {d} : batch'[e] = batch[e]
  BY WindowTyped DEF PollInv, Poll!TypeOK, Turns, Poll!Run, Poll!StartPoll,
     Poll!ListCandidates, Poll!ListFails, Poll!NextCandidate, Poll!WaitForNextPoll,
     Poll!polling
<1>4. /\ pc' \in [Workers -> {"poll", "list", "next", "claim", "launch", "wait", "finish"}]
      /\ \A e \in Workers \ {d} : pc'[e] = pc[e]
      /\ UNCHANGED pc \/ pc'[d] \in {"list", "next", "wait", "poll", "finish", "claim"}
      /\ pc[d] = "launch" => UNCHANGED pc
  BY DEF PollInv, Poll!TypeOK, Turns, Poll!Run, Poll!StartPoll, Poll!ListCandidates,
     Poll!ListFails, Poll!NextCandidate, Poll!WaitForNextPoll, Poll!MoveTo, Poll!Goes,
     Poll!polling
<1>5. limit' \in [Workers -> 0 .. PollBatchSize]
  <2>1. Poll!FreeSlots(d) \in Int
    BY WorkFinite, PollCounts, PollAssumption DEF PollInv, Poll!TypeOK, Poll!FreeSlots
  <2>2. IF Poll!FreeSlots(d) < PollBatchSize
          THEN Poll!FreeSlots(d) > 0 => Poll!FreeSlots(d) \in 0 .. PollBatchSize
          ELSE PollBatchSize \in 0 .. PollBatchSize
    BY <2>1, PollAssumption
  <2> QED
    BY <2>2 DEF PollInv, Poll!TypeOK, Turns, Poll!Run, Poll!StartPoll,
       Poll!ListCandidates, Poll!ListFails, Poll!NextCandidate,
       Poll!WaitForNextPoll, Poll!polling
<1>6. stalls' \in 0 .. MaxStalls
  BY PollAssumption DEF PollInv, Poll!TypeOK, Turns, Poll!Run, Poll!StartPoll,
     Poll!ListCandidates, Poll!ListFails, Poll!NextCandidate, Poll!WaitForNextPoll,
     Poll!bounds
<1>7. Poll!TypeOK'
  BY <1>1, <1>2, <1>3, <1>4, <1>5, <1>6 DEF PollInv, Poll!TypeOK
<1>8. \A e \in Workers \ {d} : Untouched(e)
  BY <1>1, <1>2, <1>3, <1>4 DEF Untouched
<1>9. /\ loop'[d] \in {"running", "draining"} /\ pc[d] # "launch"
      /\ loop[d] = "idle" \/ loop'[d] = loop[d]
  BY <1>4 DEF PollInv, Poll!TypeOK, Turns, Poll!Run, Poll!StartPoll, Poll!ListCandidates,
     Poll!ListFails, Poll!NextCandidate, Poll!WaitForNextPoll, Poll!Goes, LoopInv, RestsFree
<1>10. InFlight(d)' => /\ batch'[d] = batch[d] /\ batch[d] # {}
                       /\ Poll!First(d) \notin driven[d]
                       /\ Poll!FreeSlots(d) > 0 /\ loop[d] = "running"
                       /\ pc'[d] = "claim"
  <2>1. CASE Poll!NextCandidate(d)
    BY <2>1, <1>4 DEF PollInv, Poll!TypeOK, Poll!NextCandidate, Poll!Goes, InFlight,
       Poll!MoveTo, Poll!MayGoOn, Poll!AlreadyActive
  <2>2. CASE Poll!Run(d)
    BY <2>2 DEF PollInv, LoopInv, RestsFree, Poll!Run, Poll!polling, InFlight, Poll!Goes
  <2>3. CASE Turns(d) /\ ~Poll!NextCandidate(d) /\ ~Poll!Run(d)
    <3>1. pc'[d] \in {"list", "next", "wait", "poll", "finish"}
      BY <2>3 DEF PollInv, Poll!TypeOK, Turns, Poll!StartPoll, Poll!ListCandidates,
         Poll!ListFails, Poll!WaitForNextPoll, Poll!MoveTo
    <3> QED
      BY <3>1 DEF InFlight, Poll!Goes
  <2> QED
    BY <2>1, <2>2, <2>3
<1>11. ClaimFits(d)'
  <2>1. Cardinality(driven[d]) \in Nat
    BY WorkFinite DEF PollInv, Poll!TypeOK
  <2>2. Poll!FreeSlots(d) > 0 => Cardinality(driven[d]) < Slots
    BY <2>1, PollCounts, PollAssumption DEF Poll!FreeSlots
  <2>3. batch'[d] = batch[d] => Poll!First(d)' = Poll!First(d)
    BY DEF Poll!First
  <2> QED
    BY <1>1, <1>10, <2>2, <2>3 DEF PollInv, LoopInv, ClaimFits
<1>12. HoldsItsOwn(d)' /\ RestsFree(d)'
  <2>1. ~Poll!Goes(d, "launch")
    BY <1>9 DEF Poll!Goes
  <2>2. \A w \in Poll!Work : Poll!Owns(d, w)' => Poll!Owns(d, w)
    BY <1>1 DEF Poll!Owns
  <2> QED
    BY <1>1, <1>9, <2>1, <2>2 DEF PollInv, LoopInv, HoldsItsOwn, RestsFree
<1>13. ForcedStops(d)'
  BY <1>1, <1>9, <1>10 DEF PollInv, LoopInv, ForcedStops
<1> QED
  BY <1>1, <1>7, <1>8, <1>11, <1>12, <1>13, LoopStep DEF LoopInv

(* Attempts that are given up: a heartbeat is fenced or throws, the loop   *)
(* is interrupted, or the driver of an attempt given up has ended.         *)
GivesUp(d) ==
  \/ \E w \in Poll!Work :
       Poll!Fenced(d, w) \/ Poll!HeartbeatFails(d, w) \/ Poll!AbandonedEnds(d, w)
  \/ Poll!InterruptActive(d)

LEMMA LoopGivesUp ==
  ASSUME PollInv, NEW d \in Workers, GivesUp(d)
  PROVE  PollInv'
<1>1. UNCHANGED <<status, holder, enabled, loop, pc, limit, batch, losses, toggles>>
  BY DEF GivesUp, Poll!Fenced, Poll!HeartbeatFails, Poll!AbandonedEnds,
     Poll!InterruptActive, Poll!lease, Poll!polling, Poll!bounds
<1>2. /\ driven' \in [Workers -> SUBSET Poll!Work]
      /\ \A e \in Workers \ {d} : driven'[e] = driven[e]
      /\ driven'[d] \subseteq driven[d]
      /\ driven[d] \subseteq driven'[d] \cup dropped[d]
  BY DEF PollInv, Poll!TypeOK, GivesUp, Poll!Fenced, Poll!HeartbeatFails,
     Poll!AbandonedEnds, Poll!InterruptActive
<1>3. /\ dropped' \in [Workers -> SUBSET Poll!Work]
      /\ \A e \in Workers \ {d} : dropped'[e] = dropped[e]
      /\ dropped[d] \subseteq dropped'[d]
  BY DEF PollInv, Poll!TypeOK, GivesUp, Poll!Fenced, Poll!HeartbeatFails,
     Poll!AbandonedEnds, Poll!InterruptActive
<1>4. stalls' \in 0 .. MaxStalls
  BY PollAssumption DEF PollInv, Poll!TypeOK, GivesUp, Poll!Fenced,
     Poll!HeartbeatFails, Poll!AbandonedEnds, Poll!InterruptActive, Poll!bounds
<1>5. /\ loop[d] \in {"running", "draining"}
      /\ \A e \in Workers \ {d} : e \in forced' <=> e \in forced
      /\ forced' \subseteq Workers
      /\ forced' = forced \/ (loop[d] = "draining" /\ driven[d] \subseteq dropped'[d])
  BY DEF PollInv, Poll!TypeOK, GivesUp, Poll!Fenced, Poll!HeartbeatFails,
     Poll!AbandonedEnds, Poll!InterruptActive
<1>6. Poll!TypeOK'
  BY <1>1, <1>2, <1>3, <1>4, <1>5 DEF PollInv, Poll!TypeOK
<1>7. \A e \in Workers \ {d} : Untouched(e)
  BY <1>1, <1>2, <1>3, <1>5 DEF Untouched
<1>8. /\ Poll!First(d)' = Poll!First(d) /\ (InFlight(d)' <=> InFlight(d))
      /\ (Poll!Goes(d, "launch")' <=> Poll!Goes(d, "launch"))
      /\ \A w \in Poll!Work : Poll!Owns(d, w)' <=> Poll!Owns(d, w)
  BY <1>1 DEF Poll!First, InFlight, Poll!Goes, Poll!Owns
<1>9. /\ Cardinality(driven'[d]) <= Cardinality(driven[d])
      /\ Cardinality(driven[d]) \in Nat /\ Cardinality(driven'[d]) \in Nat
  BY <1>2, CountShrinks, WorkFinite DEF PollInv, Poll!TypeOK
<1>10. ClaimFits(d)'
  BY <1>1, <1>2, <1>8, <1>9, PollAssumption DEF PollInv, LoopInv, ClaimFits
<1>11. HoldsItsOwn(d)' /\ RestsFree(d)'
  BY <1>1, <1>2, <1>3, <1>5, <1>8 DEF PollInv, LoopInv, HoldsItsOwn, RestsFree
<1>12. ForcedStops(d)'
  <2> DEFINE left == driven[d] \ dropped[d]
  <2>1. /\ driven'[d] \ dropped'[d] \subseteq left /\ left \subseteq Poll!Work
    BY <1>2, <1>3 DEF PollInv, Poll!TypeOK
  <2>2. /\ Cardinality(driven'[d] \ dropped'[d]) <= Cardinality(left)
        /\ Cardinality(driven'[d] \ dropped'[d]) \in Nat /\ Cardinality(left) \in Nat
    BY <2>1, CountShrinks, WorkFinite
  <2>3. driven'[d] \ dropped'[d] = {} => Cardinality(driven'[d] \ dropped'[d]) <= 1
    BY FS_EmptySet
  <2> HIDE DEF left
  <2>4. CASE d \in forced
    <3>1. loop[d] \notin {"idle", "running"} /\ Cardinality(left) <= 1
          /\ (InFlight(d) => driven[d] \subseteq dropped[d])
      BY <2>4 DEF PollInv, LoopInv, ForcedStops, left
    <3>2. Cardinality(driven'[d] \ dropped'[d]) <= 1
      BY <2>2, <3>1
    <3> QED
      BY <1>1, <1>2, <1>3, <1>8, <3>1, <3>2 DEF ForcedStops
  <2>5. CASE d \in forced' /\ d \notin forced
    <3>1. driven[d] \subseteq dropped'[d] /\ loop[d] = "draining"
      BY <1>5, <2>5
    <3>2. driven'[d] \subseteq dropped'[d]
      BY <1>2, <3>1
    <3>3. Cardinality(driven'[d] \ dropped'[d]) <= 1
      BY <2>3, <3>2
    <3> QED
      BY <1>1, <3>1, <3>2, <3>3 DEF ForcedStops
  <2> QED
    BY <2>4, <2>5 DEF ForcedStops
<1> QED
  BY <1>1, <1>6, <1>7, <1>10, <1>11, <1>12, LoopStep DEF LoopInv

(* A loop ends once it drives nothing, is told to stop, or crashes.        *)
LEMMA LoopEnds ==
  ASSUME PollInv, NEW d \in Workers, Poll!WaitForActiveAttempts(d) \/ Poll!Drain(d)
  PROVE  PollInv'
<1>1. UNCHANGED <<status, holder, enabled, pc, limit, batch, driven, dropped, forced,
                  stalls, toggles>>
  BY DEF Poll!WaitForActiveAttempts, Poll!Drain, Poll!lease, Poll!polling,
     Poll!driving, Poll!bounds
<1>2. /\ loop' \in [Workers -> {"idle", "running", "draining", "stopped", "crashed"}]
      /\ \A e \in Workers \ {d} : loop'[e] = loop[e]
      /\ \/ loop[d] = "running" /\ loop'[d] = "draining"
         \/ loop[d] = "idle" /\ loop'[d] = "stopped"
         \/ /\ loop[d] \in {"running", "draining"} /\ pc[d] = "finish"
            /\ driven[d] = {} /\ loop'[d] = "stopped"
  BY DEF PollInv, Poll!TypeOK, Poll!WaitForActiveAttempts, Poll!Drain, Poll!Goes
<1>3. losses' \in 0 .. MaxLosses
  BY PollAssumption DEF PollInv, Poll!TypeOK, Poll!WaitForActiveAttempts, Poll!Drain,
     Poll!bounds
<1>4. Poll!TypeOK'
  BY <1>1, <1>2, <1>3 DEF PollInv, Poll!TypeOK
<1>5. \A e \in Workers \ {d} : Untouched(e)
  BY <1>1, <1>2 DEF Untouched
<1>6. /\ Poll!First(d)' = Poll!First(d) /\ (InFlight(d)' => InFlight(d))
      /\ \A w \in Poll!Work : Poll!Owns(d, w)' <=> Poll!Owns(d, w)
      /\ loop[d] = "running" => (Poll!Goes(d, "launch")' <=> Poll!Goes(d, "launch"))
      /\ pc[d] = "finish" => ~Poll!Goes(d, "launch")
  BY <1>1, <1>2 DEF Poll!First, InFlight, Poll!Goes, Poll!Owns
<1>7. ClaimFits(d)' /\ ForcedStops(d)'
  BY <1>1, <1>2, <1>6 DEF PollInv, LoopInv, ClaimFits, ForcedStops
<1>8. HoldsItsOwn(d)' /\ RestsFree(d)'
  BY <1>1, <1>2, <1>6 DEF PollInv, LoopInv, HoldsItsOwn, RestsFree
<1> QED
  BY <1>1, <1>4, <1>5, <1>7, <1>8, LoopStep DEF LoopInv

LEMMA LoopCrashes ==
  ASSUME PollInv, NEW d \in Workers, Poll!Crash(d)
  PROVE  PollInv'
<1>1. UNCHANGED <<status, holder, enabled, pc, limit, forced, stalls, toggles>>
  BY DEF Poll!Crash, Poll!lease
<1>2. /\ loop' = [loop EXCEPT ![d] = "crashed"]
      /\ driven' = [driven EXCEPT ![d] = {}] /\ dropped' = [dropped EXCEPT ![d] = {}]
      /\ batch' = [batch EXCEPT ![d] = {}]
  BY DEF Poll!Crash
<1>3. losses' \in 0 .. MaxLosses
  BY PollAssumption DEF PollInv, Poll!TypeOK, Poll!Crash
<1>4. Poll!TypeOK'
  BY <1>1, <1>2, <1>3 DEF PollInv, Poll!TypeOK
<1>5. \A e \in Workers \ {d} : Untouched(e)
  BY <1>1, <1>2 DEF PollInv, Poll!TypeOK, Untouched
<1>6. loop'[d] = "crashed" /\ driven'[d] = {}
  BY <1>2 DEF PollInv, Poll!TypeOK
<1>7. ~InFlight(d)'
  BY <1>6 DEF InFlight, Poll!Goes
<1>8. Cardinality(driven'[d]) = 0 /\ Cardinality(driven'[d] \ dropped'[d]) = 0
  <2>1. driven'[d] \ dropped'[d] = {}
    BY <1>6
  <2> QED
    BY <1>6, <2>1, FS_EmptySet
<1>9. ClaimFits(d)' /\ ForcedStops(d)'
  BY <1>6, <1>7, <1>8, PollAssumption DEF ClaimFits, ForcedStops
<1>10. HoldsItsOwn(d)' /\ RestsFree(d)'
  BY <1>6 DEF HoldsItsOwn, RestsFree
<1> QED
  BY <1>1, <1>4, <1>5, <1>9, <1>10, LoopStep DEF LoopInv

(* The claim: it is granted when the runtime has a place, or had one.      *)
LEMMA ClaimGranted ==
  ASSUME PollInv, NEW d \in Workers, Poll!Goes(d, "claim"),
         NEW w \in Poll!Work, w = Poll!First(d), Poll!Claimable(w),
         status' = [status EXCEPT ![w] = "held"],
         holder' = [holder EXCEPT ![w] = d],
         dropped' = [dropped EXCEPT ![d] = @ \ {w}],
         Poll!MoveTo(d, "launch"),
         UNCHANGED <<batch, enabled, loop, limit, driven, forced,
                     losses, stalls, toggles>>
  PROVE  PollInv'
<1>1. /\ status \in [Poll!Work -> {"absent", "queued", "held", "lapsed", "done"}]
      /\ holder \in [Poll!Work -> Workers \cup {NoDaemon}]
      /\ driven[d] \subseteq Poll!Work /\ loop[d] \in {"running", "draining"}
      /\ dropped \in [Workers -> SUBSET Poll!Work]
  BY DEF PollInv, Poll!TypeOK, Poll!Goes
<1>2. /\ pc' \in [Workers -> {"poll", "list", "next", "claim", "launch", "wait", "finish"}]
      /\ pc'[d] = "launch" /\ pc[d] = "claim"
      /\ \A e \in Workers \ {d} : pc'[e] = pc[e]
  BY DEF PollInv, Poll!TypeOK, Poll!MoveTo, Poll!Goes
<1>3. Poll!TypeOK'
  BY <1>2 DEF PollInv, Poll!TypeOK
<1>4. CapacityKept'
  <2> SUFFICES ASSUME NEW r \in Runtimes
               PROVE  Cardinality(Poll!Reserving(r)') <= CapacityTotal[r]
    BY DEF CapacityKept
  <2>1. Poll!Reserving(r) \subseteq Poll!Work /\ Poll!Reserving(r)' \subseteq Poll!Work
    BY DEF Poll!Reserving
  <2>2. Poll!Reserving(r)' \subseteq Poll!Reserving(r) \cup {w}
    BY <1>1 DEF Poll!Reserving
  <2>3. CASE Poll!Reserving(r)' \subseteq Poll!Reserving(r)
    <3>1. Cardinality(Poll!Reserving(r)') <= Cardinality(Poll!Reserving(r))
      BY <2>1, <2>3, CountShrinks
    <3>2. Cardinality(Poll!Reserving(r)) <= CapacityTotal[r] /\ CapacityTotal[r] \in Nat
      BY PollAssumption DEF PollInv, CapacityKept
    <3> QED
      BY <2>1, <3>1, <3>2, WorkFinite
  <2>4. CASE ~(Poll!Reserving(r)' \subseteq Poll!Reserving(r))
    <3>1. w \notin Poll!Reserving(r) /\ RuntimeOf[w] = r
      BY <1>1, <2>2, <2>4 DEF Poll!Reserving
    <3>2. Cardinality(Poll!Reserving(r)) < CapacityTotal[r] /\ CapacityTotal[r] \in Nat
      BY <1>1, <3>1, PollCounts, PollAssumption DEF Poll!Claimable, Poll!Reserving
    <3>3. /\ Cardinality(Poll!Reserving(r)') <= Cardinality(Poll!Reserving(r) \cup {w})
          /\ Cardinality(Poll!Reserving(r) \cup {w}) <= Cardinality(Poll!Reserving(r)) + 1
      BY <2>1, <2>2, CountShrinks, CountGrows
    <3>4. /\ Cardinality(Poll!Reserving(r)') \in Nat
          /\ Cardinality(Poll!Reserving(r) \cup {w}) \in Nat
          /\ Cardinality(Poll!Reserving(r)) \in Nat
      BY <2>1, WorkFinite
    <3> QED
      BY <3>2, <3>3, <3>4
  <2> QED
    BY <2>3, <2>4
<1>5. \A e \in Workers \ {d} : Untouched(e) /\ HoldsNoMore(e)
  BY <1>1, <1>2 DEF Untouched, HoldsNoMore, Poll!Owns
<1>6. /\ Poll!First(d)' = w /\ InFlight(d) /\ Poll!Goes(d, "launch")'
      /\ ~Poll!Goes(d, "launch")
  BY <1>1, <1>2 DEF Poll!First, InFlight, Poll!Goes
<1>7. ClaimFits(d)' /\ RestsFree(d)'
  BY <1>1, <1>2, <1>6 DEF PollInv, LoopInv, ClaimFits, RestsFree
<1>8. HoldsItsOwn(d)'
  BY <1>1, <1>6 DEF PollInv, LoopInv, HoldsItsOwn, Poll!Owns
<1>9. ForcedStops(d)'
  <2>1. w \notin driven[d]
    BY <1>6 DEF PollInv, LoopInv, ClaimFits
  <2>2. dropped'[d] = dropped[d] \ {w}
    BY <1>1
  <2>3. driven[d] \ dropped'[d] = driven[d] \ dropped[d]
    BY <2>1, <2>2
  <2> QED
    BY <1>6, <2>1, <2>2, <2>3 DEF PollInv, LoopInv, ForcedStops
<1> QED
  BY <1>3, <1>4, <1>5, <1>7, <1>8, <1>9, OthersKept DEF LoopInv

(* It is refused: the loop looks at the next candidate.                    *)
LEMMA ClaimRefused ==
  ASSUME PollInv, NEW d \in Workers, Poll!Goes(d, "claim"),
         batch' = [batch EXCEPT ![d] = @ \ {Poll!First(d)}],
         Poll!MoveTo(d, "next"),
         UNCHANGED <<status, holder, dropped, enabled, loop, limit, driven, forced,
                     losses, stalls, toggles>>
  PROVE  PollInv'
<1>1. /\ pc' \in [Workers -> {"poll", "list", "next", "claim", "launch", "wait", "finish"}]
      /\ pc'[d] = "next" /\ pc[d] = "claim" /\ loop[d] \in {"running", "draining"}
      /\ \A e \in Workers \ {d} : pc'[e] = pc[e]
  BY DEF PollInv, Poll!TypeOK, Poll!MoveTo, Poll!Goes
<1>2. /\ batch' \in [Workers -> SUBSET Poll!Work]
      /\ \A e \in Workers \ {d} : batch'[e] = batch[e]
  BY DEF PollInv, Poll!TypeOK
<1>3. Poll!TypeOK'
  BY <1>1, <1>2 DEF PollInv, Poll!TypeOK
<1>4. \A e \in Workers \ {d} : Untouched(e)
  BY <1>1, <1>2 DEF Untouched
<1>5. ~InFlight(d)' /\ ~Poll!Goes(d, "launch")
  BY <1>1 DEF InFlight, Poll!Goes
<1>6. ClaimFits(d)' /\ RestsFree(d)' /\ ForcedStops(d)'
  BY <1>1, <1>5 DEF PollInv, LoopInv, ClaimFits, RestsFree, ForcedStops
<1>7. HoldsItsOwn(d)'
  BY <1>5 DEF PollInv, LoopInv, HoldsItsOwn, Poll!Owns
<1> QED
  BY <1>3, <1>4, <1>6, <1>7, LoopStep DEF LoopInv

LEMMA LoopClaims ==
  ASSUME PollInv, NEW d \in Workers, Poll!Claim(d)
  PROVE  PollInv'
<1>1. Poll!Goes(d, "claim")
      /\ UNCHANGED <<enabled, loop, limit, driven, forced, losses, stalls, toggles>>
  BY DEF Poll!Claim, Poll!bounds
<1>2. Poll!First(d) \in Poll!Work
  BY <1>1, FirstIn DEF PollInv, Poll!TypeOK, LoopInv, ClaimFits, InFlight
<1>3. CASE Poll!Claimable(Poll!First(d))
  <2>1. /\ status' = [status EXCEPT ![Poll!First(d)] = "held"]
        /\ holder' = [holder EXCEPT ![Poll!First(d)] = d]
        /\ dropped' = [dropped EXCEPT ![d] = @ \ {Poll!First(d)}]
        /\ Poll!MoveTo(d, "launch") /\ UNCHANGED batch
    BY <1>3 DEF Poll!Claim
  <2> QED
    BY <1>1, <1>2, <1>3, <2>1, ClaimGranted
<1>4. CASE ~Poll!Claimable(Poll!First(d))
  <2>1. /\ batch' = [batch EXCEPT ![d] = @ \ {Poll!First(d)}]
        /\ Poll!MoveTo(d, "next") /\ UNCHANGED <<status, holder, dropped>>
    BY <1>4 DEF Poll!Claim, Poll!lease
  <2> QED
    BY <1>1, <2>1, ClaimRefused
<1> QED
  BY <1>3, <1>4

(* Its answer arrives, whatever the loop was told meanwhile.               *)
LEMMA LoopLaunches ==
  ASSUME PollInv, NEW d \in Workers, Poll!LaunchAttempt(d)
  PROVE  PollInv'
<1> DEFINE w == Poll!First(d)
<1>1. /\ UNCHANGED <<status, holder, enabled, loop, limit, dropped, forced,
                     losses, stalls, toggles>>
      /\ Poll!Goes(d, "launch") /\ Poll!MoveTo(d, "next")
      /\ driven' = [driven EXCEPT ![d] = @ \cup {w}]
      /\ batch' = [batch EXCEPT ![d] = @ \ {w}]
  BY DEF Poll!LaunchAttempt, Poll!lease, Poll!bounds
<1>2. InFlight(d) /\ w \in Poll!Work /\ Cardinality(driven[d]) < Slots
  BY <1>1, FirstIn DEF PollInv, Poll!TypeOK, LoopInv, ClaimFits, InFlight
<1> HIDE DEF w
<1>3. /\ pc' \in [Workers -> {"poll", "list", "next", "claim", "launch", "wait", "finish"}]
      /\ pc'[d] = "next" /\ loop[d] \in {"running", "draining"}
      /\ \A e \in Workers \ {d} : pc'[e] = pc[e]
  BY <1>1 DEF PollInv, Poll!TypeOK, Poll!MoveTo, Poll!Goes
<1>4. /\ batch' \in [Workers -> SUBSET Poll!Work]
      /\ \A e \in Workers \ {d} : batch'[e] = batch[e]
  BY <1>1 DEF PollInv, Poll!TypeOK
<1>5. /\ driven' \in [Workers -> SUBSET Poll!Work] /\ driven'[d] = driven[d] \cup {w}
      /\ \A e \in Workers \ {d} : driven'[e] = driven[e]
      /\ driven[d] \subseteq Poll!Work
  BY <1>1, <1>2 DEF PollInv, Poll!TypeOK
<1>6. Poll!TypeOK'
  BY <1>1, <1>3, <1>4, <1>5 DEF PollInv, Poll!TypeOK
<1>7. \A e \in Workers \ {d} : Untouched(e)
  BY <1>1, <1>3, <1>4, <1>5 DEF Untouched
<1>8. ~InFlight(d)' /\ ~Poll!Goes(d, "launch")'
  BY <1>3 DEF InFlight, Poll!Goes
<1>9. ClaimFits(d)'
  <2>1. Cardinality(driven'[d]) <= Cardinality(driven[d]) + 1
    BY <1>2, <1>5, CountGrows
  <2>2. Cardinality(driven[d]) \in Nat /\ Cardinality(driven'[d]) \in Nat
    BY <1>2, <1>5, WorkFinite
  <2>3. Cardinality(driven'[d]) <= Slots
    BY <1>2, <2>1, <2>2, PollAssumption
  <2> QED
    BY <1>8, <2>3 DEF ClaimFits
<1>10. HoldsItsOwn(d)' /\ RestsFree(d)'
  BY <1>1, <1>3, <1>5, <1>8 DEF PollInv, LoopInv, HoldsItsOwn, RestsFree, Poll!Owns, w
<1>11. ForcedStops(d)'
  <2> SUFFICES ASSUME d \in forced
               PROVE  loop[d] \notin {"idle", "running"}
                      /\ Cardinality(driven'[d] \ dropped[d]) <= 1
    BY <1>1, <1>8 DEF ForcedStops
  <2>1. loop[d] \notin {"idle", "running"} /\ driven[d] \subseteq dropped[d]
    BY <1>2 DEF PollInv, LoopInv, ForcedStops
  <2>2. driven'[d] \ dropped[d] \subseteq {} \cup {w}
    BY <1>5, <2>1
  <2>3. Cardinality({} \cup {w}) <= Cardinality({}) + 1 /\ Cardinality({}) = 0
    BY <1>2, CountGrows, FS_EmptySet
  <2>4. Cardinality(driven'[d] \ dropped[d]) <= Cardinality({} \cup {w})
    BY <1>2, <2>2, CountShrinks
  <2>5. Cardinality(driven'[d] \ dropped[d]) \in Nat /\ Cardinality({} \cup {w}) \in Nat
    BY <1>2, <2>2, WorkFinite
  <2> QED
    BY <2>1, <2>3, <2>4, <2>5
<1> QED
  BY <1>1, <1>6, <1>7, <1>9, <1>10, <1>11, LoopStep DEF LoopInv

LEMMA LoopCompletes ==
  ASSUME PollInv, NEW d \in Workers, NEW w \in Poll!Work, Poll!Complete(d, w)
  PROVE  PollInv'
<1>1. /\ UNCHANGED <<holder, enabled, loop, pc, limit, batch, dropped, forced,
                     losses, stalls, toggles>>
      /\ status' = [status EXCEPT ![w] = "done"]
      /\ driven' = [driven EXCEPT ![d] = @ \ {w}]
      /\ loop[d] \in {"running", "draining"}
  BY DEF Poll!Complete, Poll!polling, Poll!bounds
<1>2. Poll!TypeOK'
  BY <1>1 DEF PollInv, Poll!TypeOK
<1>3. \A r \in Runtimes : Poll!Reserving(r)' \subseteq Poll!Reserving(r)
  BY <1>1 DEF PollInv, Poll!TypeOK, Poll!Reserving
<1>4. \A e \in Workers : HoldsNoMore(e)
  BY <1>1 DEF PollInv, Poll!TypeOK, HoldsNoMore, Poll!Owns
<1>5. /\ driven'[d] = driven[d] \ {w} /\ driven[d] \subseteq Poll!Work
      /\ \A e \in Workers \ {d} : Untouched(e)
  BY <1>1 DEF PollInv, Poll!TypeOK, Untouched
<1>6. /\ Poll!First(d)' = Poll!First(d) /\ (InFlight(d)' <=> InFlight(d))
      /\ (Poll!Goes(d, "launch")' <=> Poll!Goes(d, "launch"))
      /\ ~Poll!Owns(d, w)'
  BY <1>1 DEF PollInv, Poll!TypeOK, Poll!First, InFlight, Poll!Goes, Poll!Owns
<1>7. /\ Cardinality(driven'[d]) <= Cardinality(driven[d])
      /\ Cardinality(driven[d]) \in Nat /\ Cardinality(driven'[d]) \in Nat
  BY <1>5, CountShrinks, WorkFinite
<1>8. ClaimFits(d)'
  BY <1>5, <1>6, <1>7, <1>1, PollAssumption DEF PollInv, LoopInv, ClaimFits
<1>9. HoldsItsOwn(d)' /\ RestsFree(d)'
  BY <1>1, <1>4, <1>5, <1>6
     DEF PollInv, LoopInv, HoldsItsOwn, RestsFree, HoldsNoMore
<1>10. ForcedStops(d)'
  <2> DEFINE left == driven[d] \ dropped[d]
  <2>1. driven'[d] \ dropped'[d] \subseteq left /\ left \subseteq Poll!Work
    BY <1>1, <1>5
  <2>2. /\ Cardinality(driven'[d] \ dropped'[d]) <= Cardinality(left)
        /\ Cardinality(driven'[d] \ dropped'[d]) \in Nat /\ Cardinality(left) \in Nat
    BY <2>1, CountShrinks, WorkFinite
  <2>3. d \in forced => Cardinality(left) <= 1
    BY DEF PollInv, LoopInv, ForcedStops
  <2> HIDE DEF left
  <2>4. d \in forced => Cardinality(driven'[d] \ dropped'[d]) <= 1
    BY <2>2, <2>3
  <2> QED
    BY <1>1, <1>5, <1>6, <2>4 DEF PollInv, LoopInv, ForcedStops
<1> QED
  BY <1>2, <1>3, <1>4, <1>5, <1>8, <1>9, <1>10, CapacityStays, OthersKept DEF LoopInv

LEMMA PollInvStep == PollInv /\ [Poll!Next]_pollVars => PollInv'
<1> SUFFICES ASSUME PollInv, [Poll!Next]_pollVars PROVE PollInv'
  OBVIOUS
<1>1. CASE UNCHANGED pollVars
  <2>1. /\ UNCHANGED <<status, holder, enabled, loop, pc, limit, batch>>
        /\ UNCHANGED <<driven, dropped, forced, losses, stalls, toggles>>
    BY <1>1 DEF pollVars
  <2>2. Poll!TypeOK'
    BY <2>1 DEF PollInv, Poll!TypeOK
  <2>3. \A d \in Workers : Untouched(d)
    BY <2>1 DEF Untouched
  <2> QED
    BY <2>1, <2>2, <2>3, LeasesStay, LoopKept DEF PollInv
<1>2. CASE \/ \E w \in Poll!Work :
                Poll!Queue(w) \/ Poll!LeaseLapses(w) \/ Poll!LeaseStalls(w)
           \/ \E r \in Runtimes : Poll!Toggle(r)
  BY <1>2, RowsMove
<1>3. ASSUME NEW d \in Workers,
             \/ Poll!Run(d) \/ Poll!Poll(d) \/ Poll!ListFails(d)
             \/ Poll!Drain(d) \/ Poll!InterruptActive(d) \/ Poll!Crash(d)
             \/ \E w \in Poll!Work : Poll!AttemptEnds(d, w) \/ Poll!HeartbeatFails(d, w)
      PROVE  PollInv'
  <2>1. \/ Turns(d) \/ Poll!Claim(d) \/ Poll!LaunchAttempt(d) \/ GivesUp(d)
        \/ Poll!WaitForActiveAttempts(d) \/ Poll!Drain(d) \/ Poll!Crash(d)
        \/ \E w \in Poll!Work : Poll!Complete(d, w)
    BY <1>3 DEF Turns, GivesUp, Poll!Poll, Poll!AttemptEnds
  <2> QED
    BY <2>1, LoopTurns, LoopClaims, LoopLaunches, LoopGivesUp, LoopEnds, LoopCrashes,
       LoopCompletes
<1> QED
  BY <1>1, <1>2, <1>3, Zenon DEF Poll!Next

LEMMA PollInvSound == PollInv => PollSound
<1> SUFFICES ASSUME PollInv PROVE PollSound
  OBVIOUS
<1>1. Poll!TypeOK /\ Poll!NoLeakedClaim
  BY DEF PollInv, LoopInv, HoldsItsOwn, Poll!NoLeakedClaim
<1>2. Poll!WithinLimits
  BY PollCounts DEF PollInv, LoopInv, ClaimFits, CapacityKept, Poll!WithinLimits
<1>3. Poll!NoneOverwritten /\ Poll!StoppedDrivesNothing
  BY DEF PollInv, LoopInv, ClaimFits, InFlight, RestsFree, Poll!NoneOverwritten,
     Poll!StoppedDrivesNothing
<1>4. Poll!ForceLeavesOne
  BY PollCounts DEF PollInv, Poll!TypeOK, LoopInv, ForcedStops, Poll!ForceLeavesOne
<1> QED
  BY <1>1, <1>2, <1>3, <1>4 DEF PollSound

(* However loops stop, crash and stall between their awaits, for any       *)
(* number of daemons, runtimes, attempts, slots and places of capacity:    *)
(* no limit is exceeded, no claim is forgotten or launched over a running  *)
(* attempt, a forced interrupt leaves at most the claim in flight, and a   *)
(* loop that has ended drives nothing.                                     *)
THEOREM LoopsAreSound == DaemonsSpec => []PollSound
<1>1. DaemonsInit => PollInv
  BY PollInvInit DEF DaemonsInit
<1>2. PollInv /\ [DaemonsNext]_<<part, vars, attemptVars, pollVars>> => PollInv'
  <2>1. [DaemonsNext]_<<part, vars, attemptVars, pollVars>> => [Poll!Next]_pollVars
    BY DEF DaemonsNext
  <2> QED
    BY <2>1, PollInvStep
<1> QED
  BY <1>1, <1>2, PollInvSound, PTL DEF DaemonsSpec

-----------------------------------------------------------------------------
(* One attempt in its clone: what its rows, its branch and the memories of *)
(* its daemons agree on, also of daemons that lost their lease.            *)

(* A receipt has the stages it went through, in their order.               *)
InOrder(r) ==
  /\ ~r.prepared => r = Attempt!NoReceipt
  /\ r.completion # "succeeded" => r.finalized = Attempt!NotYet
  /\ r.finalized \notin Attempt!Generations => r.request = Attempt!Nothing
  /\ r.request # Attempt!Nothing => r.request = r.finalized
  /\ r.cleaned => r.completion # "none" /\ Attempt!Stage(r) = "complete"

(* Nothing is left in the clone that a cleanup must keep; or there may be, *)
(* and an operator may discard it.                                         *)
MayClean(r) ==
  \/ r.completion \in {"failed", "cancelled"}
  \/ r.finalized = Attempt!Nothing \/ r.request # Attempt!Nothing
MayDiscard(r) ==
  r.completion \in {"none", "succeeded"} /\ r.finalized = Attempt!NotYet

(* The memory of a daemon is that of its step.                             *)
PreparingSteps == {"clone", "checkout", "mark", "start", "started", "running",
                   "terminal"}
CommitSteps == {"finalize", "commit", "publish", "saveFinalized"}
HeadSteps == {"saveFinalized", "request", "cleanup", "saveCleaned", "complete",
              "quarantine"}

AtItsStep(m) ==
  /\ m \in Attempt!Memories
  /\ InOrder(m.receipt)
  /\ m.pc # "idle" => m.generation # 0
  /\ m.pc = "clone" => m.seen \in {Attempt!NoBranch, Attempt!Nothing}
  /\ m.pc \in PreparingSteps => m.receipt.completion = "none"
  /\ m.pc \in {"start", "started", "running", "terminal"} => m.receipt.prepared
  /\ m.pc = "terminal" => m.outcome \in Attempt!Outcomes
  /\ m.pc \in CommitSteps => /\ m.receipt.completion = "succeeded"
                             /\ m.receipt.finalized = Attempt!NotYet
  /\ m.pc = "request" => Attempt!Stage(m.receipt) = "request"
  /\ m.pc \in {"cleanup", "saveCleaned"} => /\ m.receipt.completion # "none"
                                            /\ Attempt!Stage(m.receipt) = "cleanup"
  /\ m.pc = "complete" => m.receipt.cleaned
  /\ m.pc = "quarantine" /\ m.discardable => MayDiscard(m.receipt)
  /\ m.head # Attempt!Nothing => m.pc \in HeadSteps

(* The daemon the attempt is leased to, whether the lease has expired or   *)
(* not.                                                                    *)
Holds(d) ==
  /\ daemon[d].pc # "idle"
  /\ attempt.owner = d /\ attempt.generation = daemon[d].generation

DiscardAsked == incident.status = "action_requested" /\ incident.action = "discard"
DiscardSteps == {"discard", "resolveDiscard"}
BeforeDiscard == {"handshake", "readRecovery"} \cup DiscardSteps

(* What the memory of a daemon and the rows agree on.                      *)
AgreesWithRows(d) ==
  /\ Holds(d) => daemon[d].receipt = receipt
  /\ Holds(d) /\ DiscardAsked => daemon[d].pc \in BeforeDiscard
  /\ Holds(d) /\ daemon[d].pc \in DiscardSteps => DiscardAsked
  /\ daemon[d].cancel => job.intent
  /\ daemon[d].pc = "cleanup" => MayClean(receipt)
  /\ daemon[d].head # Attempt!Nothing => daemon[d].head = proposal

(* What the rows, the clone and the branch agree on.                       *)
AttemptTyped ==
  /\ job \in [status: {"queued", "running", "waiting_input", "blocked",
                       "cancel_requested"} \cup Attempt!Outcomes,
              intent: BOOLEAN]
  /\ attempt \in [status: {"pending", "running", "waiting_input",
                           "quarantined"} \cup Attempt!Outcomes,
                  generation: 0 .. MaxGeneration,
                  owner: Workers \cup {NoDaemon}, live: BOOLEAN,
                  run: 0 .. MaxGeneration, asked: 0 .. MaxGeneration,
                  answer: 0 .. MaxGeneration]
  /\ receipt \in Attempt!Receipts
  /\ incident \in [status: {"none", "open", "action_requested", "resolved"},
                   action: {"none", "retry", "discard"},
                   discardable: BOOLEAN]
  /\ clone \in [state: Attempt!CloneStates, commit: 0 .. MaxGeneration]
  /\ proposal \in Attempt!NoBranch .. MaxGeneration
  /\ faults \in 0 .. MaxFaults
  /\ reasons \in Nat

RowsAgree ==
  /\ InOrder(receipt)
  /\ attempt.status # "running" => attempt.owner = NoDaemon
  /\ job.status = "waiting_input" => attempt.status = "waiting_input"
  /\ job.status = "cancel_requested" => job.intent
  /\ job.status = "succeeded" => receipt.completion = "succeeded" /\ receipt.cleaned
  /\ incident.status = "open" =>
       attempt.status = "quarantined" /\ job.status \in {"blocked", "cancelled"}
  /\ incident.status = "open" /\ incident.discardable => MayDiscard(receipt)
  /\ DiscardAsked => MayDiscard(receipt)

CloneAgrees ==
  /\ clone.state \in {"head", "drifted"} => clone.commit # Attempt!Nothing
  /\ proposal \in Attempt!Generations =>
       /\ clone.state \in {"head", "drifted", "absent"}
       /\ clone.state # "absent" => clone.commit = proposal
  /\ receipt.finalized \in Attempt!Generations => proposal = receipt.finalized

RequestRecorded ==
  requests = IF receipt.request = Attempt!Nothing THEN {} ELSE {receipt.request}

RowsInv == AttemptTyped /\ RowsAgree /\ CloneAgrees /\ RequestRecorded

AttemptInv ==
  /\ daemon \in [Workers -> Attempt!Memories]
  /\ RowsInv
  /\ \A d \in Workers : AtItsStep(daemon[d]) /\ AgreesWithRows(d)

-----------------------------------------------------------------------------
(* What every step has in common.                                          *)

LEMMA AttemptConstants ==
  /\ MaxGeneration \in Nat \ {0} /\ MaxFaults \in Nat
  /\ NativeResume \in BOOLEAN /\ NoDaemon \notin Workers
BY AttemptAssumption DEF Attempt!WorkspaceAssumption

LEMMA IdleAtItsStep == AtItsStep(Attempt!Idle)
BY AttemptConstants
   DEF AtItsStep, Attempt!Idle, Attempt!Memories, Attempt!NoReceipt, Attempt!Receipts,
       InOrder, Attempt!Nothing, Attempt!NotYet, Attempt!NoBranch, Attempt!Outcomes,
       Attempt!Generations, PreparingSteps, CommitSteps, HeadSteps

(* A step of one daemon that takes nothing back from what others rely on.  *)
LEMMA DaemonStepSound ==
  ASSUME AttemptInv, NEW d \in Workers, NEW n, AtItsStep(n),
         daemon' = [daemon EXCEPT ![d] = n], RowsInv',
         job.intent => job'.intent,
         proposal \in Attempt!Generations => UNCHANGED proposal,
         MayClean(receipt) => MayClean(receipt'),
         \A e \in Workers \ {d} : Holds(e)' => Holds(e) /\ UNCHANGED <<receipt, incident>>,
         AgreesWithRows(d)'
  PROVE  AttemptInv'
<1>1. daemon' \in [Workers -> Attempt!Memories]
  BY DEF AttemptInv, AtItsStep
<1>2. daemon'[d] = n /\ \A e \in Workers \ {d} : daemon'[e] = daemon[e]
  BY DEF AttemptInv
<1>3. ASSUME NEW e \in Workers \ {d} PROVE AgreesWithRows(e)'
  <2>1. AgreesWithRows(e) /\ daemon'[e] = daemon[e] /\ daemon[e] \in Attempt!Memories
        /\ proposal \in Attempt!NoBranch .. MaxGeneration
    BY <1>2 DEF AttemptInv, RowsInv, AttemptTyped
  <2>2. daemon[e].head # Attempt!Nothing => daemon'[e].head = proposal'
    <3>1. daemon[e].head \in 0 .. MaxGeneration
      BY <2>1 DEF Attempt!Memories
    <3>2. daemon[e].head # Attempt!Nothing => daemon[e].head = proposal
      BY <2>1 DEF AgreesWithRows
    <3>3. daemon[e].head # Attempt!Nothing => proposal \in Attempt!Generations
      BY <3>1, <3>2, AttemptConstants DEF Attempt!Generations, Attempt!Nothing
    <3> QED
      BY <2>1, <3>2, <3>3
  <2>3. daemon[e].pc = "cleanup" => MayClean(receipt)'
    BY <2>1 DEF AgreesWithRows, MayClean
  <2>4. Holds(e)' => Holds(e) /\ receipt' = receipt /\ (DiscardAsked' <=> DiscardAsked)
    BY DEF DiscardAsked
  <2> QED
    BY <2>1, <2>2, <2>3, <2>4 DEF AgreesWithRows
<1> QED
  BY <1>1, <1>2, <1>3 DEF AttemptInv

LEMMA AttemptRowsKept ==
  ASSUME RowsInv,
         UNCHANGED <<job, attempt, receipt, incident, clone, proposal, requests>>,
         faults' \in 0 .. MaxFaults, reasons' \in Nat
  PROVE  RowsInv'
<1>1. AttemptTyped'
  BY DEF RowsInv, AttemptTyped
<1>2. RowsAgree' /\ CloneAgrees' /\ RequestRecorded'
  BY DEF RowsInv, RowsAgree, CloneAgrees, RequestRecorded, DiscardAsked
<1> QED
  BY <1>1, <1>2 DEF RowsInv

(* A daemon stops, or goes to a step with the receipt it has.              *)
GoesOn(d, n) ==
  \/ n = Attempt!Idle
  \/ /\ daemon[d].pc # "idle"
     /\ n.generation = daemon[d].generation /\ n.receipt = daemon[d].receipt
     /\ n.cancel => daemon[d].cancel \/ job.intent
     /\ n.head # Attempt!Nothing => n.head = daemon[d].head
     /\ n.pc = "cleanup" => daemon[d].pc = "cleanup"
     /\ Holds(d) /\ DiscardAsked => n.pc \in BeforeDiscard
     /\ Holds(d) /\ n.pc \in DiscardSteps => DiscardAsked

LEMMA MemoryMoves ==
  ASSUME AttemptInv, NEW d \in Workers, NEW n, AtItsStep(n), GoesOn(d, n),
         daemon' = [daemon EXCEPT ![d] = n],
         UNCHANGED <<job, attempt, receipt, incident, clone, proposal, requests>>,
         faults' \in 0 .. MaxFaults, reasons' \in Nat
  PROVE  AttemptInv'
<1>1. RowsInv'
  BY AttemptRowsKept DEF AttemptInv
<1>2. daemon'[d] = n /\ \A e \in Workers \ {d} : daemon'[e] = daemon[e]
  BY DEF AttemptInv
<1>3. \A e \in Workers \ {d} : Holds(e)' => Holds(e)
  BY <1>2 DEF Holds
<1>4. AgreesWithRows(d)'
  <2>1. CASE n = Attempt!Idle
    BY <1>2, <2>1 DEF AgreesWithRows, Holds, Attempt!Idle, DiscardSteps, Attempt!Nothing
  <2>2. CASE n # Attempt!Idle
    <3>1. Holds(d)' => Holds(d)
      BY <1>2, <2>2 DEF GoesOn, Holds
    <3>2. DiscardAsked' <=> DiscardAsked
      BY DEF DiscardAsked
    <3> QED
      BY <1>2, <2>2, <3>1, <3>2 DEF AttemptInv, AgreesWithRows, GoesOn, MayClean
  <2> QED
    BY <2>1, <2>2
<1>5. MayClean(receipt) => MayClean(receipt')
  BY DEF MayClean
<1> QED
  BY <1>1, <1>3, <1>4, <1>5, DaemonStepSound

(* The memory of a daemon that is at work.                                 *)
LEMMA AtWork ==
  ASSUME AttemptInv, NEW d \in Workers
  PROVE  /\ AtItsStep(daemon[d]) /\ AgreesWithRows(d)
         /\ daemon[d] \in Attempt!Memories /\ RowsInv
BY DEF AttemptInv

LEMMA IdleGoesOn == ASSUME NEW d PROVE GoesOn(d, Attempt!Idle)
BY DEF GoesOn

LEMMA StopSound ==
  ASSUME AttemptInv, NEW d \in Workers, Attempt!Stop(d),
         UNCHANGED <<job, attempt, receipt, incident, clone, proposal, requests>>,
         faults' \in 0 .. MaxFaults, reasons' \in Nat
  PROVE  AttemptInv'
BY IdleAtItsStep, IdleGoesOn, MemoryMoves DEF Attempt!Stop, Attempt!Move

LEMMA Counted == ASSUME AttemptInv PROVE faults \in 0 .. MaxFaults /\ reasons \in Nat
BY DEF AttemptInv, RowsInv, AttemptTyped

LEMMA FencedSound ==
  ASSUME AttemptInv, NEW d \in Workers, Attempt!FencedOut(d)
  PROVE  AttemptInv'
BY StopSound, Counted DEF Attempt!FencedOut, Attempt!durable, Attempt!git

(* A workspace that cannot go on: what an operator may discard is not      *)
(* finalized.                                                              *)
LEMMA FailureSound ==
  ASSUME AttemptInv, NEW d \in Workers, daemon[d].pc # "idle",
         daemon[d].pc \notin BeforeDiscard, daemon[d].head = Attempt!Nothing
                                            \/ daemon[d].pc \in HeadSteps,
         clone.state = "dirty" => MayDiscard(daemon[d].receipt)
  PROVE  AtItsStep(Attempt!AfterFailure(d)) /\ GoesOn(d, Attempt!AfterFailure(d))
<1> DEFINE given(b) == [[daemon[d] EXCEPT !.pc = "quarantine"] EXCEPT !.discardable = b]
<1>1. AtItsStep(daemon[d]) /\ AgreesWithRows(d)
  BY AtWork
<1>2. ~(Holds(d) /\ DiscardAsked)
  BY <1>1 DEF AgreesWithRows
<1>3. ASSUME NEW b \in BOOLEAN, b => MayDiscard(daemon[d].receipt)
      PROVE  AtItsStep(given(b)) /\ GoesOn(d, given(b))
  <2>1. /\ given(b) \in Attempt!Memories
        /\ given(b).pc = "quarantine" /\ given(b).discardable = b
        /\ given(b).receipt = daemon[d].receipt /\ given(b).generation = daemon[d].generation
        /\ given(b).cancel = daemon[d].cancel /\ given(b).head = daemon[d].head
    BY <1>1, <1>3 DEF AtItsStep, Attempt!Memories, Attempt!StoreSteps
  <2> HIDE DEF given
  <2>2. AtItsStep(given(b))
    BY <1>1, <1>3, <2>1
       DEF AtItsStep, PreparingSteps, CommitSteps, HeadSteps
  <2>3. GoesOn(d, given(b))
    BY <1>2, <2>1 DEF GoesOn, DiscardSteps
  <2> QED
    BY <2>2, <2>3
<1>4. \/ Attempt!AfterFailure(d) = Attempt!Idle
      \/ Attempt!AfterFailure(d) = given(FALSE)
      \/ clone.state = "dirty" /\ Attempt!AfterFailure(d) = given(TRUE)
  BY DEF Attempt!AfterFailure, Attempt!To
<1> HIDE DEF given
<1> QED
  BY <1>3, <1>4, IdleAtItsStep, IdleGoesOn

(* A daemon that was told to stop stops, the others go on.                 *)
LEMMA ContinueSound ==
  ASSUME AttemptInv, NEW d \in Workers, NEW n, AtItsStep(n), GoesOn(d, n),
         Attempt!Continue(d, n) \/ Attempt!Move(d, n),
         UNCHANGED <<job, attempt, receipt, incident, clone, proposal, requests>>,
         faults' \in 0 .. MaxFaults, reasons' \in Nat
  PROVE  AttemptInv'
<1>1. PICK k \in {n, Attempt!Idle} : daemon' = [daemon EXCEPT ![d] = k]
  BY DEF Attempt!Continue, Attempt!Move
<1> QED
  BY <1>1, MemoryMoves, IdleAtItsStep, IdleGoesOn

-----------------------------------------------------------------------------
(* Steps that only the memory of a daemon sees.                            *)

LEMMA HandshakeSound ==
  ASSUME AttemptInv, NEW d \in Workers, Attempt!Handshake(d)
  PROVE  AttemptInv'
<1>1. CASE Attempt!FencedOut(d)
  BY <1>1, FencedSound
<1>2. CASE ~Attempt!FencedOut(d)
  <2> DEFINE b == daemon[d].cancel \/ job.status = "cancel_requested"
             n == [[daemon[d] EXCEPT !.pc = "readRecovery"] EXCEPT !.cancel = b]
  <2>1. /\ daemon[d].pc = "handshake" /\ Attempt!Move(d, n)
        /\ UNCHANGED <<job, attempt, receipt, incident, clone, proposal, requests>>
        /\ UNCHANGED <<faults, reasons>>
    BY <1>2, AtWork DEF Attempt!Handshake, Attempt!At, Attempt!To, Attempt!durable, Attempt!git,
       Attempt!Memories
  <2>2. AtItsStep(daemon[d]) /\ AgreesWithRows(d) /\ RowsInv
    BY AtWork
  <2>3. b \in BOOLEAN /\ (b => daemon[d].cancel \/ job.intent)
    BY <2>2 DEF RowsInv, RowsAgree, AtItsStep, Attempt!Memories
  <2> HIDE DEF b
  <2>4. /\ n \in Attempt!Memories /\ n.pc = "readRecovery" /\ n.cancel = b
        /\ n.receipt = daemon[d].receipt /\ n.generation = daemon[d].generation
        /\ n.head = daemon[d].head
    BY <2>2, <2>3 DEF AtItsStep, Attempt!Memories, Attempt!StoreSteps
  <2> HIDE DEF n
  <2>5. AtItsStep(n)
    BY <2>1, <2>2, <2>4 DEF AtItsStep, PreparingSteps, CommitSteps, HeadSteps
  <2>6. GoesOn(d, n)
    BY <2>1, <2>2, <2>3, <2>4 DEF GoesOn, BeforeDiscard, DiscardSteps, AtItsStep, HeadSteps
  <2> QED
    BY <2>1, <2>5, <2>6, ContinueSound, Counted
<1> QED
  BY <1>1, <1>2

(* What a heartbeat changes is not looked at by any step.                  *)
LEMMA HeartbeatCancelsSound ==
  ASSUME AttemptInv, NEW d \in Workers, Attempt!HeartbeatCancels(d)
  PROVE  AttemptInv'
<1>1. /\ UNCHANGED <<job, attempt, receipt, incident, clone, proposal, requests>>
      /\ UNCHANGED <<faults, reasons>> /\ job.status = "cancel_requested"
      /\ daemon[d].pc \notin {"idle", "handshake"}
  BY DEF Attempt!HeartbeatCancels, Attempt!durable, Attempt!git, Attempt!At
<1>2. AtItsStep(daemon[d]) /\ AgreesWithRows(d) /\ RowsInv /\ job.intent
  BY <1>1, AtWork DEF RowsInv, RowsAgree
<1>3. CASE daemon[d].pc \in Attempt!RunSteps
  <2> DEFINE n == [[daemon[d] EXCEPT !.pc = "terminal"] EXCEPT
                     !.cancel = TRUE, !.live = FALSE, !.outcome = "cancelled"]
  <2>1. Attempt!Move(d, n)
    BY <1>3 DEF Attempt!HeartbeatCancels, Attempt!To
  <2>2. /\ n \in Attempt!Memories /\ n.pc = "terminal" /\ n.outcome = "cancelled"
        /\ n.receipt = daemon[d].receipt /\ n.generation = daemon[d].generation
        /\ n.head = daemon[d].head
    BY <1>2 DEF AtItsStep, Attempt!Memories, Attempt!StoreSteps, Attempt!Outcomes
  <2> HIDE DEF n
  <2>3. AtItsStep(n)
    BY <1>2, <1>3, <2>2 DEF AtItsStep, PreparingSteps, CommitSteps, HeadSteps,
       Attempt!RunSteps, Attempt!Outcomes
  <2>4. ~(Holds(d) /\ DiscardAsked)
    BY <1>2, <1>3 DEF AgreesWithRows, Attempt!RunSteps, BeforeDiscard, DiscardSteps
  <2>5. GoesOn(d, n)
    BY <1>1, <1>2, <2>2, <2>4 DEF GoesOn, DiscardSteps
  <2> QED
    BY <1>1, <2>1, <2>3, <2>5, ContinueSound, Counted
<1>4. CASE daemon[d].pc \notin Attempt!RunSteps
  <2> DEFINE n == [daemon[d] EXCEPT !.cancel = TRUE]
  <2>1. Attempt!Move(d, n)
    BY <1>4 DEF Attempt!HeartbeatCancels
  <2>2. /\ n \in Attempt!Memories /\ n.pc = daemon[d].pc /\ n.outcome = daemon[d].outcome
        /\ n.receipt = daemon[d].receipt /\ n.generation = daemon[d].generation
        /\ n.head = daemon[d].head /\ n.seen = daemon[d].seen
        /\ n.discardable = daemon[d].discardable
    BY <1>2 DEF AtItsStep, Attempt!Memories
  <2> HIDE DEF n
  <2>3. AtItsStep(n)
    BY <1>2, <2>2 DEF AtItsStep
  <2>4. GoesOn(d, n)
    BY <1>1, <1>2, <2>2 DEF GoesOn, AgreesWithRows
  <2> QED
    BY <1>1, <2>1, <2>3, <2>4, ContinueSound, Counted
<1> QED
  BY <1>3, <1>4

(* An operation on Git that has begun runs to its end.                     *)
LEMMA AbandonSound ==
  ASSUME AttemptInv, NEW d \in Workers, daemon[d].pc # "idle",
         Attempt!Move(d, Attempt!Abandoned(d)),
         UNCHANGED <<job, attempt, receipt, incident, clone, proposal, requests>>,
         faults' \in 0 .. MaxFaults, reasons' \in Nat
  PROVE  AttemptInv'
<1>1. AtItsStep(daemon[d]) /\ AgreesWithRows(d)
  BY AtWork
<1>2. CASE daemon[d].pc \in Attempt!GitSteps
  <2> DEFINE n == [daemon[d] EXCEPT !.allow = FALSE, !.live = FALSE]
  <2>1. Attempt!Move(d, n)
    BY <1>2 DEF Attempt!Abandoned
  <2>2. /\ n \in Attempt!Memories /\ n.pc = daemon[d].pc /\ n.outcome = daemon[d].outcome
        /\ n.receipt = daemon[d].receipt /\ n.generation = daemon[d].generation
        /\ n.head = daemon[d].head /\ n.seen = daemon[d].seen
        /\ n.discardable = daemon[d].discardable /\ n.cancel = daemon[d].cancel
    BY <1>1 DEF AtItsStep, Attempt!Memories
  <2> HIDE DEF n
  <2>3. AtItsStep(n)
    BY <1>1, <2>2 DEF AtItsStep
  <2>4. GoesOn(d, n)
    BY <1>1, <2>2 DEF GoesOn, AgreesWithRows
  <2> QED
    BY <2>1, <2>3, <2>4, ContinueSound
<1>3. CASE daemon[d].pc \notin Attempt!GitSteps
  BY <1>3, StopSound DEF Attempt!Abandoned, Attempt!Stop
<1> QED
  BY <1>2, <1>3

LEMMA HeartbeatSound ==
  ASSUME AttemptInv, NEW d \in Workers,
         Attempt!HeartbeatFenced(d) \/ Attempt!HeartbeatFails(d) \/ Attempt!Crash(d)
  PROVE  AttemptInv'
<1>1. /\ UNCHANGED <<job, attempt, receipt, incident, clone, proposal, requests>>
      /\ daemon[d].pc # "idle"
      /\ Attempt!Move(d, Attempt!Abandoned(d)) \/ Attempt!Stop(d)
  BY DEF Attempt!HeartbeatFenced, Attempt!HeartbeatFails, Attempt!Crash, Attempt!durable,
     Attempt!git, Attempt!At
<1>2. faults' \in 0 .. MaxFaults /\ reasons' \in Nat
  BY Counted, AttemptConstants
     DEF Attempt!HeartbeatFenced, Attempt!HeartbeatFails, Attempt!Crash
<1> QED
  BY <1>1, <1>2, AbandonSound, StopSound

(* The native run starts, and ends.                                        *)
LEMMA RunSound ==
  ASSUME AttemptInv, NEW d \in Workers,
         \/ Attempt!StartRun(d)
         \/ \E outcome \in {"succeeded", "failed"} : Attempt!RunEnds(d, outcome)
  PROVE  AttemptInv'
<1>1. /\ UNCHANGED <<job, attempt, receipt, incident, clone, proposal, requests>>
      /\ UNCHANGED <<faults, reasons>> /\ daemon[d].pc \in {"start", "running"}
  BY DEF Attempt!StartRun, Attempt!RunEnds, Attempt!durable, Attempt!git, Attempt!At
<1>2. AtItsStep(daemon[d]) /\ AgreesWithRows(d)
  BY AtWork
<1>3. PICK n : /\ Attempt!Move(d, n)
               /\ \/ \E o \in {"succeeded", "failed"} :
                       n = [[daemon[d] EXCEPT !.pc = "terminal"] EXCEPT
                              !.live = FALSE, !.outcome = o]
                  \/ n = [daemon[d] EXCEPT !.pc = "terminal", !.outcome = "failed"]
                  \/ n = [daemon[d] EXCEPT !.pc = "running", !.live = TRUE,
                                           !.run = daemon[d].claimRun]
                  \/ n = [daemon[d] EXCEPT !.pc = "started", !.live = TRUE,
                                           !.run = daemon[d].generation]
  BY DEF Attempt!StartRun, Attempt!RunEnds, Attempt!To
<1>4. /\ n \in Attempt!Memories /\ n.pc \in {"terminal", "running", "started"}
      /\ n.pc = "terminal" => n.outcome \in Attempt!Outcomes
      /\ n.receipt = daemon[d].receipt /\ n.generation = daemon[d].generation
      /\ n.head = daemon[d].head /\ n.cancel = daemon[d].cancel
  BY <1>2, <1>3 DEF AtItsStep, Attempt!Memories, Attempt!StoreSteps, Attempt!Outcomes,
     Attempt!RunSteps
<1>5. AtItsStep(n)
  BY <1>1, <1>2, <1>4 DEF AtItsStep, PreparingSteps, CommitSteps, HeadSteps
<1>6. GoesOn(d, n)
  BY <1>1, <1>2, <1>4 DEF GoesOn, AgreesWithRows, BeforeDiscard, DiscardSteps
<1> QED
  BY <1>1, <1>3, <1>5, <1>6, ContinueSound, Counted

-----------------------------------------------------------------------------
(* Steps that look at the rows or at the clone.                            *)

LEMMA ToIs ==
  ASSUME NEW d, daemon[d] \in Attempt!Memories,
         NEW p \in Attempt!GitSteps \cup Attempt!StoreSteps \cup Attempt!RunSteps
  PROVE  /\ Attempt!To(d, p) \in Attempt!Memories /\ Attempt!To(d, p).pc = p
         /\ Attempt!To(d, p).receipt = daemon[d].receipt
         /\ Attempt!To(d, p).generation = daemon[d].generation
         /\ Attempt!To(d, p).cancel = daemon[d].cancel
         /\ Attempt!To(d, p).head = daemon[d].head
         /\ Attempt!To(d, p).outcome = daemon[d].outcome
         /\ Attempt!To(d, p).seen = daemon[d].seen
         /\ Attempt!To(d, p).discardable = daemon[d].discardable
BY DEF Attempt!To, Attempt!Memories

(* A daemon goes to a step that asks nothing of its memory.                *)
LEMMA ToSound ==
  ASSUME AttemptInv, NEW d \in Workers, daemon[d].pc # "idle",
         daemon[d].pc \notin BeforeDiscard, daemon[d].pc \notin HeadSteps,
         NEW p \in {"prepare", "save", "resolveRetry"}
  PROVE  AtItsStep(Attempt!To(d, p)) /\ GoesOn(d, Attempt!To(d, p))
<1>1. AtItsStep(daemon[d]) /\ AgreesWithRows(d) /\ daemon[d] \in Attempt!Memories
  BY AtWork
<1>2. p \in Attempt!GitSteps \cup Attempt!StoreSteps \cup Attempt!RunSteps
  BY DEF Attempt!GitSteps, Attempt!StoreSteps
<1>3. AtItsStep(Attempt!To(d, p))
  BY <1>1, <1>2, ToIs DEF AtItsStep, PreparingSteps, CommitSteps, HeadSteps
<1>4. ~(Holds(d) /\ DiscardAsked)
  BY <1>1 DEF AgreesWithRows
<1> QED
  BY <1>1, <1>2, <1>3, <1>4, ToIs DEF GoesOn, DiscardSteps

LEMMA ReadRecoverySound ==
  ASSUME AttemptInv, NEW d \in Workers, Attempt!ReadRecovery(d)
  PROVE  AttemptInv'
<1>1. CASE Attempt!FencedOut(d)
  BY <1>1, FencedSound
<1>2. CASE ~Attempt!FencedOut(d)
  <2> DEFINE asked == incident.status = "action_requested"
             b == daemon[d].cancel \/ (asked /\ job.intent)
             saw == [daemon[d] EXCEPT !.cancel = b]
  <2>1. AtItsStep(daemon[d]) /\ AgreesWithRows(d) /\ daemon[d] \in Attempt!Memories
        /\ job.intent \in BOOLEAN
    BY AtWork DEF RowsInv, AttemptTyped
  <2>2. b \in BOOLEAN /\ (b => daemon[d].cancel \/ job.intent)
    BY <2>1 DEF Attempt!Memories
  <2>3. /\ saw.receipt = daemon[d].receipt
        /\ saw = [daemon[d] EXCEPT !.cancel = @ \/ (asked /\ job.intent)]
    BY <2>1 DEF Attempt!Memories
  <2>4. /\ daemon[d].pc = "readRecovery"
        /\ UNCHANGED <<job, attempt, receipt, incident, clone, proposal, requests>>
        /\ UNCHANGED <<faults, reasons>>
    BY <1>2 DEF Attempt!ReadRecovery, Attempt!At, Attempt!durable, Attempt!git
  <2>5. PICK n : /\ Attempt!Move(d, n)
                 /\ \/ n = Attempt!Idle
                    \/ n = [saw EXCEPT !.pc = "discard"] /\ DiscardAsked
                    \/ n = [saw EXCEPT !.pc = "prepare"] /\ ~DiscardAsked
                    \/ n = [saw EXCEPT !.pc = "recover"] /\ ~DiscardAsked
                    \/ n = [saw EXCEPT !.pc = "prepare", !.pending = TRUE] /\ ~DiscardAsked
    BY <1>2, <2>3 DEF Attempt!ReadRecovery, DiscardAsked
  <2> HIDE DEF b, asked
  <2>6. CASE n # Attempt!Idle
    <3>1. /\ n \in Attempt!Memories /\ n.pc \in {"discard", "prepare", "recover"}
          /\ n.receipt = daemon[d].receipt /\ n.generation = daemon[d].generation
          /\ n.head = daemon[d].head /\ n.cancel = b
      BY <2>1, <2>2, <2>5, <2>6 DEF Attempt!Memories, Attempt!GitSteps
    <3>2. n.pc = "discard" <=> DiscardAsked
      BY <2>1, <2>5, <2>6 DEF Attempt!Memories
    <3> HIDE DEF saw
    <3>3. AtItsStep(n)
      BY <2>1, <2>4, <3>1 DEF AtItsStep, PreparingSteps, CommitSteps, HeadSteps
    <3>4. GoesOn(d, n)
      BY <2>1, <2>2, <2>4, <3>1, <3>2 DEF GoesOn, AgreesWithRows, BeforeDiscard, DiscardSteps
    <3> QED
      BY <2>4, <2>5, <3>3, <3>4, ContinueSound, Counted
  <2> QED
    BY <2>4, <2>5, <2>6, StopSound, Counted DEF Attempt!Stop
<1> QED
  BY <1>1, <1>2

LEMMA RecoverSound ==
  ASSUME AttemptInv, NEW d \in Workers, Attempt!RecoverSuspended(d)
  PROVE  AttemptInv'
<1>1. /\ daemon[d].pc = "recover"
      /\ UNCHANGED <<job, attempt, receipt, incident, clone, proposal, requests>>
      /\ UNCHANGED <<faults, reasons>>
      /\ \/ Attempt!Move(d, Attempt!To(d, "resolveRetry"))
         \/ clone.state # "dirty" /\ Attempt!Move(d, Attempt!AfterFailure(d))
  BY DEF Attempt!RecoverSuspended, Attempt!At, Attempt!durable, Attempt!git
<1>2. daemon[d].head = Attempt!Nothing
  BY <1>1, AtWork DEF AtItsStep, HeadSteps
<1>3. AtItsStep(Attempt!To(d, "resolveRetry")) /\ GoesOn(d, Attempt!To(d, "resolveRetry"))
  BY <1>1, ToSound DEF BeforeDiscard, DiscardSteps, HeadSteps
<1>4. CASE clone.state # "dirty"
  <2>1. AtItsStep(Attempt!AfterFailure(d)) /\ GoesOn(d, Attempt!AfterFailure(d))
    BY <1>1, <1>2, <1>4, FailureSound DEF BeforeDiscard, DiscardSteps
  <2> QED
    BY <1>1, <1>3, <2>1, ContinueSound, Counted
<1> QED
  BY <1>1, <1>3, <1>4, ContinueSound, Counted

(* Until its receipt is completed nothing is finalized.                    *)
LEMMA UndecidedMayDiscard ==
  ASSUME NEW r, InOrder(r), r.completion = "none"
  PROVE  MayDiscard(r)
BY DEF InOrder, MayDiscard

Preparation == {"prepare", "clone", "checkout", "mark"}

LEMMA PreparationSound ==
  ASSUME AttemptInv, NEW d \in Workers, daemon[d].pc \in Preparation
  PROVE  /\ AtItsStep(Attempt!Prepared(d)) /\ GoesOn(d, Attempt!Prepared(d))
         /\ daemon[d].receipt.completion = "none" =>
              AtItsStep(Attempt!AfterFailure(d)) /\ GoesOn(d, Attempt!AfterFailure(d))
<1>1. daemon[d].head = Attempt!Nothing /\ InOrder(daemon[d].receipt)
  BY AtWork DEF AtItsStep, HeadSteps, Preparation
<1>2. daemon[d].pc # "idle" /\ daemon[d].pc \notin BeforeDiscard /\ daemon[d].pc \notin HeadSteps
  BY DEF BeforeDiscard, DiscardSteps, HeadSteps, Preparation
<1> QED
  BY <1>1, <1>2, ToSound, FailureSound, UndecidedMayDiscard DEF Attempt!Prepared

LEMMA PrepareFailsSound ==
  ASSUME AttemptInv, NEW d \in Workers, daemon[d].pc \in Preparation \ {"prepare"},
         Attempt!PrepareFails(d)
  PROVE  AttemptInv'
<1>1. /\ UNCHANGED <<job, attempt, receipt, incident, clone, proposal, requests>>
      /\ UNCHANGED <<faults, reasons>>
      /\ \/ Attempt!Move(d, Attempt!Prepared(d)) \/ Attempt!Move(d, Attempt!AfterFailure(d))
         \/ Attempt!Stop(d)
  BY DEF Attempt!PrepareFails, Attempt!durable, Attempt!git, Attempt!Stop
<1>2. daemon[d].receipt.completion = "none" /\ daemon[d].pc \in Preparation
  BY AtWork DEF AtItsStep, PreparingSteps, Preparation
<1> QED
  BY <1>1, <1>2, PreparationSound, ContinueSound, StopSound, Counted

LEMMA PrepareSound ==
  ASSUME AttemptInv, NEW d \in Workers, Attempt!Prepare(d)
  PROVE  AttemptInv'
<1> DEFINE n == [Attempt!To(d, "clone") EXCEPT !.seen = proposal]
<1>1. /\ daemon[d].pc = "prepare"
      /\ UNCHANGED <<job, attempt, receipt, incident, clone, proposal, requests>>
      /\ UNCHANGED <<faults, reasons>>
      /\ \/ Attempt!Continue(d, Attempt!Prepared(d))
         \/ /\ daemon[d].receipt.completion = "none"
            /\ proposal \in {Attempt!NoBranch, Attempt!Nothing} /\ Attempt!Move(d, n)
         \/ /\ daemon[d].receipt.completion = "none"
            /\ Attempt!Move(d, Attempt!AfterFailure(d))
  BY DEF Attempt!Prepare, Attempt!At, Attempt!durable, Attempt!git
<1>2. AtItsStep(daemon[d]) /\ AgreesWithRows(d) /\ daemon[d] \in Attempt!Memories
      /\ proposal \in Attempt!NoBranch .. MaxGeneration
  BY AtWork DEF RowsInv, AttemptTyped
<1>3. /\ Attempt!To(d, "clone") \in Attempt!Memories /\ Attempt!To(d, "clone").pc = "clone"
      /\ Attempt!To(d, "clone").receipt = daemon[d].receipt
      /\ Attempt!To(d, "clone").generation = daemon[d].generation
      /\ Attempt!To(d, "clone").cancel = daemon[d].cancel
      /\ Attempt!To(d, "clone").head = daemon[d].head
  BY <1>2, ToIs DEF Attempt!GitSteps
<1>4. /\ n \in Attempt!Memories /\ n.pc = "clone" /\ n.seen = proposal
      /\ n.receipt = daemon[d].receipt /\ n.generation = daemon[d].generation
      /\ n.cancel = daemon[d].cancel /\ n.head = daemon[d].head
  BY <1>2, <1>3 DEF Attempt!Memories
<1> HIDE DEF n
<1>5. CASE Attempt!Move(d, n) /\ daemon[d].receipt.completion = "none"
           /\ proposal \in {Attempt!NoBranch, Attempt!Nothing}
  <2>1. AtItsStep(n)
    BY <1>1, <1>2, <1>4, <1>5 DEF AtItsStep, PreparingSteps, CommitSteps, HeadSteps
  <2>2. GoesOn(d, n)
    BY <1>1, <1>2, <1>4 DEF GoesOn, AgreesWithRows, BeforeDiscard, DiscardSteps
  <2> QED
    BY <1>1, <1>5, <2>1, <2>2, ContinueSound, Counted
<1>6. daemon[d].pc \in Preparation
  BY <1>1 DEF Preparation
<1> QED
  BY <1>1, <1>5, <1>6, PreparationSound, ContinueSound, Counted

LEMMA FinalizeSound ==
  ASSUME AttemptInv, NEW d \in Workers, Attempt!Finalize(d)
  PROVE  AttemptInv'
<1>1. /\ daemon[d].pc = "finalize"
      /\ UNCHANGED <<job, attempt, receipt, incident, clone, proposal, requests>>
      /\ UNCHANGED <<faults, reasons>>
      /\ \/ Attempt!Continue(d, Attempt!To(d, "saveFinalized"))
         \/ Attempt!Move(d, Attempt!To(d, "commit")) \/ Attempt!Move(d, Attempt!To(d, "publish"))
         \/ clone.state # "dirty" /\ Attempt!Move(d, Attempt!AfterFailure(d))
  BY DEF Attempt!Finalize, Attempt!At, Attempt!durable, Attempt!git
<1>2. AtItsStep(daemon[d]) /\ AgreesWithRows(d) /\ daemon[d] \in Attempt!Memories
      /\ daemon[d].head = Attempt!Nothing
  BY <1>1, AtWork DEF AtItsStep, HeadSteps
<1>3. ASSUME NEW p \in {"saveFinalized", "commit", "publish"}
      PROVE  AtItsStep(Attempt!To(d, p)) /\ GoesOn(d, Attempt!To(d, p))
  <2>1. p \in Attempt!GitSteps \cup Attempt!StoreSteps \cup Attempt!RunSteps
    BY DEF Attempt!GitSteps, Attempt!StoreSteps
  <2>2. AtItsStep(Attempt!To(d, p))
    BY <1>1, <1>2, <2>1, ToIs DEF AtItsStep, PreparingSteps, CommitSteps, HeadSteps
  <2> QED
    BY <1>1, <1>2, <2>1, <2>2, ToIs DEF GoesOn, AgreesWithRows, BeforeDiscard, DiscardSteps
<1>4. CASE clone.state # "dirty"
  <2>1. AtItsStep(Attempt!AfterFailure(d)) /\ GoesOn(d, Attempt!AfterFailure(d))
    BY <1>1, <1>2, <1>4, FailureSound DEF BeforeDiscard, DiscardSteps
  <2> QED
    BY <1>1, <1>3, <2>1, ContinueSound, Counted
<1> QED
  BY <1>1, <1>3, <1>4, ContinueSound, Counted

-----------------------------------------------------------------------------
(* Operations on Git, which do not look at the lease.                      *)

CloneRows == [state : Attempt!CloneStates, commit : 0 .. MaxGeneration]

LEMMA CloneIs ==
  ASSUME AttemptInv
  PROVE  /\ clone \in CloneRows /\ CloneAgrees
         /\ proposal \in Attempt!NoBranch .. MaxGeneration
BY DEF AttemptInv, RowsInv, AttemptTyped, CloneRows

LEMMA CloneRowsKept ==
  ASSUME AttemptInv, UNCHANGED <<job, attempt, receipt, incident, requests>>,
         clone' \in CloneRows, proposal' \in Attempt!NoBranch .. MaxGeneration,
         CloneAgrees', UNCHANGED <<faults, reasons>>
  PROVE  RowsInv'
<1>1. AttemptTyped'
  BY DEF AttemptInv, RowsInv, AttemptTyped, CloneRows
<1>2. RowsAgree' /\ RequestRecorded'
  BY DEF AttemptInv, RowsInv, RowsAgree, RequestRecorded, DiscardAsked
<1> QED
  BY <1>1, <1>2 DEF RowsInv

LEMMA GitMoves ==
  ASSUME AttemptInv, NEW d \in Workers, NEW n, AtItsStep(n), GoesOn(d, n),
         Attempt!Continue(d, n) \/ Attempt!Move(d, n),
         UNCHANGED <<job, attempt, receipt, incident, requests>>,
         UNCHANGED <<faults, reasons>>,
         clone' \in CloneRows, proposal' \in Attempt!NoBranch .. MaxGeneration,
         CloneAgrees', proposal \in Attempt!Generations => UNCHANGED proposal
  PROVE  AttemptInv'
<1>1. PICK k \in {n, Attempt!Idle} : daemon' = [daemon EXCEPT ![d] = k]
  BY DEF Attempt!Continue, Attempt!Move
<1>2. AtItsStep(k) /\ GoesOn(d, k)
  BY IdleAtItsStep, IdleGoesOn
<1>3. daemon'[d] = k /\ \A e \in Workers \ {d} : daemon'[e] = daemon[e]
  BY <1>1 DEF AttemptInv
<1>4. \A e \in Workers \ {d} : Holds(e)' => Holds(e)
  BY <1>3 DEF Holds
<1>5. MayClean(receipt) => MayClean(receipt')
  BY DEF MayClean
<1>6. AgreesWithRows(d)'
  <2>1. CASE k = Attempt!Idle
    BY <1>3, <2>1 DEF AgreesWithRows, Holds, Attempt!Idle, DiscardSteps, Attempt!Nothing
  <2>2. CASE k # Attempt!Idle
    <3>1. Holds(d)' => Holds(d)
      BY <1>2, <1>3, <2>2 DEF GoesOn, Holds
    <3>2. DiscardAsked' <=> DiscardAsked
      BY DEF DiscardAsked
    <3>3. k.head # Attempt!Nothing => k.head = proposal'
      <4>1. k.head # Attempt!Nothing => k.head = daemon[d].head /\ k.head = proposal
        BY <1>2, <2>2, AtWork DEF GoesOn, AgreesWithRows
      <4>2. k.head \in 0 .. MaxGeneration
        BY <1>2 DEF AtItsStep, Attempt!Memories
      <4>3. k.head # Attempt!Nothing => k.head \in Attempt!Generations
        BY <4>2, AttemptConstants DEF Attempt!Generations, Attempt!Nothing
      <4> QED
        BY <4>1, <4>3
    <3> QED
      BY <1>2, <1>3, <2>2, <3>1, <3>2, <3>3 DEF AttemptInv, AgreesWithRows, GoesOn, MayClean
  <2> QED
    BY <2>1, <2>2
<1> QED
  BY <1>1, <1>2, <1>4, <1>5, <1>6, CloneRowsKept, DaemonStepSound

LEMMA RemovedAgrees ==
  ASSUME AttemptInv, Attempt!RemoveClone, UNCHANGED <<receipt, proposal>>
  PROVE  clone' \in CloneRows /\ CloneAgrees'
BY CloneIs, AttemptConstants DEF Attempt!RemoveClone, CloneRows, CloneAgrees, Attempt!CloneStates,
   Attempt!Nothing

LEMMA DiscardSound ==
  ASSUME AttemptInv, NEW d \in Workers, Attempt!Discard(d)
  PROVE  AttemptInv'
<1>1. /\ daemon[d].pc = "discard"
      /\ UNCHANGED <<job, attempt, receipt, incident, proposal, requests>>
      /\ UNCHANGED <<faults, reasons>>
      /\ \/ Attempt!RemoveClone /\ Attempt!Move(d, Attempt!To(d, "resolveDiscard"))
         \/ clone' = clone /\ Attempt!Stop(d)
  BY DEF Attempt!Discard, Attempt!At, Attempt!durable
<1>2. AtItsStep(daemon[d]) /\ AgreesWithRows(d) /\ daemon[d] \in Attempt!Memories
  BY AtWork
<1>3. "resolveDiscard" \in Attempt!GitSteps \cup Attempt!StoreSteps \cup Attempt!RunSteps
  BY DEF Attempt!StoreSteps
<1>4. AtItsStep(Attempt!To(d, "resolveDiscard"))
  BY <1>1, <1>2, <1>3, ToIs DEF AtItsStep, PreparingSteps, CommitSteps, HeadSteps
<1>5. GoesOn(d, Attempt!To(d, "resolveDiscard"))
  BY <1>1, <1>2, <1>3, ToIs DEF GoesOn, AgreesWithRows, BeforeDiscard, DiscardSteps
<1>6. CASE Attempt!RemoveClone /\ Attempt!Move(d, Attempt!To(d, "resolveDiscard"))
  BY <1>1, <1>4, <1>5, <1>6, RemovedAgrees, CloneIs, GitMoves
<1> QED
  BY <1>1, <1>6, StopSound, Counted

LEMMA MakeCloneSound ==
  ASSUME AttemptInv, NEW d \in Workers, Attempt!MakeClone(d)
  PROVE  AttemptInv'
<1>1. daemon[d].pc = "clone" /\ daemon[d].pc \in Preparation \ {"prepare"}
  BY DEF Attempt!MakeClone, Attempt!At, Preparation
<1>2. CASE proposal # daemon[d].seen
  BY <1>1, <1>2, PrepareFailsSound DEF Attempt!MakeClone
<1>3. CASE proposal = daemon[d].seen
  <2>1. /\ UNCHANGED <<job, attempt, receipt, incident, requests>>
        /\ UNCHANGED <<faults, reasons>> /\ proposal' = Attempt!Nothing
        /\ \/ clone' = clone
              /\ \/ Attempt!Move(d, Attempt!Prepared(d))
                 \/ Attempt!Move(d, Attempt!AfterFailure(d))
           \/ /\ clone' = [state |-> "partial", commit |-> Attempt!Nothing]
              /\ Attempt!Move(d, Attempt!To(d, "checkout"))
    BY <1>3 DEF Attempt!MakeClone, Attempt!durable
  <2>2. AtItsStep(daemon[d]) /\ AgreesWithRows(d) /\ daemon[d] \in Attempt!Memories
    BY AtWork
  <2>3. /\ proposal \in {Attempt!NoBranch, Attempt!Nothing}
        /\ daemon[d].receipt.completion = "none"
    BY <1>1, <1>3, <2>2 DEF AtItsStep, PreparingSteps
  <2>4. proposal \notin Attempt!Generations /\ Attempt!Nothing \notin Attempt!Generations
        /\ Attempt!Nothing \in Attempt!NoBranch .. MaxGeneration
    BY <2>3, AttemptConstants DEF Attempt!Generations, Attempt!NoBranch, Attempt!Nothing
  <2>5. receipt.finalized \notin Attempt!Generations
    BY <2>4, CloneIs DEF CloneAgrees
  <2>6. /\ AtItsStep(Attempt!Prepared(d)) /\ GoesOn(d, Attempt!Prepared(d))
        /\ AtItsStep(Attempt!AfterFailure(d)) /\ GoesOn(d, Attempt!AfterFailure(d))
    BY <1>1, <2>3, PreparationSound
  <2>7. CASE /\ clone' = clone
             /\ \/ Attempt!Move(d, Attempt!Prepared(d))
                \/ Attempt!Move(d, Attempt!AfterFailure(d))
    <3>1. CloneAgrees' /\ clone' \in CloneRows
      BY <2>1, <2>4, <2>5, <2>7, CloneIs DEF CloneAgrees
    <3> QED
      BY <2>1, <2>4, <2>6, <2>7, <3>1, GitMoves
  <2>8. CASE clone' = [state |-> "partial", commit |-> Attempt!Nothing]
             /\ Attempt!Move(d, Attempt!To(d, "checkout"))
    <3>1. CloneAgrees' /\ clone' \in CloneRows
      BY <2>1, <2>4, <2>5, <2>8, AttemptConstants
         DEF CloneAgrees, CloneRows, Attempt!CloneStates, Attempt!Nothing
    <3>2. "checkout" \in Attempt!GitSteps \cup Attempt!StoreSteps \cup Attempt!RunSteps
      BY DEF Attempt!GitSteps
    <3>3. AtItsStep(Attempt!To(d, "checkout"))
      BY <1>1, <2>2, <2>3, <3>2, ToIs DEF AtItsStep, PreparingSteps, CommitSteps, HeadSteps
    <3>4. GoesOn(d, Attempt!To(d, "checkout"))
      BY <1>1, <2>2, <3>2, ToIs DEF GoesOn, AgreesWithRows, BeforeDiscard, DiscardSteps
    <3> QED
      BY <2>1, <2>4, <2>8, <3>1, <3>3, <3>4, GitMoves
  <2> QED
    BY <2>1, <2>7, <2>8
<1> QED
  BY <1>2, <1>3

LEMMA CheckoutSound ==
  ASSUME AttemptInv, NEW d \in Workers, Attempt!Checkout(d) \/ Attempt!Mark(d)
  PROVE  AttemptInv'
<1>1. daemon[d].pc \in {"checkout", "mark"} /\ daemon[d].pc \in Preparation \ {"prepare"}
  BY DEF Attempt!Checkout, Attempt!Mark, Attempt!At, Preparation
<1>2. AtItsStep(daemon[d]) /\ AgreesWithRows(d) /\ daemon[d] \in Attempt!Memories
      /\ daemon[d].receipt.completion = "none"
  BY <1>1, AtWork DEF AtItsStep, PreparingSteps
<1>3. AtItsStep(Attempt!Prepared(d)) /\ GoesOn(d, Attempt!Prepared(d))
  BY <1>1, PreparationSound
<1>4. "mark" \in Attempt!GitSteps \cup Attempt!StoreSteps \cup Attempt!RunSteps
  BY DEF Attempt!GitSteps
<1>5. AtItsStep(Attempt!To(d, "mark"))
  BY <1>1, <1>2, <1>4, ToIs DEF AtItsStep, PreparingSteps, CommitSteps, HeadSteps
<1>6. GoesOn(d, Attempt!To(d, "mark"))
  BY <1>1, <1>2, <1>4, ToIs DEF GoesOn, AgreesWithRows, BeforeDiscard, DiscardSteps
<1>7. CASE Attempt!PrepareFails(d)
  BY <1>1, <1>7, PrepareFailsSound
<1>8. CASE ~Attempt!PrepareFails(d)
  <2>1. /\ UNCHANGED <<job, attempt, receipt, incident, proposal, requests>>
        /\ UNCHANGED <<faults, reasons>> /\ clone.state \in {"partial", "unmarked"}
        /\ \E s \in {"unmarked", "base"} : clone' = [clone EXCEPT !.state = s]
        /\ \/ Attempt!Move(d, Attempt!To(d, "mark"))
           \/ Attempt!Continue(d, Attempt!Prepared(d))
    BY <1>8 DEF Attempt!Checkout, Attempt!Mark, Attempt!durable
  <2>2. clone' \in CloneRows /\ CloneAgrees' /\ proposal' \in Attempt!NoBranch .. MaxGeneration
    BY <2>1, CloneIs DEF CloneRows, CloneAgrees, Attempt!CloneStates
  <2> QED
    BY <1>3, <1>5, <1>6, <2>1, <2>2, GitMoves
<1> QED
  BY <1>7, <1>8

LEMMA CommitSound ==
  ASSUME AttemptInv, NEW d \in Workers, Attempt!Commit(d)
  PROVE  AttemptInv'
<1>1. /\ daemon[d].pc = "commit"
      /\ UNCHANGED <<job, attempt, receipt, incident, proposal, requests>>
      /\ UNCHANGED <<faults, reasons>>
      /\ \/ /\ clone.state = "dirty"
            /\ clone' = [state |-> "head", commit |-> daemon[d].generation]
            /\ Attempt!Move(d, Attempt!To(d, "publish"))
         \/ clone' = clone /\ Attempt!Move(d, Attempt!To(d, "publish"))
         \/ clone' = clone /\ Attempt!Move(d, Attempt!AfterFailure(d))
  BY DEF Attempt!Commit, Attempt!At, Attempt!durable, Attempt!HeadUnmoved
<1>2. AtItsStep(daemon[d]) /\ AgreesWithRows(d) /\ daemon[d] \in Attempt!Memories
      /\ daemon[d].head = Attempt!Nothing /\ MayDiscard(daemon[d].receipt)
  BY <1>1, AtWork DEF AtItsStep, HeadSteps, CommitSteps, MayDiscard
<1>3. "publish" \in Attempt!GitSteps \cup Attempt!StoreSteps \cup Attempt!RunSteps
  BY DEF Attempt!GitSteps
<1>4. AtItsStep(Attempt!To(d, "publish"))
  BY <1>1, <1>2, <1>3, ToIs DEF AtItsStep, PreparingSteps, CommitSteps, HeadSteps
<1>5. GoesOn(d, Attempt!To(d, "publish"))
  BY <1>1, <1>2, <1>3, ToIs DEF GoesOn, AgreesWithRows, BeforeDiscard, DiscardSteps
<1>6. AtItsStep(Attempt!AfterFailure(d)) /\ GoesOn(d, Attempt!AfterFailure(d))
  BY <1>1, <1>2, FailureSound DEF BeforeDiscard, DiscardSteps
<1>7. proposal' \in Attempt!NoBranch .. MaxGeneration /\ clone' \in CloneRows /\ CloneAgrees'
  <2>1. CASE clone' = clone
    BY <1>1, <2>1, CloneIs DEF CloneAgrees
  <2>2. CASE clone.state = "dirty"
             /\ clone' = [state |-> "head", commit |-> daemon[d].generation]
    <3>1. proposal \notin Attempt!Generations
      BY <2>2, CloneIs DEF CloneAgrees
    <3>2. daemon[d].generation \in 0 .. MaxGeneration /\ daemon[d].generation # 0
      BY <1>1, <1>2 DEF AtItsStep, Attempt!Memories
    <3>3. clone' \in CloneRows
      BY <2>2, <3>2 DEF CloneRows, Attempt!CloneStates
    <3> QED
      BY <1>1, <2>2, <3>1, <3>2, <3>3, CloneIs DEF CloneAgrees, Attempt!Nothing
  <2> QED
    BY <1>1, <2>1, <2>2
<1> QED
  BY <1>1, <1>4, <1>5, <1>6, <1>7, GitMoves

LEMMA PublishProposalSound ==
  ASSUME AttemptInv, NEW d \in Workers, Attempt!Publish(d)
  PROVE  AttemptInv'
<1>1. /\ daemon[d].pc = "publish"
      /\ UNCHANGED <<job, attempt, receipt, incident, clone, requests>>
      /\ UNCHANGED <<faults, reasons>>
  BY DEF Attempt!Publish, Attempt!At, Attempt!durable
<1>2. AtItsStep(daemon[d]) /\ AgreesWithRows(d) /\ daemon[d] \in Attempt!Memories
      /\ daemon[d].head = Attempt!Nothing /\ MayDiscard(daemon[d].receipt)
  BY <1>1, AtWork DEF AtItsStep, HeadSteps, CommitSteps, MayDiscard
<1>3. CASE proposal' = proposal /\ Attempt!Move(d, Attempt!AfterFailure(d))
  <2>1. AtItsStep(Attempt!AfterFailure(d)) /\ GoesOn(d, Attempt!AfterFailure(d))
    BY <1>1, <1>2, FailureSound DEF BeforeDiscard, DiscardSteps
  <2>2. proposal' \in Attempt!NoBranch .. MaxGeneration /\ clone' \in CloneRows /\ CloneAgrees'
    BY <1>1, <1>3, CloneIs DEF CloneAgrees
  <2> QED
    BY <1>1, <1>3, <2>1, <2>2, GitMoves
<1>4. CASE clone.state = "head" /\ proposal \in {Attempt!Nothing, clone.commit}
           /\ proposal' = clone.commit
           /\ Attempt!Continue(d, [Attempt!To(d, "saveFinalized") EXCEPT !.head = clone.commit])
  <2> DEFINE n == [Attempt!To(d, "saveFinalized") EXCEPT !.head = clone.commit]
  <2>1. clone.commit \in 0 .. MaxGeneration /\ clone.commit # Attempt!Nothing
    BY <1>4, CloneIs DEF CloneRows, CloneAgrees
  <2>2. /\ Attempt!To(d, "saveFinalized") \in Attempt!Memories
        /\ Attempt!To(d, "saveFinalized").pc = "saveFinalized"
        /\ Attempt!To(d, "saveFinalized").receipt = daemon[d].receipt
        /\ Attempt!To(d, "saveFinalized").generation = daemon[d].generation
        /\ Attempt!To(d, "saveFinalized").cancel = daemon[d].cancel
    BY <1>2, ToIs DEF Attempt!StoreSteps
  <2>3. /\ n \in Attempt!Memories /\ n.pc = "saveFinalized" /\ n.head = clone.commit
        /\ n.receipt = daemon[d].receipt /\ n.generation = daemon[d].generation
        /\ n.cancel = daemon[d].cancel
    BY <2>1, <2>2 DEF Attempt!Memories
  <2>4. PICK k \in {n, Attempt!Idle} : daemon' = [daemon EXCEPT ![d] = k]
    BY <1>4 DEF Attempt!Continue, Attempt!Move
  <2> HIDE DEF n
  <2>5. AtItsStep(n)
    BY <1>1, <1>2, <2>3 DEF AtItsStep, PreparingSteps, CommitSteps, HeadSteps
  <2>6. AtItsStep(k)
    BY <2>5, IdleAtItsStep
  <2>7. proposal' \in Attempt!NoBranch .. MaxGeneration
    BY <1>4, <2>1, AttemptConstants DEF Attempt!NoBranch
  <2>8. proposal \in Attempt!Generations => proposal' = proposal
    BY <1>4, AttemptConstants DEF Attempt!Generations, Attempt!Nothing
  <2>9. clone' \in CloneRows /\ CloneAgrees'
    BY <1>1, <1>4, <2>8, CloneIs DEF CloneAgrees
  <2>10. RowsInv'
    BY <1>1, <2>7, <2>9, CloneRowsKept
  <2>11. daemon'[d] = k /\ \A e \in Workers \ {d} : daemon'[e] = daemon[e]
    BY <2>4 DEF AttemptInv
  <2>12. \A e \in Workers \ {d} : Holds(e)' => Holds(e)
    BY <1>1, <2>11 DEF Holds
  <2>13. AgreesWithRows(d)'
    <3>1. CASE k = Attempt!Idle
      BY <2>11, <3>1 DEF AgreesWithRows, Holds, Attempt!Idle, DiscardSteps, Attempt!Nothing
    <3>2. CASE k = n
      <4>1. Holds(d)' => Holds(d)
        BY <1>1, <2>3, <2>11, <3>2 DEF Holds
      <4>2. (DiscardAsked' <=> DiscardAsked) /\ ~(Holds(d) /\ DiscardAsked)
        BY <1>1, <1>2 DEF DiscardAsked, AgreesWithRows, BeforeDiscard, DiscardSteps
      <4> QED
        BY <1>1, <1>2, <1>4, <2>3, <2>11, <3>2, <4>1, <4>2 DEF AgreesWithRows, DiscardSteps
    <3> QED
      BY <2>4, <3>1, <3>2
  <2>14. MayClean(receipt) => MayClean(receipt')
    BY <1>1 DEF MayClean
  <2> QED
    BY <1>1, <2>4, <2>6, <2>8, <2>10, <2>12, <2>13, <2>14, DaemonStepSound
<1> QED
  BY <1>3, <1>4 DEF Attempt!Publish

LEMMA CleanupSound ==
  ASSUME AttemptInv, NEW d \in Workers, Attempt!Cleanup(d)
  PROVE  AttemptInv'
<1>1. /\ daemon[d].pc = "cleanup"
      /\ UNCHANGED <<job, attempt, receipt, incident, proposal, requests>>
      /\ UNCHANGED <<faults, reasons>>
      /\ \/ Attempt!RemoveClone /\ Attempt!Continue(d, Attempt!To(d, "saveCleaned"))
         \/ /\ clone.state # "dirty" /\ clone' = clone
            /\ Attempt!Move(d, Attempt!AfterFailure(d))
  BY DEF Attempt!Cleanup, Attempt!At, Attempt!durable, Attempt!Removable
<1>2. AtItsStep(daemon[d]) /\ AgreesWithRows(d) /\ daemon[d] \in Attempt!Memories
  BY AtWork
<1>3. CASE Attempt!RemoveClone /\ Attempt!Continue(d, Attempt!To(d, "saveCleaned"))
  <2>1. "saveCleaned" \in Attempt!GitSteps \cup Attempt!StoreSteps \cup Attempt!RunSteps
    BY DEF Attempt!StoreSteps
  <2>2. AtItsStep(Attempt!To(d, "saveCleaned"))
    BY <1>1, <1>2, <2>1, ToIs DEF AtItsStep, PreparingSteps, CommitSteps, HeadSteps
  <2>3. GoesOn(d, Attempt!To(d, "saveCleaned"))
    BY <1>1, <1>2, <2>1, ToIs DEF GoesOn, AgreesWithRows, BeforeDiscard, DiscardSteps
  <2>4. clone' \in CloneRows /\ CloneAgrees' /\ proposal' \in Attempt!NoBranch .. MaxGeneration
    BY <1>1, <1>3, RemovedAgrees, CloneIs
  <2> QED
    BY <1>1, <1>3, <2>2, <2>3, <2>4, GitMoves
<1>4. CASE clone.state # "dirty" /\ clone' = clone /\ Attempt!Move(d, Attempt!AfterFailure(d))
  <2>1. AtItsStep(Attempt!AfterFailure(d)) /\ GoesOn(d, Attempt!AfterFailure(d))
    BY <1>1, <1>4, FailureSound DEF BeforeDiscard, DiscardSteps, HeadSteps
  <2> QED
    BY <1>1, <1>4, <2>1, ContinueSound, Counted
<1> QED
  BY <1>1, <1>3, <1>4

(* A native run writes, also one whose daemon lost its lease.              *)
LEMMA RunWritesSound ==
  ASSUME AttemptInv, NEW d \in Workers, Attempt!RunWrites(d)
  PROVE  AttemptInv'
<1>1. /\ UNCHANGED <<job, attempt, receipt, incident, proposal, requests>>
      /\ UNCHANGED <<faults, reasons>> /\ daemon' = daemon
      /\ \/ clone.state = "base" /\ clone' = [clone EXCEPT !.state = "dirty"]
         \/ clone.state = "head" /\ clone' = [clone EXCEPT !.state = "drifted"]
  BY DEF Attempt!RunWrites, Attempt!durable
<1>2. clone' \in CloneRows /\ CloneAgrees' /\ proposal' \in Attempt!NoBranch .. MaxGeneration
  BY <1>1, CloneIs DEF CloneRows, CloneAgrees, Attempt!CloneStates
<1>3. RowsInv'
  BY <1>1, <1>2, CloneRowsKept
<1>4. \A e \in Workers : AgreesWithRows(e)'
  BY <1>1 DEF AttemptInv, AgreesWithRows, Holds, DiscardAsked, MayClean
<1> QED
  BY <1>1, <1>3, <1>4 DEF AttemptInv

-----------------------------------------------------------------------------
(* Writes of the store, under the lease.                                   *)

(* The stage a receipt has reached.                                        *)
LEMMA StageIs ==
  ASSUME NEW r \in Attempt!Receipts
  PROVE  /\ Attempt!Stage(r) \in {"finalize", "request", "complete", "cleanup"}
         /\ Attempt!Stage(r) = "finalize" <=>
              r.completion = "succeeded" /\ r.finalized = Attempt!NotYet
         /\ Attempt!Stage(r) = "request" =>
              r.finalized \in Attempt!Generations /\ r.request = Attempt!Nothing
         /\ Attempt!Stage(r) = "complete" => r.cleaned
         /\ Attempt!Stage(r) = "cleanup" /\ r.completion # "none" => MayClean(r)
         /\ Attempt!Stage(r) = "complete" \/ Attempt!Stage(r) = "cleanup" =>
              /\ r.completion = "succeeded" => r.finalized # Attempt!NotYet
              /\ r.finalized \in Attempt!Generations => r.request # Attempt!Nothing
<1> DEFINE fin == r.completion = "succeeded" /\ r.finalized = Attempt!NotYet
           req == r.finalized \in Attempt!Generations /\ r.request = Attempt!Nothing
<1>1. fin => ~req
  BY AttemptConstants DEF Attempt!Generations, Attempt!NotYet
<1>2. Attempt!Stage(r) = IF fin THEN "finalize" ELSE IF req THEN "request"
                         ELSE IF r.cleaned THEN "complete" ELSE "cleanup"
  BY DEF Attempt!Stage
<1>3. r.completion \in Attempt!Outcomes \cup {"none"} /\ r.cleaned \in BOOLEAN
      /\ r.finalized \in Attempt!NotYet .. MaxGeneration
  BY DEF Attempt!Receipts
<1>4. r.finalized \in Attempt!Generations \cup {Attempt!Nothing, Attempt!NotYet}
  BY <1>3, AttemptConstants DEF Attempt!Generations, Attempt!Nothing, Attempt!NotYet
<1>5. ~fin /\ ~req /\ r.completion # "none" => MayClean(r)
  BY <1>3, <1>4 DEF MayClean, Attempt!Outcomes
<1> QED
  BY <1>1, <1>2, <1>3, <1>5

(* The daemon that is leased the attempt is the only one that holds it.    *)
LEMMA LeasedHolds ==
  ASSUME AttemptInv, NEW d \in Workers, daemon[d].pc # "idle", Attempt!Leased(d)
  PROVE  /\ Holds(d) /\ daemon[d].receipt = receipt
         /\ job.status \in {"running", "cancel_requested"}
         /\ attempt.status = "running" /\ attempt.owner = d
         /\ incident.status # "open"
         /\ daemon[d].pc \notin BeforeDiscard => ~DiscardAsked
<1>1. Holds(d) /\ attempt.status = "running" /\ attempt.owner = d
      /\ job.status \in {"running", "cancel_requested"}
  BY DEF Holds, Attempt!Leased
<1> QED
  BY <1>1, AtWork DEF AgreesWithRows, RowsInv, RowsAgree

LEMMA IdleAgrees ==
  ASSUME NEW d \in Workers, daemon'[d] = Attempt!Idle
  PROVE  AgreesWithRows(d)'
BY DEF AgreesWithRows, Holds, Attempt!Idle, DiscardSteps, Attempt!Nothing

LEMMA LeasedStep ==
  ASSUME AttemptInv, NEW d \in Workers, NEW n, AtItsStep(n),
         daemon' = [daemon EXCEPT ![d] = n], RowsInv',
         job.intent => job'.intent, UNCHANGED proposal,
         MayClean(receipt) => MayClean(receipt'),
         attempt'.owner \in {d, NoDaemon}, AgreesWithRows(d)'
  PROVE  AttemptInv'
<1>1. \A e \in Workers \ {d} : ~Holds(e)'
  BY AttemptConstants DEF Holds
<1> QED
  BY <1>1, DaemonStepSound

(* The holder of the lease writes a receipt and goes on with it, or stops. *)
LEMMA ReceiptWritten ==
  ASSUME AttemptInv, NEW d \in Workers, daemon[d].pc # "idle",
         daemon[d].pc \notin BeforeDiscard, Attempt!Leased(d),
         NEW r \in Attempt!Receipts, InOrder(r), receipt' = r,
         NEW n, AtItsStep(n), Attempt!Continue(d, n) \/ Attempt!Move(d, n),
         n.receipt = r, n.cancel = daemon[d].cancel,
         n.head = daemon[d].head, n.pc \notin DiscardSteps,
         n.pc = "cleanup" => MayClean(r),
         UNCHANGED <<job, attempt, incident, clone, proposal, faults, reasons>>,
         r.finalized \in Attempt!Generations => proposal = r.finalized,
         requests' = IF r.request = Attempt!Nothing THEN {} ELSE {r.request},
         MayClean(receipt) => MayClean(r)
  PROVE  AttemptInv'
<1>1. PICK k \in {n, Attempt!Idle} : daemon' = [daemon EXCEPT ![d] = k]
  BY DEF Attempt!Continue, Attempt!Move
<1>2. AtItsStep(k) /\ daemon'[d] = k
  BY <1>1, IdleAtItsStep DEF AttemptInv
<1>3. /\ ~DiscardAsked /\ job.status \notin {"succeeded"} /\ attempt.owner = d
      /\ incident.status # "open"
  BY LeasedHolds
<1>4. ~DiscardAsked'
  BY <1>3 DEF DiscardAsked
<1>5. AttemptTyped'
  BY DEF AttemptInv, RowsInv, AttemptTyped
<1>6. RowsAgree'
  BY <1>3, <1>4 DEF AttemptInv, RowsInv, RowsAgree
<1>7. CloneAgrees' /\ RequestRecorded'
  BY DEF AttemptInv, RowsInv, CloneAgrees, RequestRecorded
<1>8. AgreesWithRows(d)'
  <2>1. CASE k = Attempt!Idle
    BY <1>2, <2>1, IdleAgrees
  <2>2. CASE k = n
    BY <1>2, <1>4, <2>2, AtWork DEF AgreesWithRows
  <2> QED
    BY <2>1, <2>2
<1> QED
  BY <1>1, <1>2, <1>3, <1>5, <1>6, <1>7, <1>8, LeasedStep DEF RowsInv

(* A daemon at the stage of a receipt that is completed.                   *)
LEMMA StageSound ==
  ASSUME NEW n \in Attempt!Memories, InOrder(n.receipt), n.generation # 0,
         n.receipt.completion # "none", n.pc = Attempt!Stage(n.receipt),
         n.head # Attempt!Nothing => n.receipt.finalized # Attempt!NotYet
  PROVE  AtItsStep(n) /\ (n.pc = "cleanup" => MayClean(n.receipt))
<1> DEFINE r == n.receipt
<1>1. r \in Attempt!Receipts
  BY DEF Attempt!Memories
<1>2. r.prepared
  BY DEF InOrder, Attempt!NoReceipt
<1> QED
  BY <1>1, <1>2, StageIs DEF AtItsStep, PreparingSteps, CommitSteps, HeadSteps

LEMMA SavePreparedSound ==
  ASSUME AttemptInv, NEW d \in Workers, Attempt!SavePrepared(d)
  PROVE  AttemptInv'
<1>1. CASE Attempt!FencedOut(d)
  BY <1>1, FencedSound
<1>2. CASE ~Attempt!FencedOut(d)
  <2> DEFINE old == daemon[d].receipt
             r == [old EXCEPT !.prepared = TRUE]
  <2>1. /\ daemon[d].pc = "save" /\ Attempt!Leased(d) /\ receipt' = r
        /\ UNCHANGED <<job, attempt, incident, clone, proposal, requests, faults, reasons>>
    BY <1>2 DEF Attempt!SavePrepared, Attempt!At, Attempt!git
  <2>2. /\ AtItsStep(daemon[d]) /\ daemon[d] \in Attempt!Memories
        /\ daemon[d].head = Attempt!Nothing /\ old \in Attempt!Receipts /\ old = receipt
        /\ daemon[d].generation # 0
    BY <2>1, AtWork, LeasedHolds DEF AtItsStep, HeadSteps, Attempt!Memories
  <2>3. /\ r \in Attempt!Receipts /\ r.prepared /\ r.completion = old.completion
        /\ r.finalized = old.finalized /\ r.request = old.request
        /\ r.cleaned = old.cleaned
    BY <2>2 DEF Attempt!Receipts
  <2>4. PICK n : /\ Attempt!Move(d, n)
                 /\ \/ n = [Attempt!To(d, Attempt!Stage(r)) EXCEPT !.receipt = r]
                       /\ r.completion # "none"
                    \/ n = [Attempt!To(d, "terminal") EXCEPT !.receipt = r,
                              !.outcome = "cancelled"] /\ r.completion = "none"
                    \/ n = [Attempt!To(d, "start") EXCEPT !.receipt = r]
                       /\ r.completion = "none"
    BY <1>2 DEF Attempt!SavePrepared
  <2> HIDE DEF r
  <2>5. Attempt!Stage(r) \in {"finalize", "request", "complete", "cleanup"}
    BY <2>3, StageIs
  <2>6. /\ n \in Attempt!Memories /\ n.receipt = r /\ n.cancel = daemon[d].cancel
        /\ n.generation = daemon[d].generation /\ n.head = daemon[d].head
        /\ \/ n.pc = Attempt!Stage(r) /\ r.completion # "none"
           \/ n.pc \in {"terminal", "start"} /\ r.completion = "none"
        /\ n.pc = "terminal" => n.outcome \in Attempt!Outcomes
    BY <2>2, <2>3, <2>4, <2>5
       DEF Attempt!To, Attempt!Memories, Attempt!StoreSteps, Attempt!GitSteps,
           Attempt!RunSteps, Attempt!Outcomes
  <2>7. InOrder(r)
    <3>1. InOrder(old)
      BY <2>2 DEF AtItsStep
    <3>2. Attempt!Stage(r) = Attempt!Stage(old)
      BY <2>3 DEF Attempt!Stage
    <3> QED
      BY <2>3, <3>1, <3>2 DEF InOrder
  <2>8. AtItsStep(n) /\ (n.pc = "cleanup" => MayClean(r))
    <3>1. CASE n.pc = Attempt!Stage(r) /\ r.completion # "none"
      BY <2>2, <2>6, <2>7, <3>1, StageSound
    <3>2. CASE n.pc \in {"terminal", "start"} /\ r.completion = "none"
      BY <2>2, <2>3, <2>6, <2>7, <3>2 DEF AtItsStep, PreparingSteps, CommitSteps, HeadSteps
    <3> QED
      BY <2>6, <3>1, <3>2
  <2>9. n.pc \notin DiscardSteps
    BY <2>5, <2>6 DEF DiscardSteps
  <2>10. MayClean(receipt) => MayClean(r)
    BY <2>2, <2>3 DEF MayClean
  <2>11. /\ r.finalized \in Attempt!Generations => proposal = r.finalized
         /\ requests' = IF r.request = Attempt!Nothing THEN {} ELSE {r.request}
    BY <2>1, <2>2, <2>3 DEF AttemptInv, RowsInv, CloneAgrees, RequestRecorded
  <2>12. daemon[d].pc # "idle" /\ daemon[d].pc \notin BeforeDiscard
    BY <2>1 DEF BeforeDiscard, DiscardSteps
  <2> QED
    BY <2>1, <2>3, <2>4, <2>6, <2>7, <2>8, <2>9, <2>10, <2>11, <2>12, ReceiptWritten
<1> QED
  BY <1>1, <1>2

LEMMA PersistTerminalSound ==
  ASSUME AttemptInv, NEW d \in Workers, Attempt!PersistTerminal(d)
  PROVE  AttemptInv'
<1>1. CASE Attempt!FencedOut(d)
  BY <1>1, FencedSound
<1>2. CASE ~Attempt!FencedOut(d)
  <2> DEFINE m == daemon[d]
             r == [m.receipt EXCEPT !.completion = m.outcome]
  <2>1. /\ m.pc = "terminal" /\ Attempt!Leased(d)
        /\ UNCHANGED <<job, attempt, incident, clone, proposal, requests, faults, reasons>>
        /\ \/ /\ job.status = "cancel_requested" /\ receipt' = receipt
              /\ \/ Attempt!Move(d, [m EXCEPT !.cancel = TRUE, !.outcome = "cancelled"])
                 \/ Attempt!Stop(d)
           \/ receipt' = r /\ Attempt!Recorded(d, r, Attempt!Stage(r))
    BY <1>2 DEF Attempt!PersistTerminal, Attempt!At, Attempt!git
  <2>2. /\ AtItsStep(m) /\ m \in Attempt!Memories /\ m.head = Attempt!Nothing
        /\ m.receipt \in Attempt!Receipts /\ m.receipt = receipt /\ m.generation # 0
        /\ m.receipt.completion = "none" /\ m.outcome \in Attempt!Outcomes
        /\ m.receipt.prepared /\ InOrder(m.receipt)
    BY <2>1, AtWork, LeasedHolds DEF AtItsStep, HeadSteps, Attempt!Memories, PreparingSteps
  <2>3. CASE /\ job.status = "cancel_requested" /\ receipt' = receipt
             /\ \/ Attempt!Move(d, [m EXCEPT !.cancel = TRUE, !.outcome = "cancelled"])
                \/ Attempt!Stop(d)
    <3> DEFINE n == [m EXCEPT !.cancel = TRUE, !.outcome = "cancelled"]
    <3>1. /\ n \in Attempt!Memories /\ n.pc = "terminal" /\ n.outcome = "cancelled"
          /\ n.receipt = m.receipt /\ n.generation = m.generation /\ n.head = m.head
      BY <2>1, <2>2 DEF Attempt!Memories, Attempt!Outcomes
    <3> HIDE DEF n
    <3>2. AtItsStep(n)
      BY <2>2, <3>1 DEF AtItsStep, PreparingSteps, CommitSteps, HeadSteps, Attempt!Outcomes
    <3>3. GoesOn(d, n)
      <4>1. job.intent
        BY <2>3 DEF AttemptInv, RowsInv, RowsAgree
      <4>2. ~(Holds(d) /\ DiscardAsked)
        BY <2>1, AtWork DEF AgreesWithRows, BeforeDiscard, DiscardSteps
      <4> QED
        BY <2>1, <3>1, <4>1, <4>2 DEF GoesOn, DiscardSteps
    <3>4. CASE Attempt!Move(d, n)
      BY <2>1, <2>3, <3>2, <3>3, <3>4, ContinueSound, Counted
    <3>5. CASE Attempt!Stop(d)
      BY <2>1, <2>3, <3>5, StopSound, Counted
    <3> QED
      BY <2>3, <3>4, <3>5 DEF n
  <2>4. CASE receipt' = r /\ Attempt!Recorded(d, r, Attempt!Stage(r))
    <3>1. /\ r \in Attempt!Receipts /\ r.prepared /\ r.completion = m.outcome
          /\ r.finalized = m.receipt.finalized /\ r.request = m.receipt.request
          /\ r.cleaned = m.receipt.cleaned
      BY <2>2 DEF Attempt!Receipts
    <3> DEFINE n == [m EXCEPT !.receipt = r, !.pc = Attempt!Stage(r)]
    <3>2. Attempt!Continue(d, n)
      BY <2>4 DEF Attempt!Recorded
    <3>3. Attempt!Stage(r) \in {"finalize", "request", "complete", "cleanup"}
      BY <3>1, StageIs
    <3>4. r.finalized = Attempt!NotYet /\ r.request = Attempt!Nothing /\ ~r.cleaned
      BY <2>2, <3>1, AttemptConstants
         DEF InOrder, Attempt!NotYet, Attempt!Generations, Attempt!Receipts
    <3>5. InOrder(r)
      BY <3>1, <3>4 DEF InOrder
    <3> HIDE DEF r
    <3>6. /\ n \in Attempt!Memories /\ n.receipt = r /\ n.cancel = m.cancel
          /\ n.generation = m.generation /\ n.head = m.head /\ n.pc = Attempt!Stage(r)
      BY <2>2, <3>1, <3>3
         DEF Attempt!Memories, Attempt!StoreSteps, Attempt!GitSteps
    <3> HIDE DEF n
    <3>7. r.completion # "none"
      BY <2>2, <3>1 DEF Attempt!Outcomes
    <3>8. AtItsStep(n) /\ (n.pc = "cleanup" => MayClean(r))
      BY <2>2, <3>5, <3>6, <3>7, StageSound
    <3>9. n.pc \notin DiscardSteps
      BY <3>3, <3>6 DEF DiscardSteps
    <3>10. MayClean(receipt) => MayClean(r)
      BY <2>2, <3>1, <3>4 DEF MayClean
    <3>11. requests' = IF r.request = Attempt!Nothing THEN {} ELSE {r.request}
      BY <2>1, <2>2, <3>1 DEF AttemptInv, RowsInv, RequestRecorded
    <3>12. r.finalized \notin Attempt!Generations
      BY <3>4, AttemptConstants DEF Attempt!Generations, Attempt!NotYet
    <3>13. m.pc # "idle" /\ m.pc \notin BeforeDiscard
      BY <2>1 DEF BeforeDiscard, DiscardSteps
    <3> QED
      BY <2>1, <2>4, <3>1, <3>2, <3>5, <3>6, <3>8, <3>9, <3>10, <3>11, <3>12, <3>13,
         ReceiptWritten
  <2> QED
    BY <2>1, <2>3, <2>4
<1> QED
  BY <1>1, <1>2

LEMMA SaveFinalizedSound ==
  ASSUME AttemptInv, NEW d \in Workers, Attempt!SaveFinalized(d)
  PROVE  AttemptInv'
<1>1. CASE Attempt!FencedOut(d)
  BY <1>1, FencedSound
<1>2. CASE ~Attempt!FencedOut(d)
  <2> DEFINE m == daemon[d]
             r == [m.receipt EXCEPT !.finalized = m.head]
  <2>1. /\ m.pc = "saveFinalized" /\ Attempt!Leased(d) /\ receipt' = r
        /\ UNCHANGED <<job, attempt, incident, clone, proposal, requests, faults, reasons>>
        /\ Attempt!Recorded(d, r, Attempt!Stage(r))
    BY <1>2 DEF Attempt!SaveFinalized, Attempt!At, Attempt!git
  <2>2. /\ AtItsStep(m) /\ m \in Attempt!Memories /\ m.head \in 0 .. MaxGeneration
        /\ m.receipt \in Attempt!Receipts /\ m.receipt = receipt /\ m.generation # 0
        /\ m.receipt.completion = "succeeded" /\ m.receipt.finalized = Attempt!NotYet
        /\ m.head # Attempt!Nothing => m.head = proposal
        /\ InOrder(m.receipt)
    BY <2>1, AtWork, LeasedHolds DEF AtItsStep, AgreesWithRows, CommitSteps, Attempt!Memories
  <2>3. /\ r \in Attempt!Receipts /\ r.prepared = m.receipt.prepared
        /\ r.completion = "succeeded" /\ r.finalized = m.head
        /\ r.request = m.receipt.request /\ r.cleaned = m.receipt.cleaned
    <3>1. m.head \in Attempt!NotYet .. MaxGeneration
      BY <2>2, AttemptConstants DEF Attempt!NotYet
    <3> QED
      BY <2>2, <3>1 DEF Attempt!Receipts
  <2> DEFINE n == [m EXCEPT !.receipt = r, !.pc = Attempt!Stage(r)]
  <2>4. Attempt!Continue(d, n)
    BY <2>1 DEF Attempt!Recorded
  <2>5. Attempt!Stage(r) \in {"finalize", "request", "complete", "cleanup"}
    BY <2>3, StageIs
  <2>6. m.receipt.request = Attempt!Nothing /\ ~m.receipt.cleaned /\ m.receipt.prepared
    <3>1. Attempt!NotYet \notin Attempt!Generations
      BY AttemptConstants DEF Attempt!Generations, Attempt!NotYet
    <3>2. Attempt!Stage(m.receipt) = "finalize"
      BY <2>2, StageIs
    <3> QED
      BY <2>2, <3>1, <3>2 DEF InOrder, Attempt!Receipts, Attempt!NoReceipt
  <2>7. InOrder(r)
    BY <2>3, <2>6 DEF InOrder
  <2>8. r.finalized # Attempt!NotYet
    BY <2>2, <2>3, AttemptConstants DEF Attempt!NotYet
  <2>9. r.finalized \in Attempt!Generations => proposal = r.finalized
    BY <2>2, <2>3, AttemptConstants DEF Attempt!Generations, Attempt!Nothing
  <2> HIDE DEF r
  <2>10. /\ n \in Attempt!Memories /\ n.receipt = r /\ n.cancel = m.cancel
         /\ n.generation = m.generation /\ n.head = m.head /\ n.pc = Attempt!Stage(r)
    BY <2>2, <2>3, <2>5 DEF Attempt!Memories, Attempt!StoreSteps, Attempt!GitSteps
  <2> HIDE DEF n
  <2>11. AtItsStep(n) /\ (n.pc = "cleanup" => MayClean(r))
    BY <2>2, <2>3, <2>7, <2>8, <2>10, StageSound
  <2>12. n.pc \notin DiscardSteps
    BY <2>5, <2>10 DEF DiscardSteps
  <2>13. ~MayClean(receipt)
    BY <2>2, <2>6 DEF MayClean, Attempt!NotYet, Attempt!Nothing
  <2>14. requests' = IF r.request = Attempt!Nothing THEN {} ELSE {r.request}
    BY <2>1, <2>2, <2>3 DEF AttemptInv, RowsInv, RequestRecorded
  <2>15. m.pc # "idle" /\ m.pc \notin BeforeDiscard
    BY <2>1 DEF BeforeDiscard, DiscardSteps
  <2> QED
    BY <2>1, <2>3, <2>4, <2>7, <2>9, <2>10, <2>11, <2>12, <2>13, <2>14, <2>15,
       ReceiptWritten
<1> QED
  BY <1>1, <1>2

LEMMA CreateRequestSound ==
  ASSUME AttemptInv, NEW d \in Workers, Attempt!CreateRequest(d)
  PROVE  AttemptInv'
<1>1. CASE Attempt!FencedOut(d)
  BY <1>1, FencedSound
<1>2. CASE ~Attempt!FencedOut(d)
  <2> DEFINE m == daemon[d]
             head == m.receipt.finalized
             r == [m.receipt EXCEPT !.request = head]
  <2>1. /\ m.pc = "request" /\ Attempt!Leased(d) /\ receipt' = r
        /\ UNCHANGED <<job, attempt, incident, clone, proposal, faults, reasons>>
        /\ requests' = requests \cup {head} /\ Attempt!Recorded(d, r, "cleanup")
    BY <1>2 DEF Attempt!CreateRequest, Attempt!At
  <2>2. /\ AtItsStep(m) /\ m \in Attempt!Memories /\ m.receipt \in Attempt!Receipts
        /\ m.receipt = receipt /\ m.generation # 0 /\ InOrder(m.receipt)
        /\ head \in Attempt!Generations /\ m.receipt.request = Attempt!Nothing
        /\ Attempt!Stage(m.receipt) = "request"
    BY <2>1, AtWork, LeasedHolds, StageIs DEF AtItsStep, Attempt!Memories
  <2>3. /\ r \in Attempt!Receipts /\ r.prepared = m.receipt.prepared
        /\ r.completion = m.receipt.completion /\ r.finalized = head
        /\ r.request = head /\ r.cleaned = m.receipt.cleaned
    BY <2>2 DEF Attempt!Receipts
  <2> DEFINE n == [m EXCEPT !.receipt = r, !.pc = "cleanup"]
  <2>4. Attempt!Continue(d, n)
    BY <2>1 DEF Attempt!Recorded
  <2>5. head # Attempt!NotYet /\ head # Attempt!Nothing
    BY <2>2, AttemptConstants DEF Attempt!Generations, Attempt!NotYet, Attempt!Nothing
  <2>6. m.receipt.completion = "succeeded" /\ ~m.receipt.cleaned /\ m.receipt.prepared
    BY <2>2, <2>5 DEF InOrder, Attempt!Receipts, Attempt!NoReceipt, Attempt!Nothing, Attempt!NotYet
  <2>7. InOrder(r) /\ MayClean(r)
    BY <2>2, <2>3, <2>5, <2>6 DEF InOrder, MayClean
  <2>8. Attempt!Stage(r) = "cleanup"
    BY <2>3, <2>5, <2>6 DEF Attempt!Stage
  <2>9. proposal = r.finalized
    BY <2>2, <2>3 DEF AttemptInv, RowsInv, CloneAgrees
  <2> HIDE DEF r
  <2>10. /\ n \in Attempt!Memories /\ n.receipt = r /\ n.cancel = m.cancel
         /\ n.generation = m.generation /\ n.head = m.head /\ n.pc = "cleanup"
    BY <2>2, <2>3 DEF Attempt!Memories, Attempt!GitSteps
  <2> HIDE DEF n
  <2>11. AtItsStep(n)
    BY <2>2, <2>3, <2>5, <2>6, <2>7, <2>8, <2>10, StageSound
  <2>12. n.pc \notin DiscardSteps
    BY <2>10 DEF DiscardSteps
  <2>13. requests' = IF r.request = Attempt!Nothing THEN {} ELSE {r.request}
    BY <2>1, <2>2, <2>3, <2>5 DEF AttemptInv, RowsInv, RequestRecorded
  <2>14. m.pc # "idle" /\ m.pc \notin BeforeDiscard
    BY <2>1 DEF BeforeDiscard, DiscardSteps
  <2> QED
    BY <2>1, <2>3, <2>4, <2>7, <2>9, <2>10, <2>11, <2>12, <2>13, <2>14, ReceiptWritten
<1> QED
  BY <1>1, <1>2

LEMMA SaveCleanedSound ==
  ASSUME AttemptInv, NEW d \in Workers, Attempt!SaveCleaned(d)
  PROVE  AttemptInv'
<1>1. CASE Attempt!FencedOut(d)
  BY <1>1, FencedSound
<1>2. CASE ~Attempt!FencedOut(d)
  <2> DEFINE m == daemon[d]
             r == [m.receipt EXCEPT !.cleaned = TRUE]
  <2>1. /\ m.pc = "saveCleaned" /\ Attempt!Leased(d) /\ receipt' = r
        /\ UNCHANGED <<job, attempt, incident, clone, proposal, requests, faults, reasons>>
        /\ Attempt!Recorded(d, r, "complete")
    BY <1>2 DEF Attempt!SaveCleaned, Attempt!At, Attempt!git
  <2>2. /\ AtItsStep(m) /\ m \in Attempt!Memories /\ m.receipt \in Attempt!Receipts
        /\ m.receipt = receipt /\ m.generation # 0 /\ InOrder(m.receipt)
        /\ m.receipt.completion # "none" /\ Attempt!Stage(m.receipt) = "cleanup"
    BY <2>1, AtWork, LeasedHolds DEF AtItsStep, Attempt!Memories
  <2>3. /\ r \in Attempt!Receipts /\ r.prepared = m.receipt.prepared
        /\ r.completion = m.receipt.completion /\ r.finalized = m.receipt.finalized
        /\ r.request = m.receipt.request /\ r.cleaned
    BY <2>2 DEF Attempt!Receipts
  <2> DEFINE n == [m EXCEPT !.receipt = r, !.pc = "complete"]
  <2>4. Attempt!Continue(d, n)
    BY <2>1 DEF Attempt!Recorded
  <2>5. Attempt!Stage(r) = "complete"
    BY <2>2, <2>3 DEF Attempt!Stage
  <2>6. m.receipt.prepared
    BY <2>2 DEF InOrder, Attempt!NoReceipt
  <2>7. InOrder(r)
    BY <2>2, <2>3, <2>5, <2>6 DEF InOrder
  <2> HIDE DEF r
  <2>10. /\ n \in Attempt!Memories /\ n.receipt = r /\ n.cancel = m.cancel
         /\ n.generation = m.generation /\ n.head = m.head /\ n.pc = "complete"
    BY <2>2, <2>3 DEF Attempt!Memories, Attempt!StoreSteps
  <2> HIDE DEF n
  <2>11. AtItsStep(n)
    BY <2>2, <2>3, <2>7, <2>10 DEF AtItsStep, PreparingSteps, CommitSteps, HeadSteps
  <2>12. n.pc \notin DiscardSteps /\ n.pc # "cleanup"
    BY <2>10 DEF DiscardSteps
  <2>13. /\ r.finalized \in Attempt!Generations => proposal = r.finalized
         /\ requests' = IF r.request = Attempt!Nothing THEN {} ELSE {r.request}
    BY <2>1, <2>2, <2>3 DEF AttemptInv, RowsInv, CloneAgrees, RequestRecorded
  <2>14. MayClean(receipt) => MayClean(r)
    BY <2>2, <2>3 DEF MayClean
  <2>15. m.pc # "idle" /\ m.pc \notin BeforeDiscard
    BY <2>1 DEF BeforeDiscard, DiscardSteps
  <2> QED
    BY <2>1, <2>3, <2>4, <2>7, <2>10, <2>11, <2>12, <2>13, <2>14, <2>15, ReceiptWritten
<1> QED
  BY <1>1, <1>2

(* The holder of the lease changes other rows and stops, or goes on with   *)
(* the receipt it has.                                                     *)
LEMMA ResolveDiscardSound ==
  ASSUME AttemptInv, NEW d \in Workers, Attempt!ResolveDiscard(d)
  PROVE  AttemptInv'
<1>1. CASE Attempt!FencedOut(d)
  BY <1>1, FencedSound
<1>2. CASE ~Attempt!FencedOut(d)
  <2> DEFINE m == daemon[d]
             n == [[m EXCEPT !.pc = "prepare"] EXCEPT
                     !.receipt = Attempt!NoReceipt, !.claimRun = Attempt!Nothing,
                     !.run = Attempt!Nothing, !.answer = Attempt!Nothing]
  <2>1. /\ m.pc = "resolveDiscard" /\ Attempt!Leased(d)
        /\ incident' = [incident EXCEPT !.status = "resolved"]
        /\ receipt' = Attempt!NoReceipt
        /\ attempt' = [attempt EXCEPT !.run = Attempt!Nothing]
        /\ daemon' = [daemon EXCEPT ![d] = n]
        /\ UNCHANGED <<job, clone, proposal, requests, faults, reasons>>
    BY <1>2 DEF Attempt!ResolveDiscard, Attempt!At, Attempt!To, Attempt!Move, Attempt!git
  <2>2. /\ AtItsStep(m) /\ AgreesWithRows(d) /\ RowsInv /\ m \in Attempt!Memories
        /\ m.head = Attempt!Nothing /\ m.generation # 0
    BY <2>1, AtWork DEF AtItsStep, HeadSteps
  <2>3. /\ Holds(d) /\ m.receipt = receipt /\ attempt.owner = d
        /\ attempt.status = "running" /\ job.status # "succeeded"
    BY <2>1, LeasedHolds
  <2>4. MayDiscard(receipt) /\ InOrder(receipt) /\ DiscardAsked
    BY <2>1, <2>2, <2>3 DEF AgreesWithRows, RowsInv, RowsAgree, DiscardSteps
  <2>5. Attempt!NotYet \notin Attempt!Generations /\ Attempt!NotYet # Attempt!Nothing
        /\ 0 \in 0 .. MaxGeneration /\ Attempt!NotYet \in Attempt!NotYet .. MaxGeneration
    BY AttemptConstants DEF Attempt!Generations, Attempt!NotYet, Attempt!Nothing
  <2>6. receipt.request = Attempt!Nothing
    BY <2>4, <2>5 DEF MayDiscard, InOrder
  <2>7. Attempt!NoReceipt \in Attempt!Receipts /\ InOrder(Attempt!NoReceipt)
    BY IdleAtItsStep DEF AtItsStep, Attempt!Idle, Attempt!Memories
  <2>8. /\ n \in Attempt!Memories /\ n.pc = "prepare" /\ n.receipt = Attempt!NoReceipt
        /\ n.generation = m.generation /\ n.head = m.head /\ n.cancel = m.cancel
    BY <2>2, <2>5, <2>7 DEF Attempt!Memories, Attempt!GitSteps, Attempt!Nothing
  <2> HIDE DEF n
  <2>9. AtItsStep(n)
    BY <2>2, <2>7, <2>8 DEF AtItsStep, PreparingSteps, CommitSteps, HeadSteps
  <2>10. ~DiscardAsked' /\ incident'.status = "resolved"
    BY <2>1, <2>2 DEF DiscardAsked, RowsInv, AttemptTyped
  <2>11. AttemptTyped'
    BY <2>1, <2>2, <2>5, <2>7 DEF RowsInv, AttemptTyped, Attempt!Nothing
  <2>12. attempt'.status = "running" /\ attempt'.owner = d
    BY <2>1, <2>2, <2>3 DEF RowsInv, AttemptTyped
  <2>13. RowsAgree'
    BY <2>1, <2>2, <2>3, <2>7, <2>10, <2>12 DEF RowsInv, RowsAgree
  <2>14. CloneAgrees' /\ RequestRecorded'
    BY <2>1, <2>2, <2>5, <2>6 DEF RowsInv, CloneAgrees, RequestRecorded, Attempt!NoReceipt
  <2>15. ~MayClean(receipt)
    BY <2>4, <2>5, <2>6 DEF MayClean, MayDiscard
  <2>16. AgreesWithRows(d)'
    <3>1. daemon'[d] = n
      BY <2>1 DEF AttemptInv
    <3> QED
      BY <2>1, <2>2, <2>8, <2>10, <3>1 DEF AgreesWithRows, DiscardSteps
  <2> QED
    BY <2>1, <2>9, <2>11, <2>12, <2>13, <2>14, <2>15, <2>16, LeasedStep DEF RowsInv
<1> QED
  BY <1>1, <1>2

LEMMA ResolveRetrySound ==
  ASSUME AttemptInv, NEW d \in Workers, Attempt!ResolveRetry(d)
  PROVE  AttemptInv'
<1>1. CASE Attempt!FencedOut(d)
  BY <1>1, FencedSound
<1>2. CASE ~Attempt!FencedOut(d)
  <2> DEFINE m == daemon[d]
             n == [[m EXCEPT !.pc = "save"] EXCEPT !.pending = FALSE]
  <2>1. /\ m.pc = "resolveRetry" /\ Attempt!Leased(d)
        /\ incident' = [incident EXCEPT !.status = "resolved"]
        /\ Attempt!Continue(d, n)
        /\ UNCHANGED <<job, attempt, receipt, clone, proposal, requests, faults, reasons>>
    BY <1>2 DEF Attempt!ResolveRetry, Attempt!At, Attempt!To, Attempt!git
  <2>2. /\ AtItsStep(m) /\ AgreesWithRows(d) /\ RowsInv /\ m \in Attempt!Memories
        /\ m.head = Attempt!Nothing
    BY <2>1, AtWork DEF AtItsStep, HeadSteps
  <2>3. Holds(d) /\ m.receipt = receipt /\ attempt.owner = d
    BY <2>1, LeasedHolds
  <2>4. /\ n \in Attempt!Memories /\ n.pc = "save" /\ n.receipt = m.receipt
        /\ n.generation = m.generation /\ n.head = m.head /\ n.cancel = m.cancel
    BY <2>2 DEF Attempt!Memories, Attempt!StoreSteps
  <2> HIDE DEF n
  <2>5. AtItsStep(n)
    BY <2>1, <2>2, <2>4 DEF AtItsStep, PreparingSteps, CommitSteps, HeadSteps
  <2>6. ~DiscardAsked' /\ incident'.status = "resolved"
    BY <2>1, <2>2 DEF DiscardAsked, RowsInv, AttemptTyped
  <2>7. AttemptTyped'
    BY <2>1, <2>2 DEF RowsInv, AttemptTyped
  <2>8. RowsAgree' /\ CloneAgrees' /\ RequestRecorded'
    BY <2>1, <2>2, <2>6 DEF RowsInv, RowsAgree, CloneAgrees, RequestRecorded
  <2>9. PICK k \in {n, Attempt!Idle} : daemon' = [daemon EXCEPT ![d] = k]
    BY <2>1 DEF Attempt!Continue, Attempt!Move
  <2>10. daemon'[d] = k /\ AtItsStep(k)
    BY <2>5, <2>9, IdleAtItsStep DEF AttemptInv
  <2>11. AgreesWithRows(d)'
    <3>1. CASE k = Attempt!Idle
      BY <2>10, <3>1, IdleAgrees
    <3>2. CASE k = n
      BY <2>1, <2>2, <2>3, <2>4, <2>6, <2>10, <3>2 DEF AgreesWithRows, DiscardSteps
    <3> QED
      BY <2>9, <3>1, <3>2
  <2>12. MayClean(receipt) => MayClean(receipt')
    BY <2>1
  <2> QED
    BY <2>1, <2>3, <2>7, <2>8, <2>9, <2>10, <2>11, <2>12, LeasedStep DEF RowsInv
<1> QED
  BY <1>1, <1>2

(* The holder of the lease gives it back and stops.                        *)
LEMMA ReleaseSound ==
  ASSUME AttemptInv, NEW d \in Workers, Attempt!Stop(d), attempt'.owner = NoDaemon,
         job.intent => job'.intent, UNCHANGED <<receipt, clone, proposal, requests>>,
         AttemptTyped', RowsAgree'
  PROVE  AttemptInv'
<1>1. daemon' = [daemon EXCEPT ![d] = Attempt!Idle] /\ daemon'[d] = Attempt!Idle
  BY DEF Attempt!Stop, Attempt!Move, AttemptInv
<1>2. CloneAgrees' /\ RequestRecorded'
  BY DEF AttemptInv, RowsInv, CloneAgrees, RequestRecorded
<1>3. MayClean(receipt) => MayClean(receipt')
  OBVIOUS
<1> QED
  BY <1>1, <1>2, <1>3, IdleAtItsStep, IdleAgrees, LeasedStep DEF RowsInv

LEMMA QuarantineSound ==
  ASSUME AttemptInv, NEW d \in Workers, Attempt!Quarantine(d)
  PROVE  AttemptInv'
<1>1. CASE Attempt!FencedOut(d)
  BY <1>1, FencedSound
<1>2. CASE ~Attempt!FencedOut(d)
  <2>1. /\ daemon[d].pc = "quarantine" /\ Attempt!Leased(d) /\ Attempt!Stop(d)
        /\ attempt' = [attempt EXCEPT !.status = "quarantined", !.owner = NoDaemon,
                                      !.live = FALSE]
        /\ job' = [job EXCEPT !.status = "blocked"]
        /\ incident' = [status |-> "open", action |-> "none",
                        discardable |-> daemon[d].discardable]
        /\ UNCHANGED <<receipt, clone, proposal, requests, faults, reasons>>
    BY <1>2 DEF Attempt!Quarantine, Attempt!At, Attempt!git
  <2>2. AtItsStep(daemon[d]) /\ RowsInv /\ daemon[d].discardable \in BOOLEAN
    BY AtWork DEF Attempt!Memories
  <2>3. daemon[d].receipt = receipt
    BY <2>1, LeasedHolds
  <2>4. /\ attempt'.status = "quarantined" /\ attempt'.owner = NoDaemon
        /\ job'.status = "blocked" /\ job'.intent = job.intent /\ AttemptTyped'
    BY <2>1, <2>2 DEF RowsInv, AttemptTyped
  <2>5. incident'.status = "open" /\ (incident'.discardable <=> daemon[d].discardable)
        /\ ~DiscardAsked'
    BY <2>1 DEF DiscardAsked
  <2>6. RowsAgree'
    BY <2>1, <2>2, <2>3, <2>4, <2>5 DEF RowsInv, RowsAgree, AtItsStep
  <2> QED
    BY <2>1, <2>4, <2>6, ReleaseSound
<1> QED
  BY <1>1, <1>2

LEMMA AskSound ==
  ASSUME AttemptInv, NEW d \in Workers, Attempt!Ask(d)
  PROVE  AttemptInv'
<1>1. /\ daemon[d].pc = "running" /\ Attempt!Stop(d) /\ reasons' = reasons + 1
      /\ attempt.generation < MaxGeneration
      /\ UNCHANGED <<receipt, incident, clone, proposal, requests, faults>>
  BY DEF Attempt!Ask, Attempt!At, Attempt!git
<1>2. reasons' \in Nat
  BY <1>1, Counted
<1>3. CASE Attempt!EventAllowed(d)
  <2>1. /\ attempt' = [attempt EXCEPT !.status = "waiting_input",
                         !.generation = attempt.generation + 1, !.owner = NoDaemon,
                         !.live = FALSE, !.asked = daemon[d].run]
        /\ job' = [job EXCEPT !.status = "waiting_input"]
    BY <1>3, AtWork DEF Attempt!Ask, RowsInv, AttemptTyped
  <2>2. RowsInv /\ daemon[d].run \in 0 .. MaxGeneration
    BY AtWork DEF Attempt!Memories
  <2>3. /\ attempt'.status = "waiting_input" /\ attempt'.owner = NoDaemon
        /\ job'.status = "waiting_input" /\ job'.intent = job.intent
    BY <2>1, <2>2 DEF RowsInv, AttemptTyped
  <2>4. attempt.generation + 1 \in 0 .. MaxGeneration
    BY <1>1, <2>2, AttemptConstants DEF RowsInv, AttemptTyped
  <2>5. AttemptTyped'
    BY <1>1, <1>2, <2>1, <2>2, <2>4 DEF RowsInv, AttemptTyped
  <2>6. incident.status # "open" /\ ~DiscardAsked
    BY <1>1, <1>3, LeasedHolds DEF Attempt!EventAllowed, BeforeDiscard, DiscardSteps
  <2>7. RowsAgree'
    BY <1>1, <2>2, <2>3, <2>6 DEF RowsInv, RowsAgree, DiscardAsked
  <2> QED
    BY <1>1, <2>3, <2>5, <2>7, ReleaseSound
<1>4. CASE ~Attempt!EventAllowed(d)
  BY <1>1, <1>2, <1>4, StopSound, Counted DEF Attempt!Ask
<1> QED
  BY <1>3, <1>4

LEMMA CompleteSound ==
  ASSUME AttemptInv, NEW d \in Workers, Attempt!Complete(d)
  PROVE  AttemptInv'
<1> DEFINE outcome == Attempt!FinalOutcome(d)
<1>1. /\ daemon[d].pc = "complete" /\ Attempt!Leased(d) /\ Attempt!Stop(d)
      /\ UNCHANGED <<receipt, incident, clone, proposal, requests, faults, reasons>>
      /\ \/ /\ job' = [job EXCEPT !.status = outcome]
            /\ attempt' = [attempt EXCEPT !.status = outcome, !.owner = NoDaemon,
                                          !.live = FALSE]
         \/ UNCHANGED <<job, attempt>>
  BY DEF Attempt!Complete, Attempt!At, Attempt!git
<1>2. AtItsStep(daemon[d]) /\ RowsInv /\ daemon[d].receipt \in Attempt!Receipts
  BY AtWork DEF Attempt!Memories
<1>3. daemon[d].receipt = receipt /\ incident.status # "open" /\ ~DiscardAsked
  BY <1>1, LeasedHolds DEF BeforeDiscard, DiscardSteps
<1>4. /\ outcome \in Attempt!Outcomes
      /\ outcome = "succeeded" => receipt.completion = "succeeded" /\ receipt.cleaned
  <2>1. receipt.cleaned /\ receipt.completion # "none"
    BY <1>1, <1>2, <1>3 DEF AtItsStep, InOrder
  <2> QED
    BY <1>2, <1>3, <2>1 DEF Attempt!FinalOutcome, Attempt!Receipts, Attempt!Outcomes
<1> HIDE DEF outcome
<1>5. CASE UNCHANGED <<job, attempt>>
  BY <1>1, <1>5, StopSound, Counted
<1>6. CASE /\ job' = [job EXCEPT !.status = outcome]
           /\ attempt' = [attempt EXCEPT !.status = outcome, !.owner = NoDaemon,
                                         !.live = FALSE]
  <2>1. /\ attempt'.status = outcome /\ attempt'.owner = NoDaemon
        /\ job'.status = outcome /\ job'.intent = job.intent /\ AttemptTyped'
    BY <1>1, <1>2, <1>4, <1>6 DEF RowsInv, AttemptTyped
  <2>2. outcome \notin {"running", "cancel_requested", "quarantined"}
    BY <1>4 DEF Attempt!Outcomes
  <2>3. RowsAgree'
    BY <1>1, <1>2, <1>3, <1>4, <2>1, <2>2 DEF RowsInv, RowsAgree, DiscardAsked
  <2> QED
    BY <1>1, <2>1, <2>3, ReleaseSound
<1> QED
  BY <1>1, <1>5, <1>6

LEMMA RunStartedSound ==
  ASSUME AttemptInv, NEW d \in Workers, Attempt!RunStarted(d)
  PROVE  AttemptInv'
<1>1. /\ daemon[d].pc = "started"
      /\ UNCHANGED <<job, receipt, incident, clone, proposal, requests, faults, reasons>>
      /\ \/ /\ attempt' = [attempt EXCEPT !.run = daemon[d].run]
            /\ Attempt!Move(d, Attempt!To(d, "running")) /\ Attempt!Leased(d)
         \/ attempt' = attempt /\ Attempt!Stop(d)
  BY DEF Attempt!RunStarted, Attempt!EventAllowed, Attempt!At, Attempt!git
<1>2. CASE attempt' = attempt /\ Attempt!Stop(d)
  BY <1>1, <1>2, StopSound, Counted
<1>3. CASE /\ attempt' = [attempt EXCEPT !.run = daemon[d].run]
           /\ Attempt!Move(d, Attempt!To(d, "running")) /\ Attempt!Leased(d)
  <2> DEFINE n == Attempt!To(d, "running")
  <2>1. AtItsStep(daemon[d]) /\ AgreesWithRows(d) /\ RowsInv /\ daemon[d] \in Attempt!Memories
        /\ daemon[d].run \in 0 .. MaxGeneration
    BY AtWork DEF Attempt!Memories
  <2>2. /\ n \in Attempt!Memories /\ n.pc = "running" /\ n.receipt = daemon[d].receipt
        /\ n.generation = daemon[d].generation /\ n.cancel = daemon[d].cancel
        /\ n.head = daemon[d].head
    BY <2>1, ToIs DEF Attempt!RunSteps
  <2> HIDE DEF n
  <2>3. AtItsStep(n)
    BY <1>1, <2>1, <2>2 DEF AtItsStep, PreparingSteps, CommitSteps, HeadSteps
  <2>4. /\ attempt'.status = attempt.status /\ attempt'.owner = attempt.owner
        /\ attempt'.generation = attempt.generation /\ AttemptTyped'
    BY <1>1, <1>3, <2>1 DEF RowsInv, AttemptTyped
  <2>5. RowsAgree' /\ CloneAgrees' /\ RequestRecorded'
    BY <1>1, <2>1, <2>4 DEF RowsInv, RowsAgree, CloneAgrees, RequestRecorded, DiscardAsked
  <2>6. daemon' = [daemon EXCEPT ![d] = n] /\ daemon'[d] = n
    BY <1>3 DEF Attempt!Move, n, AttemptInv
  <2>7. Holds(d) /\ attempt.owner = d /\ ~DiscardAsked
    BY <1>1, <1>3, LeasedHolds DEF BeforeDiscard, DiscardSteps
  <2>8. AgreesWithRows(d)'
    BY <1>1, <2>1, <2>2, <2>6, <2>7 DEF AgreesWithRows, DiscardSteps, DiscardAsked, AtItsStep,
       HeadSteps
  <2>9. MayClean(receipt) => MayClean(receipt')
    BY <1>1
  <2> QED
    BY <1>1, <2>3, <2>4, <2>5, <2>6, <2>7, <2>8, <2>9, LeasedStep DEF RowsInv
<1> QED
  BY <1>1, <1>2, <1>3

-----------------------------------------------------------------------------
(* Claims, and commands of people.                                         *)

LEMMA ClaimAttemptSound ==
  ASSUME AttemptInv, NEW d \in Workers, Attempt!Claim(d)
  PROVE  AttemptInv'
<1> DEFINE g == attempt.generation + 1
           run == IF Attempt!RunForgotten THEN Attempt!Nothing ELSE attempt.run
           asked == job.status = "cancel_requested"
           n == [Attempt!Idle EXCEPT !.pc = "handshake", !.generation = g,
                   !.receipt = receipt, !.claimRun = run,
                   !.answer = attempt.answer, !.cancel = asked]
<1>1. /\ attempt.generation < MaxGeneration /\ Attempt!Claimable
      /\ attempt' = [attempt EXCEPT !.status = "running", !.generation = g,
                       !.owner = d, !.live = TRUE, !.run = run]
      /\ daemon' = [daemon EXCEPT ![d] = n]
      /\ \E s \in {job.status, "running"} : job' = [job EXCEPT !.status = s]
      /\ job'.status = "cancel_requested" => asked
      /\ UNCHANGED <<receipt, incident, clone, proposal, requests, faults, reasons>>
  <2>1. job \in [status : {"queued", "running", "waiting_input", "blocked",
                           "cancel_requested"} \cup Attempt!Outcomes, intent : BOOLEAN]
    BY DEF AttemptInv, RowsInv, AttemptTyped
  <2> QED
    BY <2>1 DEF Attempt!Claim, Attempt!Move, Attempt!git
<1>2. RowsInv /\ receipt \in Attempt!Receipts /\ InOrder(receipt)
  BY DEF AttemptInv, RowsInv, AttemptTyped, RowsAgree
<1>3. /\ g \in 0 .. MaxGeneration /\ g # 0 /\ run \in 0 .. MaxGeneration
      /\ asked \in BOOLEAN /\ attempt.answer \in 0 .. MaxGeneration
  BY <1>1, <1>2, AttemptConstants DEF RowsInv, AttemptTyped, Attempt!Nothing
<1>4. asked => job.intent
  BY <1>2 DEF RowsInv, RowsAgree
<1>5. job.status \in {"queued", "running", "cancel_requested"} /\ attempt.status # "quarantined"
  BY <1>1 DEF Attempt!Claimable
<1> HIDE DEF g, run, asked
<1>6. /\ n \in Attempt!Memories /\ n.pc = "handshake" /\ n.receipt = receipt
      /\ n.generation = g /\ n.head = Attempt!Nothing /\ n.cancel = asked
  <2>1. Attempt!Idle \in Attempt!Memories
    BY IdleAtItsStep DEF AtItsStep
  <2>2. Attempt!Idle.head = Attempt!Nothing
    BY DEF Attempt!Idle
  <2> QED
    BY <1>2, <1>3, <2>1, <2>2 DEF Attempt!Memories, Attempt!StoreSteps
<1> HIDE DEF n
<1>7. AtItsStep(n)
  BY <1>2, <1>3, <1>6 DEF AtItsStep, PreparingSteps, CommitSteps, HeadSteps
<1>8. /\ attempt'.status = "running" /\ attempt'.owner = d /\ AttemptTyped'
      /\ job'.intent = job.intent /\ job'.status # "succeeded"
  BY <1>1, <1>2, <1>3, <1>5 DEF RowsInv, AttemptTyped
<1>9. RowsAgree' /\ CloneAgrees' /\ RequestRecorded'
  BY <1>1, <1>2, <1>4, <1>5, <1>8
     DEF RowsInv, RowsAgree, CloneAgrees, RequestRecorded, DiscardAsked
<1>10. AgreesWithRows(d)'
  <2>1. daemon'[d] = n
    BY <1>1 DEF AttemptInv
  <2> QED
    BY <1>1, <1>4, <1>6, <1>8, <2>1 DEF AgreesWithRows, BeforeDiscard, DiscardSteps
<1>11. MayClean(receipt) => MayClean(receipt')
  BY <1>1
<1> QED
  BY <1>1, <1>7, <1>8, <1>9, <1>10, <1>11, LeasedStep DEF RowsInv

LEMMA CommandSound ==
  ASSUME AttemptInv, UNCHANGED <<receipt, clone, proposal, requests, daemon>>,
         AttemptTyped', RowsAgree', job.intent => job'.intent,
         \A e \in Workers : Holds(e)' => Holds(e) /\ UNCHANGED incident
  PROVE  AttemptInv'
<1>1. CloneAgrees' /\ RequestRecorded'
  BY DEF AttemptInv, RowsInv, CloneAgrees, RequestRecorded
<1>2. ASSUME NEW e \in Workers PROVE AgreesWithRows(e)'
  BY AtWork DEF AgreesWithRows, MayClean, DiscardAsked
<1> QED
  BY <1>1, <1>2 DEF AttemptInv, RowsInv

LEMMA CancelSound ==
  ASSUME AttemptInv, Attempt!Cancel
  PROVE  AttemptInv'
<1>1. /\ \E s \in {"cancel_requested", "cancelled"} :
           /\ job' = [status |-> s, intent |-> TRUE]
           /\ job.status \in {"blocked", "cancelled"} => s = "cancelled"
      /\ \/ attempt' = [attempt EXCEPT !.asked = Attempt!Nothing]
         \/ /\ attempt.status = "pending"
            /\ attempt' = [attempt EXCEPT !.status = "cancelled"]
         \/ attempt' = attempt
      /\ reasons' = reasons + 1
      /\ UNCHANGED <<receipt, incident, clone, proposal, requests, daemon, faults>>
  BY DEF Attempt!Cancel, Attempt!git
<1>2. RowsInv
  BY DEF AttemptInv
<1>3. 0 \in 0 .. MaxGeneration
  BY AttemptConstants
<1>4. /\ attempt'.owner = attempt.owner /\ attempt'.generation = attempt.generation
      /\ \/ attempt'.status = attempt.status
         \/ attempt.status = "pending" /\ attempt'.status = "cancelled"
      /\ job'.intent /\ job'.status \in {"cancel_requested", "cancelled"}
      /\ job.status \in {"blocked", "cancelled"} => job'.status = "cancelled"
  BY <1>1, <1>2 DEF RowsInv, AttemptTyped
<1>7. AttemptTyped'
  <2>1. job' \in [status : {"queued", "running", "waiting_input", "blocked",
                           "cancel_requested"} \cup Attempt!Outcomes, intent : BOOLEAN]
    BY <1>1 DEF Attempt!Outcomes
  <2>2. attempt' \in [status : {"pending", "running", "waiting_input",
                               "quarantined"} \cup Attempt!Outcomes,
                     generation : 0 .. MaxGeneration,
                     owner : Workers \cup {NoDaemon}, live : BOOLEAN,
                     run : 0 .. MaxGeneration, asked : 0 .. MaxGeneration,
                     answer : 0 .. MaxGeneration]
    BY <1>1, <1>2, <1>3 DEF RowsInv, AttemptTyped, Attempt!Nothing, Attempt!Outcomes
  <2> QED
    BY <1>1, <1>2, <2>1, <2>2, Counted DEF RowsInv, AttemptTyped
<1>5. RowsAgree'
  BY <1>1, <1>2, <1>4 DEF RowsInv, RowsAgree, DiscardAsked
<1>6. \A e \in Workers : Holds(e)' => Holds(e) /\ UNCHANGED incident
  BY <1>1, <1>4 DEF Holds
<1> QED
  BY <1>1, <1>4, <1>5, <1>6, <1>7, CommandSound

LEMMA AnswerSound ==
  ASSUME AttemptInv, Attempt!Answer
  PROVE  AttemptInv'
<1>1. /\ job' = [job EXCEPT !.status = "queued"]
      /\ attempt' = [attempt EXCEPT !.status = "pending",
                       !.answer = attempt.asked, !.asked = Attempt!Nothing]
      /\ reasons' = reasons + 1 /\ job.status = "waiting_input"
      /\ UNCHANGED <<receipt, incident, clone, proposal, requests, daemon, faults>>
  BY DEF Attempt!Answer, Attempt!git
<1>2. RowsInv
  BY DEF AttemptInv
<1>3. 0 \in 0 .. MaxGeneration
  BY AttemptConstants
<1>4. /\ attempt'.owner = attempt.owner /\ attempt'.generation = attempt.generation
      /\ attempt'.status = "pending"
      /\ job'.intent = job.intent /\ job'.status = "queued"
  BY <1>1, <1>2 DEF RowsInv, AttemptTyped
<1>7. AttemptTyped'
  <2>1. job' \in [status : {"queued", "running", "waiting_input", "blocked",
                           "cancel_requested"} \cup Attempt!Outcomes, intent : BOOLEAN]
    BY <1>1, <1>2 DEF RowsInv, AttemptTyped
  <2>2. attempt' \in [status : {"pending", "running", "waiting_input",
                               "quarantined"} \cup Attempt!Outcomes,
                     generation : 0 .. MaxGeneration,
                     owner : Workers \cup {NoDaemon}, live : BOOLEAN,
                     run : 0 .. MaxGeneration, asked : 0 .. MaxGeneration,
                     answer : 0 .. MaxGeneration]
    BY <1>1, <1>2, <1>3 DEF RowsInv, AttemptTyped, Attempt!Nothing
  <2> QED
    BY <1>1, <1>2, <2>1, <2>2, Counted DEF RowsInv, AttemptTyped
<1>5. RowsAgree'
  BY <1>1, <1>2, <1>4 DEF RowsInv, RowsAgree, DiscardAsked
<1>6. \A e \in Workers : Holds(e)' => Holds(e) /\ UNCHANGED incident
  BY <1>1, <1>4 DEF Holds
<1> QED
  BY <1>1, <1>4, <1>5, <1>6, <1>7, CommandSound

LEMMA RequestRecoverySound ==
  ASSUME AttemptInv, NEW action \in {"retry", "discard"},
         Attempt!RequestRecovery(action)
  PROVE  AttemptInv'
<1>1. /\ incident.status = "open" /\ (action = "discard" => incident.discardable)
      /\ attempt.status = "quarantined"
      /\ incident' = [incident EXCEPT !.status = "action_requested", !.action = action]
      /\ job' = [job EXCEPT !.status = "queued"]
      /\ attempt' = [attempt EXCEPT !.status = "pending"]
      /\ reasons' = reasons + 2
      /\ UNCHANGED <<receipt, clone, proposal, requests, daemon, faults>>
  BY DEF Attempt!RequestRecovery, Attempt!git
<1>2. RowsInv
  BY DEF AttemptInv
<1>3. /\ attempt'.owner = attempt.owner /\ attempt'.status = "pending"
      /\ job'.intent = job.intent /\ job'.status = "queued"
      /\ incident'.status = "action_requested" /\ incident'.action = action
  BY <1>1, <1>2 DEF RowsInv, AttemptTyped
<1>4. attempt.owner = NoDaemon
  BY <1>1, <1>2 DEF RowsInv, RowsAgree
<1>5. AttemptTyped'
  <2>1. reasons' \in Nat /\ faults' \in 0 .. MaxFaults
    BY <1>1, Counted
  <2> QED
    BY <1>1, <1>2, <2>1 DEF RowsInv, AttemptTyped
<1>6. DiscardAsked' => MayDiscard(receipt)
  BY <1>1, <1>2, <1>3 DEF RowsInv, RowsAgree, DiscardAsked
<1>7. RowsAgree'
  BY <1>1, <1>2, <1>3, <1>4, <1>6 DEF RowsInv, RowsAgree
<1>8. \A e \in Workers : ~Holds(e)'
  BY <1>3, <1>4, AttemptConstants DEF Holds
<1> QED
  BY <1>1, <1>3, <1>5, <1>7, <1>8, CommandSound

LEMMA LeaseEndsSound ==
  ASSUME AttemptInv, Attempt!Expire
  PROVE  AttemptInv'
<1>1. /\ attempt' = [attempt EXCEPT !.live = FALSE]
      /\ UNCHANGED <<job, receipt, incident, clone, proposal, requests, daemon>>
      /\ faults' \in 0 .. MaxFaults /\ reasons' \in Nat
  BY Counted, AttemptConstants DEF Attempt!Expire, Attempt!git
<1>2. RowsInv
  BY DEF AttemptInv
<1>3. /\ attempt'.owner = attempt.owner /\ attempt'.generation = attempt.generation
      /\ attempt'.status = attempt.status /\ AttemptTyped'
  BY <1>1, <1>2 DEF RowsInv, AttemptTyped
<1>4. RowsAgree'
  BY <1>1, <1>2, <1>3 DEF RowsInv, RowsAgree, DiscardAsked
<1>5. \A e \in Workers : Holds(e)' => Holds(e) /\ UNCHANGED incident
  BY <1>1, <1>3 DEF Holds
<1> QED
  BY <1>1, <1>3, <1>4, <1>5, CommandSound

-----------------------------------------------------------------------------
(* The invariant of an attempt, and what it says.                          *)

LEMMA AttemptInvInit == Attempt!Init => AttemptInv
<1> SUFFICES ASSUME Attempt!Init PROVE AttemptInv
  OBVIOUS
<1> USE AttemptConstants
<1>1. \A d \in Workers : daemon[d] = Attempt!Idle
  BY DEF Attempt!Init
<1>2. Attempt!Idle \in Attempt!Memories
  BY IdleAtItsStep DEF AtItsStep
<1>3. daemon \in [Workers -> Attempt!Memories]
  BY <1>2 DEF Attempt!Init
<1>4. Attempt!NoReceipt \in Attempt!Receipts /\ InOrder(Attempt!NoReceipt)
  BY IdleAtItsStep DEF AtItsStep, Attempt!Idle, Attempt!Memories
<1>5. AttemptTyped
  BY <1>4 DEF Attempt!Init, AttemptTyped, Attempt!CloneStates, Attempt!Nothing, Attempt!NoBranch
<1>6. RowsAgree
  BY <1>4 DEF Attempt!Init, RowsAgree, DiscardAsked
<1>7. CloneAgrees /\ RequestRecorded
  BY DEF Attempt!Init, CloneAgrees, RequestRecorded, Attempt!NoReceipt, Attempt!Generations,
     Attempt!NotYet, Attempt!NoBranch
<1>8. \A d \in Workers : AgreesWithRows(d)
  BY <1>1 DEF AgreesWithRows, Holds, Attempt!Idle, DiscardSteps, Attempt!Nothing
<1> QED
  BY <1>1, <1>3, <1>5, <1>6, <1>7, <1>8, IdleAtItsStep DEF AttemptInv, RowsInv

LEMMA AttemptInvStep == AttemptInv /\ [Attempt!Next]_attemptVars => AttemptInv'
<1> SUFFICES ASSUME AttemptInv, [Attempt!Next]_attemptVars PROVE AttemptInv'
  OBVIOUS
<1>1. CASE UNCHANGED attemptVars
  <2>1. UNCHANGED <<job, attempt, receipt, incident, clone, proposal, requests, daemon,
                    faults, reasons>>
    BY <1>1 DEF attemptVars
  <2>2. AttemptTyped' /\ RowsAgree'
    BY <2>1 DEF AttemptInv, RowsInv, AttemptTyped, RowsAgree, DiscardAsked
  <2>3. \A e \in Workers : Holds(e)' => Holds(e) /\ UNCHANGED incident
    BY <2>1 DEF Holds
  <2> QED
    BY <2>1, <2>2, <2>3, CommandSound
<1>2. CASE Attempt!Cancel \/ Attempt!Answer \/ Attempt!Expire
           \/ \E action \in {"retry", "discard"} : Attempt!RequestRecovery(action)
  BY <1>2, CancelSound, AnswerSound, LeaseEndsSound, RequestRecoverySound
<1>3. ASSUME NEW d \in Workers, Attempt!GitOperation(d) PROVE AttemptInv'
  BY <1>3, RecoverSound, DiscardSound, PrepareSound, MakeCloneSound, CheckoutSound,
     FinalizeSound, CommitSound, PublishProposalSound, CleanupSound
     DEF Attempt!GitOperation
<1>4. ASSUME NEW d \in Workers, Attempt!StoreWrite(d) PROVE AttemptInv'
  BY <1>4, HandshakeSound, ReadRecoverySound, ResolveDiscardSound, ResolveRetrySound,
     QuarantineSound, SavePreparedSound, PersistTerminalSound, SaveFinalizedSound,
     CreateRequestSound, SaveCleanedSound, CompleteSound, FencedSound
     DEF Attempt!StoreWrite, Attempt!CompleteFenced
<1>5. ASSUME NEW d \in Workers, Attempt!NativeRun(d) PROVE AttemptInv'
  BY <1>5, RunSound, RunStartedSound DEF Attempt!NativeRun
<1>6. ASSUME NEW d \in Workers,
             \/ Attempt!Claim(d) \/ Attempt!DaemonStep(d) \/ Attempt!Ask(d)
             \/ Attempt!RunWrites(d) \/ Attempt!HeartbeatCancels(d)
             \/ Attempt!HeartbeatFenced(d) \/ Attempt!HeartbeatFails(d)
             \/ Attempt!Crash(d)
      PROVE  AttemptInv'
  BY <1>3, <1>4, <1>5, <1>6, ClaimAttemptSound, AskSound, RunWritesSound, HeartbeatCancelsSound,
     HeartbeatSound DEF Attempt!DaemonStep
<1> QED
  BY <1>1, <1>2, <1>6 DEF Attempt!Next

LEMMA AttemptInvSound == AttemptInv => ProposalSound
<1> SUFFICES ASSUME AttemptInv PROVE ProposalSound
  OBVIOUS
<1>1. AttemptTyped /\ RowsAgree /\ CloneAgrees /\ RequestRecorded /\ InOrder(receipt)
  BY DEF AttemptInv, RowsInv, RowsAgree
<1>2. receipt.request \in {Attempt!Nothing} \cup Attempt!Generations
      /\ receipt.finalized \in Attempt!NotYet .. MaxGeneration
      /\ receipt.cleaned \in BOOLEAN
  BY <1>1 DEF AttemptTyped, Attempt!Receipts
<1>3. requests \subseteq Attempt!Generations
  BY <1>1, <1>2 DEF RequestRecorded
<1>4. Attempt!TypeOK
  BY <1>1, <1>3 DEF AttemptInv, AttemptTyped, Attempt!TypeOK
<1>5. Cardinality(requests) <= 1
  <2>1. CASE requests = {}
    BY <2>1, FS_EmptySet
  <2>2. CASE requests = {receipt.request}
    <3>1. Cardinality(requests) = 1
      BY ONLY <2>2, FS_Singleton, Zenon
    <3> QED
      BY <3>1
  <2> QED
    BY <1>1, <2>1, <2>2 DEF RequestRecorded
<1>6. \A commit \in requests : proposal = commit /\ receipt.finalized = commit
  BY <1>1, <1>2, <1>3 DEF RequestRecorded, InOrder, CloneAgrees
<1>7. Attempt!OneProposal
  <2>1. Attempt!Cardinality(requests) = Cardinality(requests)
    BY Zenon DEF Attempt!Cardinality, Cardinality
  <2> QED
    BY <1>5, <1>6, <2>1 DEF Attempt!OneProposal
<1>8. Attempt!DoneIsProposed
  <2> SUFFICES ASSUME job.status = "succeeded" PROVE Attempt!DoneIsProposed
    BY DEF Attempt!DoneIsProposed
  <2>1. receipt.completion = "succeeded" /\ receipt.cleaned
        /\ Attempt!Stage(receipt) = "complete"
    BY <1>1 DEF RowsAgree, InOrder
  <2>2. receipt \in Attempt!Receipts
    BY <1>1 DEF AttemptTyped
  <2>3. /\ receipt.finalized # Attempt!NotYet
        /\ receipt.finalized \in Attempt!Generations => receipt.request # Attempt!Nothing
    BY <2>1, <2>2, StageIs
  <2> QED
    BY <1>1, <2>1, <2>3 DEF RequestRecorded, InOrder, Attempt!DoneIsProposed
<1> QED
  BY <1>4, <1>7, <1>8 DEF ProposalSound

-----------------------------------------------------------------------------
(* What a step may never do to the clone, the receipt and the job.         *)

(* Steps that leave the clone alone, and those that write no receipt.      *)
LEMMA CloneStepsAre ==
  ASSUME Attempt!Next, clone' # clone
  PROVE  \E d \in Workers :
           \/ Attempt!Discard(d) \/ Attempt!MakeClone(d) \/ Attempt!Checkout(d)
           \/ Attempt!Mark(d) \/ Attempt!Commit(d) \/ Attempt!Cleanup(d)
           \/ Attempt!RunWrites(d)
<1>1. ~Attempt!Cancel /\ ~Attempt!Answer /\ ~Attempt!Expire
      /\ \A action \in {"retry", "discard"} : ~Attempt!RequestRecovery(action)
  BY DEF Attempt!Cancel, Attempt!Answer, Attempt!Expire, Attempt!RequestRecovery, Attempt!git
<1>2. ASSUME NEW d \in Workers, Attempt!GitOperation(d)
      PROVE  \/ Attempt!Discard(d) \/ Attempt!MakeClone(d) \/ Attempt!Checkout(d)
             \/ Attempt!Mark(d) \/ Attempt!Commit(d) \/ Attempt!Cleanup(d)
  BY <1>2 DEF Attempt!GitOperation, Attempt!RecoverSuspended, Attempt!Prepare,
     Attempt!Finalize, Attempt!Publish, Attempt!git
<1>3. ASSUME NEW d \in Workers PROVE ~Attempt!StoreWrite(d) /\ ~Attempt!NativeRun(d)
  <2>1. ~Attempt!FencedOut(d)
    BY DEF Attempt!FencedOut, Attempt!git
  <2>2. ~Attempt!Handshake(d) /\ ~Attempt!ReadRecovery(d) /\ ~Attempt!ResolveDiscard(d)
        /\ ~Attempt!ResolveRetry(d) /\ ~Attempt!Quarantine(d) /\ ~Attempt!SavePrepared(d)
        /\ ~Attempt!PersistTerminal(d)
    BY <2>1 DEF Attempt!Handshake, Attempt!ReadRecovery, Attempt!ResolveDiscard,
       Attempt!ResolveRetry, Attempt!Quarantine, Attempt!SavePrepared,
       Attempt!PersistTerminal, Attempt!git
  <2>3. ~Attempt!SaveFinalized(d) /\ ~Attempt!CreateRequest(d) /\ ~Attempt!SaveCleaned(d)
        /\ ~Attempt!Complete(d) /\ ~Attempt!CompleteFenced(d)
    BY <2>1 DEF Attempt!SaveFinalized, Attempt!CreateRequest, Attempt!SaveCleaned,
       Attempt!Complete, Attempt!CompleteFenced, Attempt!git
  <2>4. ~Attempt!NativeRun(d)
    BY DEF Attempt!NativeRun, Attempt!StartRun, Attempt!RunStarted, Attempt!RunEnds,
       Attempt!git
  <2> QED
    BY <2>2, <2>3, <2>4 DEF Attempt!StoreWrite
<1>4. ASSUME NEW d \in Workers
      PROVE  ~Attempt!Claim(d) /\ ~Attempt!Ask(d) /\ ~Attempt!HeartbeatCancels(d)
             /\ ~Attempt!HeartbeatFenced(d) /\ ~Attempt!HeartbeatFails(d)
             /\ ~Attempt!Crash(d)
  BY DEF Attempt!Claim, Attempt!Ask, Attempt!HeartbeatCancels, Attempt!HeartbeatFenced,
     Attempt!HeartbeatFails, Attempt!Crash, Attempt!git
<1> QED
  BY <1>1, <1>2, <1>3, <1>4 DEF Attempt!Next, Attempt!DaemonStep

LEMMA ReceiptStepsAre ==
  ASSUME Attempt!Next, receipt' # receipt
  PROVE  \E d \in Workers :
           \/ Attempt!ResolveDiscard(d) \/ Attempt!SavePrepared(d)
           \/ Attempt!PersistTerminal(d) \/ Attempt!SaveFinalized(d)
           \/ Attempt!CreateRequest(d) \/ Attempt!SaveCleaned(d)
<1>1. ~Attempt!Cancel /\ ~Attempt!Answer /\ ~Attempt!Expire
      /\ \A action \in {"retry", "discard"} : ~Attempt!RequestRecovery(action)
  BY DEF Attempt!Cancel, Attempt!Answer, Attempt!Expire, Attempt!RequestRecovery
<1>2. ASSUME NEW d \in Workers PROVE ~Attempt!GitOperation(d)
  <2>1. ~Attempt!PrepareFails(d)
    BY DEF Attempt!PrepareFails, Attempt!durable
  <2>2. ~Attempt!RecoverSuspended(d) /\ ~Attempt!Discard(d) /\ ~Attempt!Prepare(d)
        /\ ~Attempt!MakeClone(d) /\ ~Attempt!Checkout(d) /\ ~Attempt!Mark(d)
    BY <2>1 DEF Attempt!RecoverSuspended, Attempt!Discard, Attempt!Prepare,
       Attempt!MakeClone, Attempt!Checkout, Attempt!Mark, Attempt!durable
  <2>3. ~Attempt!Finalize(d) /\ ~Attempt!Commit(d) /\ ~Attempt!Publish(d)
        /\ ~Attempt!Cleanup(d)
    BY DEF Attempt!Finalize, Attempt!Commit, Attempt!Publish, Attempt!Cleanup,
       Attempt!durable
  <2> QED
    BY <2>2, <2>3 DEF Attempt!GitOperation
<1>3. ASSUME NEW d \in Workers, Attempt!StoreWrite(d)
      PROVE  \/ Attempt!ResolveDiscard(d) \/ Attempt!SavePrepared(d)
             \/ Attempt!PersistTerminal(d) \/ Attempt!SaveFinalized(d)
             \/ Attempt!CreateRequest(d) \/ Attempt!SaveCleaned(d)
  <2>1. ~Attempt!FencedOut(d)
    BY DEF Attempt!FencedOut, Attempt!durable
  <2> QED
    BY <1>3, <2>1 DEF Attempt!StoreWrite, Attempt!Handshake, Attempt!ReadRecovery,
       Attempt!ResolveRetry, Attempt!Quarantine, Attempt!Complete, Attempt!CompleteFenced,
       Attempt!durable
<1>4. ASSUME NEW d \in Workers
      PROVE  ~Attempt!Claim(d) /\ ~Attempt!Ask(d) /\ ~Attempt!HeartbeatCancels(d)
             /\ ~Attempt!HeartbeatFenced(d) /\ ~Attempt!HeartbeatFails(d)
             /\ ~Attempt!Crash(d) /\ ~Attempt!NativeRun(d) /\ ~Attempt!RunWrites(d)
  BY DEF Attempt!Claim, Attempt!Ask, Attempt!HeartbeatCancels, Attempt!HeartbeatFenced,
     Attempt!HeartbeatFails, Attempt!Crash, Attempt!NativeRun, Attempt!StartRun,
     Attempt!RunStarted, Attempt!RunEnds, Attempt!RunWrites, Attempt!durable
<1> QED
  BY <1>1, <1>2, <1>3, <1>4 DEF Attempt!Next, Attempt!DaemonStep

LEMMA JobStepsAre ==
  ASSUME Attempt!Next, job' # job
  PROVE  \/ Attempt!Cancel \/ Attempt!Answer
         \/ \E action \in {"retry", "discard"} : Attempt!RequestRecovery(action)
         \/ \E d \in Workers : \/ Attempt!Claim(d) \/ Attempt!Ask(d)
                               \/ Attempt!Quarantine(d) \/ Attempt!Complete(d)
<1>1. ~Attempt!Expire
  BY DEF Attempt!Expire
<1>2. ASSUME NEW d \in Workers PROVE ~Attempt!GitOperation(d)
  <2>1. ~Attempt!PrepareFails(d)
    BY DEF Attempt!PrepareFails, Attempt!durable
  <2>2. ~Attempt!RecoverSuspended(d) /\ ~Attempt!Discard(d) /\ ~Attempt!Prepare(d)
        /\ ~Attempt!MakeClone(d) /\ ~Attempt!Checkout(d) /\ ~Attempt!Mark(d)
    BY <2>1 DEF Attempt!RecoverSuspended, Attempt!Discard, Attempt!Prepare,
       Attempt!MakeClone, Attempt!Checkout, Attempt!Mark, Attempt!durable
  <2>3. ~Attempt!Finalize(d) /\ ~Attempt!Commit(d) /\ ~Attempt!Publish(d)
        /\ ~Attempt!Cleanup(d)
    BY DEF Attempt!Finalize, Attempt!Commit, Attempt!Publish, Attempt!Cleanup,
       Attempt!durable
  <2> QED
    BY <2>2, <2>3 DEF Attempt!GitOperation
<1>3. ASSUME NEW d \in Workers, Attempt!StoreWrite(d)
      PROVE  Attempt!Quarantine(d) \/ Attempt!Complete(d)
  <2>1. ~Attempt!FencedOut(d)
    BY DEF Attempt!FencedOut, Attempt!durable
  <2>2. ~Attempt!Handshake(d) /\ ~Attempt!ReadRecovery(d) /\ ~Attempt!ResolveDiscard(d)
        /\ ~Attempt!ResolveRetry(d) /\ ~Attempt!SavePrepared(d)
        /\ ~Attempt!PersistTerminal(d)
    BY <2>1 DEF Attempt!Handshake, Attempt!ReadRecovery, Attempt!ResolveDiscard,
       Attempt!ResolveRetry, Attempt!SavePrepared, Attempt!PersistTerminal, Attempt!durable
  <2>3. ~Attempt!SaveFinalized(d) /\ ~Attempt!CreateRequest(d) /\ ~Attempt!SaveCleaned(d)
        /\ ~Attempt!CompleteFenced(d)
    BY <2>1 DEF Attempt!SaveFinalized, Attempt!CreateRequest, Attempt!SaveCleaned,
       Attempt!CompleteFenced
  <2> QED
    BY <1>3, <2>2, <2>3 DEF Attempt!StoreWrite
<1>4. ASSUME NEW d \in Workers
      PROVE  /\ ~Attempt!HeartbeatCancels(d) /\ ~Attempt!HeartbeatFenced(d)
             /\ ~Attempt!HeartbeatFails(d) /\ ~Attempt!Crash(d)
             /\ ~Attempt!NativeRun(d) /\ ~Attempt!RunWrites(d)
  BY DEF Attempt!HeartbeatCancels, Attempt!HeartbeatFenced, Attempt!HeartbeatFails,
     Attempt!Crash, Attempt!NativeRun, Attempt!StartRun, Attempt!RunStarted,
     Attempt!RunEnds, Attempt!RunWrites, Attempt!durable
<1> QED
  BY <1>1, <1>2, <1>3, <1>4 DEF Attempt!Next, Attempt!DaemonStep

(* Work leaves the clone in two steps only: a discard, and the cleanup of  *)
(* a receipt that says it may.                                             *)
WorkStays ==
  Attempt!UncommittedWorkGoes \/ Attempt!ProposalGoes =>
    \/ Attempt!DiscardingDaemon \/ receipt.finalized = Attempt!Nothing
    \/ receipt.completion \in {"failed", "cancelled"}

LEMMA WorkStaysStep ==
  ASSUME AttemptInv, [Attempt!Next]_attemptVars
  PROVE  WorkStays
<1>1. SUFFICES ASSUME Attempt!UncommittedWorkGoes \/ Attempt!ProposalGoes
               PROVE  \/ Attempt!DiscardingDaemon \/ receipt.finalized = Attempt!Nothing
                      \/ receipt.completion \in {"failed", "cancelled"}
  BY DEF WorkStays
<1>2. clone.state \in {"dirty", "head"} /\ clone' # clone
      /\ (clone.state = "dirty" => clone'.state # "head")
      /\ (clone.state = "head" => clone'.state = "absent")
  BY <1>1 DEF Attempt!UncommittedWorkGoes, Attempt!ProposalGoes
<1>3. Attempt!Next
  BY <1>2 DEF attemptVars
<1>4. PICK d \in Workers :
        \/ Attempt!Discard(d) \/ Attempt!MakeClone(d) \/ Attempt!Checkout(d)
        \/ Attempt!Mark(d) \/ Attempt!Commit(d) \/ Attempt!Cleanup(d)
        \/ Attempt!RunWrites(d)
  BY <1>2, <1>3, CloneStepsAre
<1>5. CASE Attempt!Discard(d)
  BY <1>5 DEF Attempt!Discard, Attempt!DiscardingDaemon
<1>6. CASE Attempt!Cleanup(d)
  <2>1. MayClean(receipt)
    BY <1>6, AtWork DEF Attempt!Cleanup, Attempt!At, AgreesWithRows
  <2>2. CASE receipt.request # Attempt!Nothing
    <3>1. CloneAgrees /\ RequestRecorded /\ InOrder(receipt) /\ receipt \in Attempt!Receipts
      BY DEF AttemptInv, RowsInv, RowsAgree, AttemptTyped
    <3>2. receipt.request \in requests
      BY <2>2, <3>1 DEF RequestRecorded
    <3>3. receipt.finalized = receipt.request /\ receipt.request \in Attempt!Generations
      BY <2>2, <3>1 DEF InOrder, Attempt!Receipts
    <3>4. proposal = receipt.request /\ clone.state # "dirty" /\ clone.commit = proposal
      BY <1>2, <3>1, <3>3 DEF CloneAgrees
    <3> QED
      BY <1>1, <3>2, <3>4 DEF Attempt!UncommittedWorkGoes, Attempt!ProposalGoes
  <2> QED
    BY <2>1, <2>2 DEF MayClean
<1>7. CASE Attempt!MakeClone(d) \/ Attempt!Checkout(d) \/ Attempt!Mark(d)
  <2>1. ~Attempt!PrepareFails(d)
    BY <1>2 DEF Attempt!PrepareFails, Attempt!git
  <2> QED
    BY <1>2, <1>7, <2>1 DEF Attempt!MakeClone, Attempt!Checkout, Attempt!Mark
<1>8. CASE Attempt!Commit(d)
  BY <1>2, <1>8 DEF Attempt!Commit, Attempt!HeadUnmoved
<1>9. CASE Attempt!RunWrites(d)
  BY <1>2, <1>9, CloneIs DEF Attempt!RunWrites, CloneRows
<1> QED
  BY <1>4, <1>5, <1>6, <1>7, <1>8, <1>9

ReceiptGoesForward ==
  receipt' \in {receipt, Attempt!NoReceipt} \/ Attempt!Advances(receipt, receipt')

LEMMA ReceiptGoesForwardStep ==
  ASSUME AttemptInv, [Attempt!Next]_attemptVars
  PROVE  ReceiptGoesForward
<1>1. SUFFICES ASSUME receipt' # receipt, receipt' # Attempt!NoReceipt
               PROVE  Attempt!Advances(receipt, receipt')
  BY DEF ReceiptGoesForward
<1>2. Attempt!Next
  BY <1>1 DEF attemptVars
<1>3. PICK d \in Workers :
        \/ Attempt!ResolveDiscard(d) \/ Attempt!SavePrepared(d)
        \/ Attempt!PersistTerminal(d) \/ Attempt!SaveFinalized(d)
        \/ Attempt!CreateRequest(d) \/ Attempt!SaveCleaned(d)
  BY <1>1, <1>2, ReceiptStepsAre
<1> DEFINE m == daemon[d]
<1>4. ~Attempt!FencedOut(d)
  BY <1>1 DEF Attempt!FencedOut, Attempt!durable
<1>5. CASE Attempt!ResolveDiscard(d)
  BY <1>1, <1>4, <1>5 DEF Attempt!ResolveDiscard
<1>6. receipt \in Attempt!Receipts /\ InOrder(receipt)
  BY DEF AttemptInv, RowsInv, RowsAgree, AttemptTyped
<1>7. AtItsStep(m)
  BY AtWork
<1>8. m.pc # "idle" /\ Attempt!Leased(d) => m.receipt = receipt
  BY LeasedHolds
<1>9. CASE Attempt!SavePrepared(d)
  <2>1. m.receipt = receipt /\ receipt' = [receipt EXCEPT !.prepared = TRUE]
    BY <1>4, <1>8, <1>9 DEF Attempt!SavePrepared, Attempt!At
  <2>2. receipt.prepared => receipt' = receipt
    BY <1>6, <2>1 DEF Attempt!Receipts
  <2>3. ~receipt.prepared /\ receipt = Attempt!NoReceipt
    BY <1>1, <1>6, <2>2 DEF InOrder
  <2> QED
    BY <2>1, <2>3 DEF Attempt!Advances
<1>10. CASE Attempt!PersistTerminal(d)
  <2>1. /\ m.receipt = receipt /\ m.pc = "terminal"
        /\ receipt' = [receipt EXCEPT !.completion = m.outcome]
    BY <1>1, <1>4, <1>8, <1>10 DEF Attempt!PersistTerminal, Attempt!At
  <2>2. receipt.prepared /\ receipt.completion = "none" /\ ~receipt.cleaned
    BY <1>6, <1>7, <2>1 DEF AtItsStep, PreparingSteps, InOrder
  <2>3. receipt'.completion = m.outcome
    BY <1>6, <2>1 DEF Attempt!Receipts
  <2> QED
    BY <2>1, <2>2, <2>3 DEF Attempt!Advances
<1>11. CASE Attempt!SaveFinalized(d)
  <2>1. /\ m.receipt = receipt /\ m.pc = "saveFinalized"
        /\ receipt' = [receipt EXCEPT !.finalized = m.head]
    BY <1>4, <1>8, <1>11 DEF Attempt!SaveFinalized, Attempt!At
  <2>2. receipt.completion = "succeeded" /\ receipt.finalized = Attempt!NotYet
    BY <1>7, <2>1 DEF AtItsStep, CommitSteps
  <2>3. Attempt!Stage(receipt) = "finalize"
    BY <2>2 DEF Attempt!Stage
  <2>4. receipt.prepared /\ ~receipt.cleaned
    BY <1>6, <2>2, <2>3 DEF InOrder, Attempt!NoReceipt
  <2>5. receipt'.finalized = m.head
    BY <1>6, <2>1 DEF Attempt!Receipts
  <2> QED
    BY <2>1, <2>2, <2>3, <2>4, <2>5 DEF Attempt!Advances
<1>12. CASE Attempt!CreateRequest(d)
  <2>1. /\ m.receipt = receipt /\ m.pc = "request"
        /\ receipt' = [receipt EXCEPT !.request = receipt.finalized]
    BY <1>4, <1>8, <1>12 DEF Attempt!CreateRequest, Attempt!At
  <2>2. Attempt!Stage(receipt) = "request"
    BY <1>7, <2>1 DEF AtItsStep
  <2>3. receipt.finalized # Attempt!NotYet
    BY <1>6, <2>2, StageIs, AttemptConstants DEF Attempt!Generations, Attempt!NotYet
  <2>4. receipt.prepared /\ ~receipt.cleaned /\ receipt.completion # "none"
    BY <1>6, <2>2, <2>3 DEF InOrder, Attempt!NoReceipt
  <2>5. receipt'.request = receipt.finalized
    BY <1>6, <2>1 DEF Attempt!Receipts
  <2> QED
    BY <2>1, <2>2, <2>4, <2>5 DEF Attempt!Advances
<1>13. CASE Attempt!SaveCleaned(d)
  <2>1. /\ m.receipt = receipt /\ m.pc = "saveCleaned"
        /\ receipt' = [receipt EXCEPT !.cleaned = TRUE]
    BY <1>4, <1>8, <1>13 DEF Attempt!SaveCleaned, Attempt!At
  <2>2. Attempt!Stage(receipt) = "cleanup" /\ receipt.completion # "none"
    BY <1>7, <2>1 DEF AtItsStep
  <2>3. receipt.prepared /\ ~receipt.cleaned
    BY <1>6, <2>2 DEF InOrder, Attempt!NoReceipt
  <2> QED
    BY <2>1, <2>2, <2>3 DEF Attempt!Advances
<1> QED
  BY <1>3, <1>5, <1>9, <1>10, <1>11, <1>12, <1>13

EndsAsRecorded ==
  job'.status \in Attempt!Outcomes /\ job.status # job'.status =>
    \/ job'.status = receipt.completion
    \/ job'.status = "cancelled" /\ job'.intent

LEMMA EndsAsRecordedStep ==
  ASSUME AttemptInv, [Attempt!Next]_attemptVars
  PROVE  EndsAsRecorded
<1>1. SUFFICES ASSUME job'.status \in Attempt!Outcomes, job.status # job'.status
               PROVE  \/ job'.status = receipt.completion
                      \/ job'.status = "cancelled" /\ job'.intent
  BY DEF EndsAsRecorded
<1>2. Attempt!Next /\ job' # job
  BY <1>1 DEF attemptVars
<1>3. job \in [status : {"queued", "running", "waiting_input", "blocked",
                         "cancel_requested"} \cup Attempt!Outcomes, intent : BOOLEAN]
  BY DEF AttemptInv, RowsInv, AttemptTyped
<1>4. CASE Attempt!Cancel
  <2>1. \E s \in {"cancel_requested", "cancelled"} : job' = [status |-> s, intent |-> TRUE]
    BY <1>4 DEF Attempt!Cancel
  <2> QED
    BY <1>1, <2>1 DEF Attempt!Outcomes
<1>5. CASE Attempt!Answer \/ \E action \in {"retry", "discard"} : Attempt!RequestRecovery(action)
  <2>1. job' = [job EXCEPT !.status = "queued"]
    BY <1>5 DEF Attempt!Answer, Attempt!RequestRecovery
  <2> QED
    BY <1>1, <1>3, <2>1 DEF Attempt!Outcomes
<1>6. ASSUME NEW d \in Workers, Attempt!Claim(d) \/ Attempt!Ask(d) \/ Attempt!Quarantine(d)
      PROVE  FALSE
  <2>1. ~Attempt!FencedOut(d)
    BY <1>2 DEF Attempt!FencedOut, Attempt!durable
  <2>2. \E s \in {"running", "waiting_input", "blocked"} : job' = [job EXCEPT !.status = s]
    <3>1. CASE Attempt!Claim(d)
      <4>1. job.status = "queued"
        BY <1>2, <1>3, <3>1 DEF Attempt!Claim
      <4> QED
        BY <3>1, <4>1 DEF Attempt!Claim
    <3>2. CASE Attempt!Ask(d)
      BY <1>2, <3>2 DEF Attempt!Ask
    <3>3. CASE Attempt!Quarantine(d)
      BY <2>1, <3>3 DEF Attempt!Quarantine
    <3> QED
      BY <1>6, <3>1, <3>2, <3>3
  <2> QED
    BY <1>1, <1>3, <2>2 DEF Attempt!Outcomes
<1>7. ASSUME NEW d \in Workers, Attempt!Complete(d)
      PROVE  \/ job'.status = receipt.completion
             \/ job'.status = "cancelled" /\ job'.intent
  <2>1. /\ daemon[d].pc = "complete" /\ Attempt!Leased(d)
        /\ job' = [job EXCEPT !.status = Attempt!FinalOutcome(d)]
    BY <1>2, <1>7 DEF Attempt!Complete, Attempt!At
  <2>2. job'.status = Attempt!FinalOutcome(d) /\ job'.intent = job.intent
    BY <1>3, <2>1
  <2>3. daemon[d].receipt = receipt /\ (daemon[d].cancel => job.intent)
    BY <2>1, LeasedHolds, AtWork DEF AgreesWithRows
  <2> QED
    BY <2>2, <2>3 DEF Attempt!FinalOutcome
<1> QED
  BY <1>2, <1>4, <1>5, <1>6, <1>7, JobStepsAre

-----------------------------------------------------------------------------
(* Whatever daemons crash, stall and come back, an attempt proposes its    *)
(* work once, and succeeds only with its work proposed.                    *)
LEMMA DaemonsStepIsAttempts ==
  ASSUME [DaemonsNext]_<<part, vars, attemptVars, pollVars>>
  PROVE  [Attempt!Next]_attemptVars
BY DEF DaemonsNext

THEOREM AttemptsAreSound == DaemonsSpec => []AttemptInv
<1>1. DaemonsInit => AttemptInv
  BY AttemptInvInit DEF DaemonsInit
<1>2. AttemptInv /\ [DaemonsNext]_<<part, vars, attemptVars, pollVars>> => AttemptInv'
  BY AttemptInvStep, DaemonsStepIsAttempts
<1> QED
  BY <1>1, <1>2, PTL DEF DaemonsSpec

THEOREM AttemptsProposeOnce == DaemonsSpec => []ProposalSound
BY AttemptsAreSound, AttemptInvSound, PTL

(* Finished work leaves the clone only when it is proposed, after a run    *)
(* that left nothing, or on the discard a person asked for; a daemon that  *)
(* lost its lease cannot remove what another one has yet to propose.       *)
THEOREM FinishedWorkIsKept == DaemonsSpec => WorkIsKept
<1>1. AttemptInv /\ [DaemonsNext]_<<part, vars, attemptVars, pollVars>> => [WorkStays]_Attempt!vars
  BY WorkStaysStep, DaemonsStepIsAttempts
<1>2. DaemonsSpec => [][WorkStays]_Attempt!vars
  BY <1>1, AttemptsAreSound, PTL DEF DaemonsSpec
<1> QED
  BY <1>2, PTL DEF WorkIsKept, Attempt!WorkIsKept, WorkStays

(* The receipt only moves forward, and the job ends as it says.            *)
THEOREM ReceiptsDecide == DaemonsSpec => ReceiptDecides
<1>1. AttemptInv /\ [DaemonsNext]_<<part, vars, attemptVars, pollVars>>
        => [ReceiptGoesForward]_receipt /\ [EndsAsRecorded]_Attempt!vars
  BY ReceiptGoesForwardStep, EndsAsRecordedStep, DaemonsStepIsAttempts
<1>2. DaemonsSpec => [][ReceiptGoesForward]_receipt /\ [][EndsAsRecorded]_Attempt!vars
  BY <1>1, AttemptsAreSound, PTL DEF DaemonsSpec
<1> QED
  BY <1>2, PTL DEF ReceiptDecides, Attempt!ReceiptAdvances, Attempt!OutcomeIsRecorded,
     ReceiptGoesForward, EndsAsRecorded
=============================================================================
