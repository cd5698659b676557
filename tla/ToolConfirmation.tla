--------------------------- MODULE ToolConfirmation ---------------------------
(***************************************************************************)
(* One RoomToolConfirmationRequest: an agent asks to start a job, the      *)
(* owners see the request as a card in the Room, and one of them approves  *)
(* or rejects it.  An approval is three transactions: reserve the request, *)
(* create the job under the key of the request, mark it executed; a failed *)
(* creation gives the reservation back.  The server may crash in between.  *)
(*                                                                         *)
(* A card never trusts an event: each event of the Room makes the browser  *)
(* list the pending requests again, as an error of its own decision does.  *)
(*                                                                         *)
(* Job creation is idempotent in its key (MutationRequest, EffectIsRecord):*)
(* a transaction that ran returns the receipt of the job it made.          *)
(***************************************************************************)
EXTENDS Naturals, Sequences

CONSTANTS
  Owners,       \* browsers of organization owners
  NoOwner,      \* no reservation
  Crashes,      \* whether the server may crash
  MaxRevision   \* bound on the revisions of the request

(* What the parameters must be; the instances assume it.                   *)
ConfirmationAssumption ==
  /\ NoOwner \notin Owners /\ Crashes \in BOOLEAN
  /\ MaxRevision \in Nat \ {0}

VARIABLES
  request,    \* the row; late is that expiresAt has passed
  jobs,       \* jobs created under the key of the request
  feed,       \* room.tool_confirmation events, by action
  decision,   \* the call each browser has under way
  card        \* what each browser shows

vars == <<request, jobs, feed, decision, card>>

Statuses == {"none", "pending", "approved", "executed", "rejected", "expired"}
Final == {"executed", "rejected", "expired"}
Holding == {"reserved", "created", "releasing"}

Requests == [status: Statuses, revision: Nat, holder: Owners \cup {NoOwner},
             late: BOOLEAN]
Decisions == [phase: {"idle", "reload"} \cup Holding, revision: Nat]
Cards == [shown: Nat, seen: Nat]

Init ==
  /\ request = [status |-> "none", revision |-> 0, holder |-> NoOwner,
                late |-> FALSE]
  /\ jobs = 0
  /\ feed = <<>>
  /\ decision = [o \in Owners |-> [phase |-> "idle", revision |-> 0]]
  /\ card = [o \in Owners |-> [shown |-> 0, seen |-> 0]]

-----------------------------------------------------------------------------
(* The row and its events                                                  *)

Moved(status) == [request EXCEPT !.status = status, !.revision = @ + 1]

(* transitionRequest and appendConfirmationEvent, in one transaction.      *)
Transition(row) ==
  /\ request' = row
  /\ feed' = Append(feed, row.status)

NoTransition == UNCHANGED <<request, feed>>

RequestConfirmation ==
  /\ request.status = "none"
  /\ request' = [request EXCEPT !.status = "pending", !.revision = 1]
  /\ feed' = Append(feed, "requested")
  /\ UNCHANGED <<jobs, decision, card>>

PassDeadline ==
  /\ request.status # "none"
  /\ ~request.late
  /\ request' = [request EXCEPT !.late = TRUE]
  /\ UNCHANGED <<jobs, feed, decision, card>>

Goto(o, phase) == decision' = [decision EXCEPT ![o].phase = phase]

-----------------------------------------------------------------------------
(* The cards                                                               *)

(* listRoomToolConfirmations expires what is overdue and returns what is   *)
(* pending; the browser has the events up to the ones before the list.     *)
Load(o) ==
  LET row == IF request.status = "pending" /\ request.late
               THEN Moved("expired") ELSE request
  IN /\ IF row = request THEN NoTransition ELSE Transition(row)
     /\ card' = [card EXCEPT
          ![o] = [shown |-> IF row.status = "pending" THEN row.revision ELSE 0,
                  seen |-> Len(feed)]]

LoadOnEvent(o) ==
  /\ card[o].seen < Len(feed)
  /\ Load(o)
  /\ UNCHANGED <<jobs, decision>>

LoadOnError(o) ==
  /\ decision[o].phase = "reload"
  /\ Load(o)
  /\ Goto(o, "idle")
  /\ UNCHANGED jobs

HideCard(o) == card' = [card EXCEPT ![o].shown = 0]

-----------------------------------------------------------------------------
(* Deciding                                                                *)

Decidable(o) ==
  /\ request.status = "pending"
  /\ request.revision = card[o].shown

(* What both decisions do with a request that is overdue, decided already  *)
(* or changed since the card was drawn.                                    *)
Refuse(o) ==
  /\ request.late \/ ~Decidable(o)
  /\ IF request.late /\ Decidable(o) THEN Transition(Moved("expired"))
                                     ELSE NoTransition
  /\ Goto(o, "reload")
  /\ UNCHANGED <<jobs, card>>

Reserve(o) ==
  /\ ~request.late
  /\ Decidable(o)
  /\ Transition([Moved("approved") EXCEPT !.holder = o])
  /\ decision' = [decision EXCEPT
       ![o] = [phase |-> "reserved", revision |-> request.revision + 1]]
  /\ UNCHANGED <<jobs, card>>

Approve(o) ==
  /\ decision[o].phase = "idle"
  /\ card[o].shown # 0
  /\ request.revision + 2 <= MaxRevision
  /\ Reserve(o) \/ Refuse(o)

Reject(o) ==
  /\ decision[o].phase = "idle"
  /\ card[o].shown # 0
  /\ \/ /\ ~request.late
        /\ Decidable(o)
        /\ Transition(Moved("rejected"))
        /\ HideCard(o)
        /\ UNCHANGED <<jobs, decision>>
     \/ Refuse(o)

-----------------------------------------------------------------------------
(* The rest of an approval                                                 *)

(* Mutant of CreateJob: an error is also reported after the job was made.  *)
CreateJobAndFail(o) ==
  /\ decision[o].phase = "reserved"
  /\ jobs' = IF jobs = 0 THEN 1 ELSE jobs
  /\ Goto(o, "created") \/ Goto(o, "releasing")
  /\ UNCHANGED <<request, feed, card>>

CreateJob(o) ==
  /\ decision[o].phase = "reserved"
  /\ \/ /\ jobs' = IF jobs = 0 THEN 1 ELSE jobs
        /\ Goto(o, "created")
     \/ /\ jobs' = jobs
        /\ Goto(o, "releasing")
  /\ UNCHANGED <<request, feed, card>>

Reserved(o) ==
  /\ request.status = "approved"
  /\ request.revision = decision[o].revision
  /\ request.holder = o

(* releaseReservation tells the Room nothing.                              *)
Release(o) ==
  /\ decision[o].phase = "releasing"
  /\ Reserved(o)
  /\ request' = [Moved("pending") EXCEPT !.holder = NoOwner]
  /\ Goto(o, "reload")
  /\ UNCHANGED <<jobs, feed, card>>

MarkExecuted(o) ==
  /\ decision[o].phase = "created"
  /\ Reserved(o)
  /\ Transition([Moved("executed") EXCEPT !.holder = NoOwner])
  /\ Goto(o, "idle")
  /\ HideCard(o)
  /\ UNCHANGED jobs

(* The process that serves the approval dies; the browser sees an error.   *)
Crash(o) ==
  /\ Crashes
  /\ decision[o].phase \in Holding
  /\ Goto(o, "reload")
  /\ UNCHANGED <<request, jobs, feed, card>>

-----------------------------------------------------------------------------

Serve(o) == CreateJob(o) \/ Release(o) \/ MarkExecuted(o)
Browse(o) == LoadOnEvent(o) \/ LoadOnError(o)

Next ==
  \/ RequestConfirmation
  \/ PassDeadline
  \/ \E o \in Owners : \/ Approve(o) \/ Reject(o)
                       \/ Serve(o) \/ Browse(o)
                       \/ Crash(o)

Spec == Init /\ [][Next]_vars

FairSpec == Spec /\ \A o \in Owners : WF_vars(Serve(o)) /\ WF_vars(Browse(o))

-----------------------------------------------------------------------------
(* Properties                                                              *)

(* The row, the calls and the cards keep their shape.                      *)
TypeOK ==
  /\ request \in Requests /\ request.revision <= MaxRevision + 1
  /\ jobs \in {0, 1}
  /\ feed \in Seq(Statuses \cup {"requested"})
  /\ decision \in [Owners -> Decisions]
  /\ card \in [Owners -> Cards]

(* A job exists only for a request that is approved or executed: none can  *)
(* be rejected, expire or be approved again once its job was created, and  *)
(* an executed request has its job.                                        *)
JobIsApproved ==
  /\ jobs > 0 => request.status \in {"approved", "executed"}
  /\ request.status = "executed" => jobs = 1

(* The capability is single-use: one approval at a time holds the request, *)
(* and what it reserved is still there when it comes back to it.           *)
OneReservation ==
  \A o \in Owners : decision[o].phase \in Holding =>
    /\ Reserved(o)
    /\ decision[o].phase = "created" <=> jobs = 1

(* A browser that has handled every event shows no card of a request that  *)
(* is decided or was decided and came back.                                *)
NoStaleCard ==
  \A o \in Owners :
    card[o].shown # 0 /\ card[o].seen = Len(feed) =>
      request.status = "pending" /\ request.revision = card[o].shown

(* What the comment of the component says of the cards: they present the   *)
(* pending requests.  A released request is pending and announced to none. *)
PendingIsShown ==
  \A o \in Owners :
    decision[o].phase = "idle" /\ card[o].seen = Len(feed)
      /\ request.status = "pending" => card[o].shown = request.revision

(* An approval ends with its job or is undone.  It does unless the server  *)
(* crashes; the workstream document promises a job exactly once.           *)
ApprovalSettles ==
  request.status = "approved" ~> request.status \in {"pending", "executed"}
=============================================================================
