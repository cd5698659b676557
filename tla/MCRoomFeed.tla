------------------------------ MODULE MCRoomFeed ------------------------------
(* What reaches the people of a Room: the answers of an agent to what they  *)
(* post, and the events their browsers follow.  A behaviour chooses a part. *)
(* The feed has two of them, with the same constants: one where two relays  *)
(* work and the browser only reads, and one where it sends and one relay    *)
(* works.  The inbox shares no variable with the feed.                      *)
EXTENDS RoomFeed

CONSTANTS spare, Workers, NoWorker

VARIABLES
  part,  \* the part of this behaviour
  session, delivery, host, events

sessionVars == <<session, delivery, host, events>>

(* Two host processes and a runtime that makes no checkpoints: what one     *)
(* leaves of a lost host can block the session (LostIsRecoverable).         *)
Inbox == INSTANCE RoomSession WITH
  MaxAttempts <- 2, Checkpoints <- {FALSE}, LeaseTerm <- 1,
  MaxDeliveries <- 2, MaxGeneration <- 4

FeedInit ==
  /\ Inbox!Init
  /\ Init
  /\ part \in {"relays", "browser", "inbox"}

(* With two relays the browser sends nothing, and two events fill the Room; *)
(* beside a browser that sends, one relay and the first row are at work.    *)
OnlyRelays == sending' = sending /\ Len(feed') <= 2
OneRelay == relay'[spare] = relay[spare] /\ outbox'[2] = outbox[2]

FeedNext ==
  /\ UNCHANGED part
  /\ \/ part = "relays" /\ Next /\ OnlyRelays /\ UNCHANGED sessionVars
     \/ part = "browser" /\ Next /\ OneRelay /\ UNCHANGED sessionVars
     \/ part = "inbox" /\ Inbox!Next /\ UNCHANGED vars

Followed(A) == part = "browser" /\ A
Handled(A) == part = "inbox" /\ A

(* The fairness of RoomFeed for the browser and of RoomSession.             *)
FeedSpec ==
  /\ FeedInit /\ [][FeedNext]_<<part, vars, sessionVars>>
  /\ WF_vars(Followed(Tick(1)))
  /\ \A r \in Relays \ {spare} :
       /\ WF_vars(Followed(SkipRow(r) \/ RecordFailure(r)))
       /\ SF_vars(Followed(ReadOutbox(r))) /\ SF_vars(Followed(Relay(r)))
  /\ WF_vars(Followed(Connect))
  /\ SF_vars(Followed(Send)) /\ SF_vars(Followed(Receive))
  /\ WF_sessionVars(Handled(Inbox!Tick))
  /\ \A n \in 1 .. 2 : WF_sessionVars(Handled(Inbox!Elapse(n)))
  /\ WF_sessionVars(Handled(\E w \in Workers, n \in 1 .. 2 : Inbox!Claim(w, n)))
  /\ \A g \in 1 .. 4 : /\ WF_sessionVars(Handled(Inbox!NoticeLoss(g)))
                       /\ WF_sessionVars(Handled(Inbox!Progress(g)))
-----------------------------------------------------------------------------
(* What the browser holds agrees with the Room, over lost connections,      *)
(* lost answers and loads that overlap the stream: it has every event up to *)
(* its cursor, its message is in the feed once however often it is sent,    *)
(* and a pending message goes away only when it is shown.                   *)
BrowserIsExact == TypeOK /\ NoEventMissed /\ SentOnce /\ PendingUntilShown

(* Once the browser follows the Room, an execution event that waits in the  *)
(* outbox reaches it, unless the Room is full.                              *)
WaitingEventShown ==
  (part = "browser" /\ outbox[1].status = "pending" /\ Following) ~>
    (\E i \in browser.events : feed[i] = 1) \/ ~Room

(* Every message that was posted is answered or given up, although hosts    *)
(* crash and attempts fail on the way.                                      *)
EveryDeliverySettles == Inbox!EveryDeliverySettles
=============================================================================
