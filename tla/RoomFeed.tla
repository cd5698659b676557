------------------------------- MODULE RoomFeed -------------------------------
(***************************************************************************)
(* The public feed of one Room, from its writers to one browser.           *)
(*                                                                         *)
(* Every writer takes the next event sequence of the Room and inserts the  *)
(* event in one transaction, so the feed is a sequence.  Execution events  *)
(* wait in an outbox until a relay posts them, a row per transaction.      *)
(*                                                                         *)
(* The browser loads the history, then follows a stream from its cursor,   *)
(* and after a disconnect lists what it missed and connects again; a send  *)
(* and a refresh read beside the stream.  Messages are shown from the      *)
(* message list of a load, or out of the events that announce them.        *)
(***************************************************************************)
EXTENDS Naturals, Sequences, FiniteSets

CONSTANTS
  Rows,       \* rows of the execution outbox, in the order they are created
  Homeless,   \* rows of jobs that came from no Room
  Relays,     \* relays that drain the outbox
  Batch,      \* rows a relay reads at once
  Sends,      \* messages the browser sends, by correlation id
  Other,      \* a message somebody else sends
  PageSize,   \* events or messages in a page
  MaxEvents,  \* bound on the events of the Room
  MaxRefreshes \* bound on the refreshes the person asks for

ASSUME RowsAssumption == Rows \subseteq Nat \ {0} /\ Homeless \subseteq Rows
ASSUME NamesAssumption == Other \notin Rows \cup Sends
ASSUME SendsAssumption == Rows \cap Sends = {}
ASSUME SizeAssumption ==
  Batch \in Nat \ {0} /\ PageSize \in Nat \ {0} /\ MaxEvents \in Nat

VARIABLES
  outbox,   \* ExecutionOutbox rows
  feed,     \* RoomEvents by sequence
  relay,    \* the rows each relay has read and the one that failed
  stream,   \* the connection: what the server sent, what the browser received
  reply,    \* a page asked for beside the stream and not yet received
  load,     \* the load of the history under way
  browser,  \* what the browser holds
  sending   \* the messages it sends, and the requests under way

vars == <<outbox, feed, relay, stream, reply, load, browser, sending>>

Positions == 1 .. MaxEvents
Messages == Sends \cup {Other}
Outboxes == [status: {"none", "pending", "delivered", "ignored"}, due: BOOLEAN]
Streams == [open: BOOLEAN, sent: Nat, received: Nat]
Pages == [after: Nat, upto: Nat]
NoPage == [after |-> 0, upto |-> 0]
Loads == [phase: {"none", "room", "history"}, initial: BOOLEAN, refreshes: Nat,
          messages: Nat, events: Nat, lastMessage: Nat, lastEvent: Nat,
          messagesDone: BOOLEAN, eventsDone: BOOLEAN, ready: BOOLEAN]
Browsers == [known: BOOLEAN, events: SUBSET Positions,
             messages: SUBSET Positions, cursor: Nat]
Pending == [shown: {"none", "pending", "accepted", "error", "gone",
                    "dismissed"},
            posted: BOOLEAN]

NewLoad(initial, refreshes) ==
  [phase |-> "room", initial |-> initial, refreshes |-> refreshes,
   messages |-> 0, events |-> 0, lastMessage |-> 0, lastEvent |-> 0,
   messagesDone |-> FALSE, eventsDone |-> FALSE, ready |-> TRUE]

Init ==
  /\ outbox = [row \in Rows |-> [status |-> "none", due |-> TRUE]]
  /\ feed = <<>>
  /\ relay = [r \in Relays |-> [rows |-> <<>>, failed |-> 0]]
  /\ stream = [open |-> FALSE, sent |-> 0, received |-> 0]
  /\ reply = NoPage
  /\ load = NewLoad(TRUE, 0)
  /\ browser = [known |-> FALSE, events |-> {}, messages |-> {}, cursor |-> 0]
  /\ sending = [s \in Sends |-> [shown |-> "none", posted |-> FALSE]]

Larger(a, b) == IF a > b THEN a ELSE b
Smaller(a, b) == IF a < b THEN a ELSE b
First(n, S) == {i \in S : Cardinality({j \in S : j <= i}) <= n}

In(entry) == \E i \in DOMAIN feed : feed[i] = entry
Room == Len(feed) < MaxEvents
AllMessages == {i \in DOMAIN feed : feed[i] \in Messages}
LastMessage == IF AllMessages = {} THEN 0
               ELSE CHOOSE i \in AllMessages : \A j \in AllMessages : j <= i

-----------------------------------------------------------------------------
(* Writers and relays                                                      *)

Enqueue(row) ==
  /\ outbox[row].status = "none"
  /\ \A older \in Rows : older < row => outbox[older].status # "none"
  /\ outbox' = [outbox EXCEPT ![row].status = "pending"]
  /\ UNCHANGED <<feed, relay, stream, reply, load, browser, sending>>

Say ==
  /\ Room
  /\ feed' = Append(feed, Other)
  /\ UNCHANGED <<outbox, relay, stream, reply, load, browser, sending>>

Due == {row \in Rows : outbox[row].status = "pending" /\ outbox[row].due}

InOrder(S) == [i \in 1 .. Cardinality(S) |->
                 CHOOSE row \in S : Cardinality({r \in S : r <= row}) = i]

ReadOutbox(r) ==
  /\ relay[r].rows = <<>>
  /\ relay[r].failed = 0
  /\ Due # {}
  /\ relay' = [relay EXCEPT ![r].rows = InOrder(First(Batch, Due))]
  /\ UNCHANGED <<outbox, feed, stream, reply, load, browser, sending>>

NextRow(r) == Head(relay[r].rows)
Done(r) == relay' = [relay EXCEPT ![r].rows = Tail(@)]

(* Claim, event and mark in one transaction; the id of the event is made   *)
(* of that of the row, and an event that is there is not posted again.     *)
Relay(r) ==
  LET row == NextRow(r)
  IN /\ relay[r].rows # <<>>
     /\ relay[r].failed = 0
     /\ row \in Due
     /\ \/ row \in Homeless
           /\ outbox' = [outbox EXCEPT ![row].status = "ignored"]
           /\ UNCHANGED feed
        \/ row \notin Homeless /\ Room
           /\ outbox' = [outbox EXCEPT ![row].status = "delivered"]
           /\ feed' = IF In(row) THEN feed ELSE Append(feed, row)
     /\ Done(r)
     /\ UNCHANGED <<stream, reply, load, browser, sending>>

SkipRow(r) ==
  /\ relay[r].rows # <<>>
  /\ relay[r].failed = 0
  /\ NextRow(r) \notin Due
  /\ Done(r)
  /\ UNCHANGED <<outbox, feed, stream, reply, load, browser, sending>>

(* The transaction is rolled back; the failure is recorded in another.     *)
FailRow(r) ==
  /\ relay[r].rows # <<>>
  /\ relay[r].failed = 0
  /\ NextRow(r) \in Due
  /\ relay' = [relay EXCEPT ![r] = [rows |-> Tail(@.rows),
                                    failed |-> Head(@.rows)]]
  /\ UNCHANGED <<outbox, feed, stream, reply, load, browser, sending>>

(* Mutant of RecordFailure: the row is made pending whatever it is.        *)
RecordFailureBlindly(r) ==
  /\ relay[r].failed # 0
  /\ outbox' = [outbox EXCEPT ![relay[r].failed] =
                  [status |-> "pending", due |-> FALSE]]
  /\ relay' = [relay EXCEPT ![r].failed = 0]
  /\ UNCHANGED <<feed, stream, reply, load, browser, sending>>

RecordFailure(r) ==
  /\ relay[r].failed # 0
  /\ outbox' = IF outbox[relay[r].failed].status = "pending"
                 THEN [outbox EXCEPT ![relay[r].failed].due = FALSE]
                 ELSE outbox
  /\ relay' = [relay EXCEPT ![r].failed = 0]
  /\ UNCHANGED <<feed, stream, reply, load, browser, sending>>

CrashRelay(r) ==
  /\ relay[r] # [rows |-> <<>>, failed |-> 0]
  /\ relay' = [relay EXCEPT ![r] = [rows |-> <<>>, failed |-> 0]]
  /\ UNCHANGED <<outbox, feed, stream, reply, load, browser, sending>>

Tick(row) ==
  /\ ~outbox[row].due
  /\ outbox' = [outbox EXCEPT ![row].due = TRUE]
  /\ UNCHANGED <<feed, relay, stream, reply, load, browser, sending>>

-----------------------------------------------------------------------------
(* What the browser does with events and messages                          *)

Clears(s, shown) == \E i \in shown : feed[i] = s

(* mergeMessages: a message that arrives takes its pending entry away.     *)
ClearPending(shown) ==
  sending' = [s \in Sends |->
                IF Clears(s, shown) THEN [sending[s] EXCEPT !.shown = "gone"]
                ELSE sending[s]]

(* Mutant of MergeEvents: the cursor jumps to what the Room has.           *)
MergeEventsAndJump(new) ==
  /\ browser' = [browser EXCEPT
       !.events = @ \cup new,
       !.messages = @ \cup (new \cap AllMessages),
       !.cursor = IF new = {} THEN @ ELSE Len(feed)]
  /\ ClearPending(new)

MergeEvents(new) ==
  /\ browser' = [browser EXCEPT
       !.events = @ \cup new,
       !.messages = @ \cup (new \cap AllMessages),
       !.cursor = CHOOSE n \in new \cup {@} : \A m \in new \cup {@} : m <= n]
  /\ ClearPending(new)

Following == browser.known /\ ~(load.phase # "none" /\ load.initial)

(* Mutant of Connect: the stream starts at what the Room has now.          *)
ConnectLive ==
  /\ Following
  /\ ~stream.open
  /\ stream' = [open |-> TRUE, sent |-> Len(feed), received |-> Len(feed)]
  /\ UNCHANGED <<outbox, feed, relay, reply, load, browser, sending>>

Connect ==
  /\ Following
  /\ ~stream.open
  /\ stream' = [open |-> TRUE, sent |-> browser.cursor,
                received |-> browser.cursor]
  /\ UNCHANGED <<outbox, feed, relay, reply, load, browser, sending>>

(* The server goes through its pages in order of the sequence.             *)
Send ==
  /\ stream.open
  /\ stream.sent < Len(feed)
  /\ stream' = [stream EXCEPT !.sent = @ + 1]
  /\ UNCHANGED <<outbox, feed, relay, reply, load, browser, sending>>

Receive ==
  /\ stream.open
  /\ stream.received < stream.sent
  /\ stream' = [stream EXCEPT !.received = @ + 1]
  /\ MergeEvents({stream.received + 1})
  /\ UNCHANGED <<outbox, feed, relay, reply, load>>

Page(after) == [after |-> after, upto |-> Smaller(after + PageSize, Len(feed))]

(* What was sent and not received is lost; the poll that follows asks for  *)
(* what comes after the cursor, as a send does.                            *)
Disconnect ==
  /\ stream.open
  /\ stream' = [open |-> FALSE, sent |-> 0, received |-> 0]
  /\ reply' = IF reply = NoPage THEN Page(browser.cursor) ELSE reply
  /\ UNCHANGED <<outbox, feed, relay, load, browser, sending>>

ReceivePage ==
  /\ reply # NoPage
  /\ MergeEvents(reply.after + 1 .. reply.upto)
  /\ reply' = NoPage
  /\ UNCHANGED <<outbox, feed, relay, stream, load>>

LosePage ==
  /\ reply # NoPage
  /\ reply' = NoPage
  /\ UNCHANGED <<outbox, feed, relay, stream, load, browser, sending>>

-----------------------------------------------------------------------------
(* Loading the history                                                     *)

Refresh ==
  /\ load.refreshes < MaxRefreshes
  /\ load' = NewLoad(FALSE, load.refreshes + 1)
  /\ UNCHANGED <<outbox, feed, relay, stream, reply, browser, sending>>

(* The Room says how far its history goes.                                 *)
LoadRoom ==
  /\ load.phase = "room"
  /\ load' = [load EXCEPT !.phase = "history", !.lastMessage = LastMessage,
                          !.lastEvent = Len(feed),
                          !.messagesDone = LastMessage = 0,
                          !.eventsDone = Len(feed) = 0]
  /\ browser' = [browser EXCEPT !.known = TRUE]
  /\ UNCHANGED <<outbox, feed, relay, stream, reply, sending>>

LoadMessages ==
  LET page == First(PageSize, {i \in AllMessages : i > load.messages})
      upto == CHOOSE i \in page : \A j \in page : j <= i
  IN /\ load.phase = "history"
     /\ ~load.messagesDone
     /\ load' = [load EXCEPT !.messages = upto,
                             !.messagesDone = upto >= load.lastMessage]
     /\ UNCHANGED <<outbox, feed, relay, stream, reply, browser, sending>>

LoadEvents ==
  LET upto == Page(load.events).upto
  IN /\ load.phase = "history"
     /\ ~load.eventsDone
     /\ load' = [load EXCEPT !.events = upto,
                             !.eventsDone = upto >= load.lastEvent]
     /\ UNCHANGED <<outbox, feed, relay, stream, reply, browser, sending>>

(* A page that cannot be read ends its list with what was collected.       *)
LoadFails ==
  /\ \/ load.phase = "room" /\ load' = [load EXCEPT !.phase = "none", !.ready = FALSE]
     \/ load.phase = "history" /\ ~load.messagesDone
        /\ load' = [load EXCEPT !.messagesDone = TRUE, !.ready = FALSE]
     \/ load.phase = "history" /\ ~load.eventsDone
        /\ load' = [load EXCEPT !.eventsDone = TRUE, !.ready = FALSE]
  /\ UNCHANGED <<outbox, feed, relay, stream, reply, browser, sending>>

(* Both lists are merged into what the stream has brought meanwhile.  The  *)
(* loaded events are not searched for messages, nor the loaded messages    *)
(* for pending ones.                                                       *)
ShowHistory ==
  /\ load.phase = "history"
  /\ load.messagesDone
  /\ load.eventsDone
  /\ browser' = [browser EXCEPT
       !.messages = @ \cup {i \in AllMessages : i <= load.messages},
       !.events = @ \cup 1 .. load.events,
       !.cursor = Larger(@, load.events)]
  /\ load' = [load EXCEPT !.phase = "none"]
  /\ UNCHANGED <<outbox, feed, relay, stream, reply, sending>>

-----------------------------------------------------------------------------
(* Sending a message                                                       *)

Post(s) == sending' = [sending EXCEPT ![s] = [shown |-> "pending",
                                              posted |-> TRUE]]

SendMessage(s) ==
  /\ browser.known
  /\ sending[s] = [shown |-> "none", posted |-> FALSE]
  /\ Post(s)
  /\ UNCHANGED <<outbox, feed, relay, stream, reply, load, browser>>

RetryMessage(s) ==
  /\ sending[s] = [shown |-> "error", posted |-> FALSE]
  /\ Post(s)
  /\ UNCHANGED <<outbox, feed, relay, stream, reply, load, browser>>

(* The correlation id is the idempotency key of the command.               *)
AcceptMessage(s) ==
  /\ sending[s].posted
  /\ ~In(s)
  /\ Room
  /\ feed' = Append(feed, s)
  /\ UNCHANGED <<outbox, relay, stream, reply, load, browser, sending>>

(* The receipt arrives, and what is new is asked for.                      *)
Accepted(s) ==
  /\ sending[s].posted
  /\ In(s)
  /\ sending' = [sending EXCEPT ![s].posted = FALSE,
       ![s].shown = IF @ = "pending" THEN "accepted" ELSE @]
  /\ reply' = IF reply = NoPage /\ sending[s].shown = "pending"
                THEN Page(browser.cursor) ELSE reply
  /\ UNCHANGED <<outbox, feed, relay, stream, load, browser>>

(* The answer is lost, or the request was: the person may retry.           *)
SendFails(s) ==
  /\ sending[s].posted
  /\ sending' = [sending EXCEPT ![s].posted = FALSE,
       ![s].shown = IF @ = "pending" THEN "error" ELSE @]
  /\ UNCHANGED <<outbox, feed, relay, stream, reply, load, browser>>

(* The person takes the entry away; a request under way goes on.           *)
DismissMessage(s) ==
  /\ sending[s].shown \in {"pending", "accepted", "error"}
  /\ sending' = [sending EXCEPT ![s].shown = "dismissed"]
  /\ UNCHANGED <<outbox, feed, relay, stream, reply, load, browser>>

-----------------------------------------------------------------------------

Project == \/ \E row \in Rows : Enqueue(row) \/ Tick(row)
           \/ \E r \in Relays : \/ ReadOutbox(r) \/ Relay(r) \/ SkipRow(r)
                                \/ FailRow(r) \/ RecordFailure(r) \/ CrashRelay(r)

Follow == Connect \/ Send \/ Receive \/ Disconnect \/ ReceivePage \/ LosePage

LoadHistory == LoadRoom \/ LoadMessages \/ LoadEvents \/ ShowHistory

Chat(s) == \/ SendMessage(s) \/ RetryMessage(s) \/ AcceptMessage(s)
           \/ Accepted(s) \/ SendFails(s) \/ DismissMessage(s)

Next == \/ Project \/ Say \/ Follow \/ Refresh \/ LoadHistory \/ LoadFails
        \/ \E s \in Sends : Chat(s)

Spec == Init /\ [][Next]_vars

(* The relays go on, a retry comes due, a row does not fail for ever; the  *)
(* browser connects again, and a connection does not always break before   *)
(* its first event.  A load need not succeed.                   *)
FairSpec ==
  /\ Spec
  /\ \A row \in Rows : WF_vars(Tick(row))
  /\ \A r \in Relays : /\ WF_vars(SkipRow(r) \/ RecordFailure(r))
                       /\ SF_vars(ReadOutbox(r)) /\ SF_vars(Relay(r))
  /\ WF_vars(Connect) /\ SF_vars(Send) /\ SF_vars(Receive)

-----------------------------------------------------------------------------
(* Properties                                                              *)

(* The variables keep their types.                                         *)
TypeOK ==
  /\ outbox \in [Rows -> Outboxes]
  /\ feed \in Seq(Rows \cup Messages) /\ Len(feed) <= MaxEvents
  /\ relay \in [Relays -> [rows: Seq(Rows), failed: Rows \cup {0}]]
  /\ stream \in Streams
  /\ reply \in Pages
  /\ load \in Loads
  /\ browser \in Browsers
  /\ sending \in [Sends -> Pending]

(* A row is in the feed once when it is delivered, and never before: the   *)
(* relays crash, fail and overtake one another, and a row that failed in   *)
(* one is delivered by the other before the failure is recorded.           *)
DeliveredOnce ==
  \A row \in DOMAIN outbox :
    Cardinality({i \in DOMAIN feed : feed[i] = row}) =
      IF outbox[row].status = "delivered" THEN 1 ELSE 0

(* A message whose answer was lost is sent again and is in the feed once.  *)
SentOnce ==
  \A s \in Sends : Cardinality({i \in DOMAIN feed : feed[i] = s}) <= 1

(* The browser has every event up to its cursor: stream, page, send and    *)
(* load, each from a cursor read earlier, never leave one out.             *)
NoEventMissed == browser.events = 1 .. browser.cursor

(* A pending message goes away by itself only when its message is shown.   *)
PendingUntilShown ==
  \A s \in Sends : sending[s].shown = "gone" =>
    \E i \in browser.messages : feed[i] = s

(* A final message is replayed to a browser that was behind: once a load   *)
(* ended without an error, the message of every event it has is shown.     *)
MessagesShown ==
  load.phase = "none" /\ load.ready => \A i \in browser.events :
    feed[i] \in Messages => i \in browser.messages

=============================================================================
