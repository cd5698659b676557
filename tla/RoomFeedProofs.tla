---------------------------- MODULE RoomFeedProofs ----------------------------
(***************************************************************************)
(* The feed of a Room with any number of rows, relays and messages: what   *)
(* waits in the outbox is posted once, and what a browser holds agrees     *)
(* with the Room; last, in the parts of a behaviour of MCRoomFeed.         *)
(***************************************************************************)
EXTENDS MCRoomFeed, FiniteSetTheorems, WellFoundedInduction, TLAPS

-----------------------------------------------------------------------------
(* What was posted                                                         *)

Entries == Rows \cup Messages

Posted == outbox \in [Rows -> Outboxes] /\ feed \in Seq(Entries)

(* Only what somebody else says may be in the feed twice.                  *)
NoRepeats ==
  \A i, j \in DOMAIN feed : feed[i] = feed[j] /\ feed[i] # Other => i = j

(* The mark on a row and its event come together.                          *)
MarkedIsPosted ==
  \A row \in Rows : outbox[row].status = "delivered" <=> In(row)

FeedInv == Posted /\ NoRepeats /\ MarkedIsPosted

(* Whether a row is delivered stays as it is.                              *)
MarksStay ==
  /\ outbox' \in [Rows -> Outboxes]
  /\ \A row \in Rows :
       outbox'[row].status = "delivered" <=> outbox[row].status = "delivered"

LEMMA FeedKept ==
  ASSUME FeedInv, UNCHANGED feed, MarksStay
  PROVE  FeedInv'
BY DEF FeedInv, Posted, NoRepeats, MarkedIsPosted, In, MarksStay

(* An entry that is new, or of somebody else, is appended.                 *)
LEMMA Appended ==
  ASSUME FeedInv, NEW entry \in Entries, feed' = Append(feed, entry),
         entry = Other \/ ~In(entry)
  PROVE  /\ feed' \in Seq(Entries) /\ NoRepeats'
         /\ \A other \in Entries : In(other)' <=> In(other) \/ other = entry
<1>1. /\ feed' \in Seq(Entries) /\ Len(feed') = Len(feed) + 1
      /\ Len(feed) \in Nat /\ DOMAIN feed = 1 .. Len(feed)
      /\ DOMAIN feed' = 1 .. Len(feed) + 1
      /\ \A i \in DOMAIN feed : feed'[i] = feed[i]
      /\ feed'[Len(feed) + 1] = entry
  BY DEF FeedInv, Posted
<1>2. DOMAIN feed' = DOMAIN feed \cup {Len(feed) + 1}
  BY <1>1
<1>3. NoRepeats'
  BY <1>1, <1>2 DEF FeedInv, NoRepeats, In
<1>4. \A other \in Entries : In(other)' <=> In(other) \/ other = entry
  BY <1>1, <1>2 DEF In
<1> QED
  BY <1>1, <1>3, <1>4

LEMMA RelayPosts ==
  ASSUME FeedInv, NEW r \in Relays, Relay(r)
  PROVE  FeedInv'
<1> DEFINE row == NextRow(r)
<1>1. row \in Rows /\ outbox[row].status = "pending" /\ ~In(row)
  BY DEF Relay, Due, FeedInv, MarkedIsPosted
<1>2. CASE outbox' = [outbox EXCEPT ![row].status = "ignored"] /\ UNCHANGED feed
  <2>1. MarksStay
    BY <1>1, <1>2 DEF MarksStay, FeedInv, Posted, Outboxes
  <2> QED
    BY <1>2, <2>1, FeedKept
<1>3. CASE /\ outbox' = [outbox EXCEPT ![row].status = "delivered"]
           /\ feed' = Append(feed, row)
  <2>1. /\ outbox' \in [Rows -> Outboxes] /\ outbox'[row].status = "delivered"
        /\ \A other \in Rows : other # row => outbox'[other] = outbox[other]
    BY <1>1, <1>3 DEF FeedInv, Posted, Outboxes
  <2>2. /\ feed' \in Seq(Entries) /\ NoRepeats'
        /\ \A other \in Entries : In(other)' <=> In(other) \/ other = row
    BY <1>1, <1>3, Appended DEF Entries
  <2>3. MarkedIsPosted'
    <3> SUFFICES ASSUME NEW other \in Rows
                 PROVE  outbox'[other].status = "delivered" <=> In(other)'
      BY DEF MarkedIsPosted, In
    <3> QED
      BY <2>1, <2>2 DEF FeedInv, MarkedIsPosted, Entries
  <2> QED
    BY <2>1, <2>2, <2>3 DEF FeedInv, Posted
<1> QED
  BY <1>1, <1>2, <1>3 DEF Relay

LEMMA MessagePosts ==
  ASSUME FeedInv, NEW message \in Messages, message = Other \/ ~In(message),
         feed' = Append(feed, message), UNCHANGED outbox
  PROVE  FeedInv'
<1>1. /\ feed' \in Seq(Entries) /\ NoRepeats'
      /\ \A other \in Entries : In(other)' <=> In(other) \/ other = message
  BY Appended DEF Entries
<1>2. \A row \in Rows : row \in Entries /\ row # message
  BY NamesAssumption, SendsAssumption DEF Entries, Messages
<1>3. MarkedIsPosted'
  <2> SUFFICES ASSUME NEW row \in Rows
               PROVE  outbox'[row].status = "delivered" <=> In(row)'
    BY DEF MarkedIsPosted, In
  <2> QED
    BY <1>1, <1>2 DEF FeedInv, MarkedIsPosted
<1> QED
  BY <1>1, <1>3 DEF FeedInv, Posted

LEMMA OutboxMarks ==
  ASSUME Posted,
         \/ \E row \in Rows : Enqueue(row) \/ Tick(row)
         \/ \E r \in Relays : RecordFailure(r)
  PROVE  MarksStay /\ UNCHANGED feed
<1>1. CASE \E row \in Rows : Enqueue(row)
  BY <1>1 DEF Posted, Enqueue, MarksStay, Outboxes
<1>2. CASE \E row \in Rows : Tick(row)
  <2>1. PICK row \in Rows : Tick(row)
    BY <1>2
  <2>2. /\ outbox[row] \in Outboxes /\ UNCHANGED feed
        /\ outbox' = [outbox EXCEPT ![row] = [outbox[row] EXCEPT !.due = TRUE]]
    BY <2>1 DEF Posted, Tick
  <2>3. /\ [outbox[row] EXCEPT !.due = TRUE] \in Outboxes
        /\ [outbox[row] EXCEPT !.due = TRUE].status = outbox[row].status
    BY <2>2 DEF Outboxes
  <2> QED
    BY <2>2, <2>3 DEF Posted, MarksStay
<1>3. CASE \E r \in Relays : RecordFailure(r)
  <2>1. PICK r \in Relays : RecordFailure(r)
    BY <1>3
  <2> DEFINE row == relay[r].failed
             later == [outbox[row] EXCEPT !.due = FALSE]
  <2>2. CASE UNCHANGED outbox
    BY <2>1, <2>2 DEF Posted, RecordFailure, MarksStay
  <2>3. CASE row \notin Rows
    <3>1. UNCHANGED outbox
      BY <2>1, <2>3 DEF Posted, RecordFailure
    <3> QED
      BY <3>1, <2>2
  <2>4. CASE row \in Rows /\ ~ UNCHANGED outbox
    <3>1. outbox[row] \in Outboxes /\ UNCHANGED feed
      BY <2>1, <2>4 DEF Posted, RecordFailure
    <3>2. outbox' = [outbox EXCEPT ![row] = later]
      BY <2>1, <2>4 DEF Posted, RecordFailure
    <3>3. later \in Outboxes /\ later.status = outbox[row].status
      BY <3>1 DEF Outboxes
    <3> QED
      BY <2>4, <3>1, <3>2, <3>3 DEF Posted, MarksStay
  <2> QED
    BY <2>2, <2>3, <2>4
<1> QED
  BY <1>1, <1>2, <1>3

LEMMA FeedStep == FeedInv /\ [Next]_vars => FeedInv'
<1> SUFFICES ASSUME FeedInv, [Next]_vars PROVE FeedInv'
  OBVIOUS
<1>1. CASE Project
  <2>1. ASSUME NEW r \in Relays, ReadOutbox(r) \/ SkipRow(r) \/ FailRow(r) \/ CrashRelay(r)
        PROVE  FeedInv'
    <3>1. UNCHANGED <<outbox, feed>>
      BY <2>1 DEF ReadOutbox, SkipRow, FailRow, CrashRelay
    <3> QED
      BY <3>1, FeedKept DEF MarksStay, FeedInv, Posted
  <2> QED
    BY <1>1, <2>1, RelayPosts, OutboxMarks, FeedKept DEF Project, FeedInv
<1>2. CASE Say
  BY <1>2, MessagePosts DEF Say, Messages
<1>3. ASSUME NEW s \in Sends, AcceptMessage(s)
      PROVE  FeedInv'
  BY <1>3, MessagePosts DEF AcceptMessage, Messages
<1>4. ASSUME UNCHANGED <<outbox, feed>>
      PROVE  FeedInv'
  BY <1>4, FeedKept DEF MarksStay, FeedInv, Posted
<1>5. CASE Follow \/ Refresh \/ LoadHistory \/ LoadFails \/ UNCHANGED vars
  <2>1. UNCHANGED <<outbox, feed>>
    BY <1>5 DEF Follow, Connect, Send, Receive, Disconnect, ReceivePage, LosePage,
                Refresh, LoadHistory, LoadRoom, LoadMessages, LoadEvents,
                ShowHistory, LoadFails, vars
  <2> QED
    BY <2>1, <1>4
<1>6. ASSUME NEW s \in Sends, Chat(s)
      PROVE  FeedInv'
  <2>1. CASE AcceptMessage(s)
    BY <2>1, <1>3
  <2>2. CASE ~AcceptMessage(s)
    <3>1. UNCHANGED <<outbox, feed>>
      BY <1>6, <2>2 DEF Chat, SendMessage, RetryMessage, Accepted, SendFails,
                        DismissMessage
    <3> QED
      BY <3>1, <1>4
  <2> QED
    BY <2>1, <2>2
<1> QED
  BY <1>1, <1>2, <1>5, <1>6 DEF Next

LEMMA FeedStarts == Init => FeedInv
<1> SUFFICES ASSUME Init PROVE FeedInv
  OBVIOUS
<1>1. outbox \in [Rows -> Outboxes] /\ \A row \in Rows : outbox[row].status = "none"
  BY DEF Init, Outboxes
<1>2. feed = <<>> /\ DOMAIN feed = {}
  BY DEF Init
<1> QED
  BY <1>1, <1>2 DEF FeedInv, Posted, NoRepeats, MarkedIsPosted, In

LEMMA FeedAlways == Spec => []FeedInv
  BY FeedStarts, FeedStep, PTL DEF Spec

(* An entry that is not somebody else's is in the feed as often as it is   *)
(* there at all: once.                                                     *)
LEMMA OnceThere ==
  ASSUME FeedInv, NEW entry, entry # Other
  PROVE  Cardinality({i \in DOMAIN feed : feed[i] = entry}) =
           IF In(entry) THEN 1 ELSE 0
<1> DEFINE S == {i \in DOMAIN feed : feed[i] = entry}
<1>1. CASE In(entry)
  <2>1. PICK i \in DOMAIN feed : feed[i] = entry
    BY <1>1 DEF In
  <2>2. S = {i}
    BY <2>1 DEF FeedInv, NoRepeats
  <2> QED
    BY <1>1, <2>2, FS_Singleton
<1>2. CASE ~In(entry)
  <2>1. S = {}
    BY <1>2 DEF In
  <2> QED
    BY <1>2, <2>1, FS_EmptySet
<1> QED
  BY <1>1, <1>2

(* Each event of an execution is in the feed of the Room once when its     *)
(* outbox row is delivered and not before, with any number of relays that  *)
(* crash, fail and overtake one another.                                   *)
THEOREM Delivery == Spec => []DeliveredOnce
<1>1. FeedInv => DeliveredOnce
  <2> SUFFICES ASSUME FeedInv, NEW row \in DOMAIN outbox
               PROVE  Cardinality({i \in DOMAIN feed : feed[i] = row}) =
                        IF outbox[row].status = "delivered" THEN 1 ELSE 0
    BY DEF DeliveredOnce
  <2>1. row \in Rows /\ row # Other
    BY NamesAssumption DEF FeedInv, Posted
  <2>2. outbox[row].status = "delivered" <=> In(row)
    BY <2>1 DEF FeedInv, MarkedIsPosted
  <2> QED
    BY <2>1, <2>2, OnceThere
<1> QED
  BY <1>1, FeedAlways, PTL

-----------------------------------------------------------------------------
(* What the browser holds                                                  *)

BrowserTypes ==
  /\ stream \in Streams /\ reply \in Pages
  /\ browser \in [known: BOOLEAN, events: SUBSET Nat, messages: SUBSET Nat,
                  cursor: Nat]
  /\ sending \in [Sends -> Pending]
  /\ "events" \in DOMAIN load /\ load.events \in Nat

(* Nothing was read beyond the feed, ...                                   *)
WithinFeed ==
  /\ browser.cursor <= Len(feed) /\ browser.messages \subseteq DOMAIN feed
  /\ stream.sent <= Len(feed) /\ reply.upto <= Len(feed)
  /\ load.events <= Len(feed)

(* ... and what is on the way starts where the browser is or before.       *)
NoGapAhead ==
  stream.received <= browser.cursor /\ reply.after <= browser.cursor

BrowserInv ==
  /\ feed \in Seq(Entries) /\ BrowserTypes /\ WithinFeed /\ NoGapAhead
  /\ NoEventMissed /\ PendingUntilShown

(* The feed keeps what it has.                                             *)
FeedGrows ==
  /\ feed' \in Seq(Entries) /\ Len(feed) <= Len(feed')
  /\ \A i \in DOMAIN feed : i \in DOMAIN feed' /\ feed'[i] = feed[i]

LEMMA BrowserKept ==
  ASSUME BrowserInv, FeedGrows, UNCHANGED <<stream, reply, load, browser, sending>>
  PROVE  BrowserInv'
<1>1. Len(feed) \in Nat /\ Len(feed') \in Nat /\ Len(feed) <= Len(feed')
  BY DEF BrowserInv, FeedGrows
<1>2. BrowserTypes' /\ NoGapAhead' /\ NoEventMissed' /\ feed' \in Seq(Entries)
  BY DEF BrowserInv, BrowserTypes, NoGapAhead, NoEventMissed, FeedGrows
<1>3. WithinFeed'
  BY <1>1 DEF BrowserInv, WithinFeed, BrowserTypes, Streams, Pages, FeedGrows
<1>4. PendingUntilShown'
  BY DEF BrowserInv, PendingUntilShown, WithinFeed, FeedGrows
<1> QED
  BY <1>2, <1>3, <1>4 DEF BrowserInv

LEMMA PostGrows ==
  ASSUME feed \in Seq(Entries), NEW entry \in Entries, feed' = Append(feed, entry)
  PROVE  FeedGrows
BY DEF FeedGrows

(* What a merge of the events after a and up to b leaves: the events up to *)
(* the later of b and the cursor, and no pending entry whose message came. *)
LEMMA Merged ==
  ASSUME BrowserInv, NEW a \in Nat, NEW b \in Nat, NEW new, new = a + 1 .. b,
         a <= browser.cursor, b <= Len(feed), MergeEvents(new), UNCHANGED feed
  PROVE  /\ browser' \in [known: BOOLEAN, events: SUBSET Nat,
                          messages: SUBSET Nat, cursor: Nat]
         /\ sending' \in [Sends -> Pending]
         /\ browser.cursor <= browser'.cursor /\ browser'.cursor <= Len(feed)
         /\ b <= browser'.cursor
         /\ browser'.messages \subseteq DOMAIN feed
         /\ NoEventMissed' /\ PendingUntilShown'
<1> DEFINE cursor == browser.cursor
           S == new \cup {cursor}
           top == IF b > cursor THEN b ELSE cursor
<1>1. /\ cursor \in Nat /\ browser.events = 1 .. cursor /\ cursor <= Len(feed)
      /\ Len(feed) \in Nat /\ DOMAIN feed = 1 .. Len(feed)
      /\ browser.messages \subseteq DOMAIN feed
  BY DEF BrowserInv, BrowserTypes, NoEventMissed, WithinFeed
<1>2. new \subseteq DOMAIN feed /\ new \subseteq Nat
  BY <1>1
<1>3. top \in S /\ \A m \in S : m <= top
  BY <1>1
<1>4. (CHOOSE n \in S : \A m \in S : m <= n) = top
  <2>1. \A n \in S : (\A m \in S : m <= n) => n = top
    BY <1>1, <1>3
  <2> QED
    BY <1>3, <2>1
<1>5. /\ browser'.events = 1 .. cursor \cup new /\ browser'.cursor = top
      /\ browser'.messages = browser.messages \cup (new \cap AllMessages)
      /\ browser' \in [known: BOOLEAN, events: SUBSET Nat,
                       messages: SUBSET Nat, cursor: Nat]
  BY <1>1, <1>2, <1>4 DEF MergeEvents, BrowserInv, BrowserTypes
<1>6. sending' \in [Sends -> Pending]
  BY DEF MergeEvents, ClearPending, BrowserInv, BrowserTypes, Pending
<1>7. NoEventMissed'
  BY <1>1, <1>5 DEF NoEventMissed
<1>8. PendingUntilShown'
  <2> SUFFICES ASSUME NEW s \in Sends, sending'[s].shown = "gone"
               PROVE  \E i \in browser'.messages : feed[i] = s
    BY DEF PendingUntilShown
  <2>1. CASE Clears(s, new)
    <3>1. PICK i \in new : feed[i] = s
      BY <2>1 DEF Clears
    <3>2. i \in AllMessages
      BY <1>2, <3>1 DEF AllMessages, Messages
    <3> QED
      BY <1>5, <3>1, <3>2
  <2>2. CASE ~Clears(s, new)
    <3>1. sending'[s] = sending[s]
      BY <2>2 DEF MergeEvents, ClearPending
    <3> QED
      BY <1>5, <3>1 DEF BrowserInv, PendingUntilShown
  <2> QED
    BY <2>1, <2>2
<1> QED
  BY <1>1, <1>2, <1>3, <1>5, <1>6, <1>7, <1>8

LEMMA PageWithin ==
  ASSUME BrowserInv, NEW after \in Nat, after <= Len(feed)
  PROVE  /\ Page(after) \in Pages /\ Page(after).after = after
         /\ Page(after).upto <= Len(feed)
BY SizeAssumption DEF Page, Pages, Smaller, BrowserInv

LEMMA FollowExact ==
  ASSUME BrowserInv, Follow
  PROVE  BrowserInv'
<1> USE DEF BrowserInv, BrowserTypes, WithinFeed, NoGapAhead
<1>0. Len(feed) \in Nat
  OBVIOUS
<1>1. CASE Connect
  BY <1>0, <1>1 DEF Connect, Streams, NoEventMissed, PendingUntilShown
<1>2. CASE Send
  BY <1>0, <1>2 DEF Send, Streams, NoEventMissed, PendingUntilShown
<1>3. CASE Receive
  <2> DEFINE a == stream.received
  <2>1. /\ a \in Nat /\ a + 1 \in Nat /\ {a + 1} = a + 1 .. a + 1
        /\ a <= browser.cursor /\ a + 1 <= Len(feed)
    BY <1>0, <1>3 DEF Receive, Streams
  <2>2. MergeEvents({a + 1}) /\ UNCHANGED <<feed, reply, load>>
    BY <1>3 DEF Receive
  <2>3. stream' \in Streams /\ stream'.received = a + 1 /\ stream'.sent = stream.sent
    BY <1>3 DEF Receive, Streams
  <2> HIDE DEF a
  <2>4. /\ browser' \in [known: BOOLEAN, events: SUBSET Nat,
                         messages: SUBSET Nat, cursor: Nat]
        /\ sending' \in [Sends -> Pending]
        /\ browser.cursor <= browser'.cursor /\ browser'.cursor <= Len(feed)
        /\ a + 1 <= browser'.cursor
        /\ browser'.messages \subseteq DOMAIN feed
        /\ NoEventMissed' /\ PendingUntilShown'
    BY <2>1, <2>2, Merged
  <2> QED
    BY <1>0, <2>2, <2>3, <2>4 DEF Pages
<1>4. CASE Disconnect
  <2>1. Page(browser.cursor) \in Pages /\ Page(browser.cursor).after = browser.cursor
        /\ Page(browser.cursor).upto <= Len(feed)
    BY PageWithin
  <2> QED
    BY <1>0, <1>4, <2>1 DEF Disconnect, Streams, NoEventMissed, PendingUntilShown
<1>5. CASE ReceivePage
  <2>1. /\ reply.after \in Nat /\ reply.upto \in Nat
        /\ reply.after <= browser.cursor /\ reply.upto <= Len(feed)
    BY DEF Pages
  <2>2. /\ MergeEvents(reply.after + 1 .. reply.upto) /\ reply' = NoPage
        /\ UNCHANGED <<feed, stream, load>>
    BY <1>5 DEF ReceivePage
  <2>3. /\ browser' \in [known: BOOLEAN, events: SUBSET Nat,
                         messages: SUBSET Nat, cursor: Nat]
        /\ sending' \in [Sends -> Pending]
        /\ browser.cursor <= browser'.cursor /\ browser'.cursor <= Len(feed)
        /\ browser'.messages \subseteq DOMAIN feed
        /\ NoEventMissed' /\ PendingUntilShown'
    BY <2>1, <2>2, Merged
  <2> QED
    BY <1>0, <2>2, <2>3 DEF Streams, Pages, NoPage
<1>6. CASE LosePage
  BY <1>0, <1>6 DEF LosePage, Pages, NoPage, NoEventMissed, PendingUntilShown
<1> QED
  BY <1>1, <1>2, <1>3, <1>4, <1>5, <1>6 DEF Follow

LEMMA LoadExact ==
  ASSUME BrowserInv, Refresh \/ LoadHistory \/ LoadFails
  PROVE  BrowserInv'
<1> USE DEF BrowserInv, BrowserTypes, WithinFeed, NoGapAhead
<1>0. Len(feed) \in Nat
  OBVIOUS
<1>1. CASE Refresh
  BY <1>0, <1>1 DEF Refresh, NewLoad, NoEventMissed, PendingUntilShown
<1>2. CASE LoadRoom
  BY <1>0, <1>2 DEF LoadRoom, NoEventMissed, PendingUntilShown
<1>3. CASE LoadMessages
  BY <1>0, <1>3 DEF LoadMessages, NoEventMissed, PendingUntilShown
<1>4. CASE LoadEvents
  <2>1. Page(load.events).upto \in Nat /\ Page(load.events).upto <= Len(feed)
    BY PageWithin DEF Pages
  <2> QED
    BY <1>0, <1>4, <2>1 DEF LoadEvents, NoEventMissed, PendingUntilShown
<1>5. CASE LoadFails
  BY <1>0, <1>5 DEF LoadFails, NoEventMissed, PendingUntilShown
<1>6. CASE ShowHistory
  <2> DEFINE shown == {i \in AllMessages : i <= load.messages}
             last == Larger(browser.cursor, load.events)
  <2>1. shown \subseteq DOMAIN feed /\ DOMAIN feed \subseteq Nat
    BY DEF AllMessages
  <2>2. /\ last \in Nat /\ browser.cursor <= last /\ last <= Len(feed)
        /\ 1 .. browser.cursor \cup 1 .. load.events = 1 .. last
    BY <1>0 DEF Larger
  <2>3. /\ browser'.events = browser.events \cup 1 .. load.events
        /\ browser'.messages = browser.messages \cup shown
        /\ browser'.cursor = last
        /\ browser' \in [known: BOOLEAN, events: SUBSET Nat,
                         messages: SUBSET Nat, cursor: Nat]
    <3> DEFINE seen == 1 .. load.events
               Held == [known: BOOLEAN, events: SUBSET Nat,
                        messages: SUBSET Nat, cursor: Nat]
    <3>1. /\ browser' = [browser EXCEPT !.messages = browser.messages \cup shown,
                                        !.events = browser.events \cup seen,
                                        !.cursor = last]
          /\ browser \in Held
      BY <1>6 DEF ShowHistory
    <3>2. /\ browser.events \cup seen \in SUBSET Nat /\ last \in Nat
          /\ browser.messages \cup shown \in SUBSET Nat
      BY <2>1, <2>2
    <3> HIDE DEF shown, last, seen
    <3>3. /\ browser'.events = browser.events \cup seen
          /\ browser'.messages = browser.messages \cup shown
          /\ browser'.cursor = last
          /\ browser' \in Held
      BY <3>1, <3>2
    <3> QED
      BY <3>3 DEF seen
  <2>4. /\ UNCHANGED <<feed, stream, reply, sending>>
        /\ "events" \in DOMAIN load' /\ load'.events = load.events
    BY <1>6 DEF ShowHistory
  <2> HIDE DEF shown, last
  <2>5. NoEventMissed' /\ PendingUntilShown'
    BY <2>2, <2>3, <2>4 DEF NoEventMissed, PendingUntilShown
  <2> QED
    BY <1>0, <2>1, <2>2, <2>3, <2>4, <2>5 DEF Streams, Pages
<1> QED
  BY <1>1, <1>2, <1>3, <1>4, <1>5, <1>6 DEF LoadHistory

LEMMA ChatExact ==
  ASSUME BrowserInv, NEW s \in Sends, Chat(s)
  PROVE  BrowserInv'
<1>1. CASE AcceptMessage(s)
  <2>1. FeedGrows
    BY <1>1, PostGrows DEF AcceptMessage, BrowserInv, Entries, Messages
  <2> QED
    BY <1>1, <2>1, BrowserKept DEF AcceptMessage
<1>2. CASE ~AcceptMessage(s)
  <2>1. UNCHANGED <<feed, stream, load, browser>>
    BY <1>2 DEF Chat, SendMessage, RetryMessage, Accepted, SendFails, DismissMessage
  <2>2. reply' \in Pages /\ reply'.after <= browser.cursor /\ reply'.upto <= Len(feed)
    <3>1. Page(browser.cursor) \in Pages /\ Page(browser.cursor).after = browser.cursor
          /\ Page(browser.cursor).upto <= Len(feed) /\ browser.cursor \in Nat
      BY PageWithin DEF BrowserInv, BrowserTypes, WithinFeed
    <3>2. reply' = reply \/ reply' = Page(browser.cursor)
      BY <1>2 DEF Chat, SendMessage, RetryMessage, Accepted, SendFails, DismissMessage
    <3> QED
      BY <3>1, <3>2 DEF BrowserInv, BrowserTypes, WithinFeed, NoGapAhead
  <2>3. PICK entry \in Pending :
          /\ sending' = [sending EXCEPT ![s] = entry]
          /\ entry.shown = "gone" => sending[s].shown = "gone"
    <3>1. sending[s] \in Pending /\ sending \in [Sends -> Pending]
      BY DEF BrowserInv, BrowserTypes
    <3>2. CASE SendMessage(s) \/ RetryMessage(s)
      <4> DEFINE left == [shown |-> "pending", posted |-> TRUE]
      <4>1. left \in Pending /\ (left.shown = "gone" => sending[s].shown = "gone")
        BY <3>1 DEF Pending
      <4>2. sending' = [sending EXCEPT ![s] = left]
        BY <3>1, <3>2 DEF SendMessage, RetryMessage, Post
      <4> HIDE DEF left
      <4> QED
        BY <4>1, <4>2
    <3>3. CASE Accepted(s)
      <4> DEFINE left == [sending[s] EXCEPT
                        !.posted = FALSE,
                        !.shown = IF @ = "pending" THEN "accepted" ELSE @]
      <4>1. left \in Pending /\ (left.shown = "gone" => sending[s].shown = "gone")
        BY <3>1 DEF Pending
      <4>2. sending' = [sending EXCEPT ![s] = left]
        BY <3>1, <3>3 DEF Accepted, Pending
      <4> HIDE DEF left
      <4> QED
        BY <4>1, <4>2
    <3>4. CASE SendFails(s)
      <4> DEFINE left == [sending[s] EXCEPT
                        !.posted = FALSE,
                        !.shown = IF @ = "pending" THEN "error" ELSE @]
      <4>1. left \in Pending /\ (left.shown = "gone" => sending[s].shown = "gone")
        BY <3>1 DEF Pending
      <4>2. sending' = [sending EXCEPT ![s] = left]
        BY <3>1, <3>4 DEF SendFails, Pending
      <4> HIDE DEF left
      <4> QED
        BY <4>1, <4>2
    <3>5. CASE DismissMessage(s)
      <4> DEFINE left == [sending[s] EXCEPT !.shown = "dismissed"]
      <4>1. left \in Pending /\ (left.shown = "gone" => sending[s].shown = "gone")
        BY <3>1 DEF Pending
      <4>2. sending' = [sending EXCEPT ![s] = left]
        BY <3>1, <3>5 DEF DismissMessage, Pending
      <4> HIDE DEF left
      <4> QED
        BY <4>1, <4>2
    <3> QED
      BY <1>2, <3>2, <3>3, <3>4, <3>5 DEF Chat
  <2>4. /\ sending' \in [Sends -> Pending]
        /\ \A other \in Sends :
             sending'[other].shown = "gone" => sending[other].shown = "gone"
    BY <2>3 DEF BrowserInv, BrowserTypes
  <2> QED
    BY <2>1, <2>2, <2>4 DEF BrowserInv, BrowserTypes, WithinFeed, NoGapAhead,
                            NoEventMissed, PendingUntilShown
<1> QED
  BY <1>1, <1>2

LEMMA BrowserStep == BrowserInv /\ FeedInv' /\ [Next]_vars => BrowserInv'
<1> SUFFICES ASSUME BrowserInv, FeedInv', [Next]_vars PROVE BrowserInv'
  OBVIOUS
<1> USE DEF BrowserInv
<1>1. CASE Project
  <2>1. UNCHANGED <<stream, reply, load, browser, sending>>
    BY <1>1 DEF Project, Enqueue, Tick, ReadOutbox, Relay, SkipRow, FailRow,
                RecordFailure, CrashRelay
  <2>2. UNCHANGED feed \/ \E row : feed' = Append(feed, row)
    BY <1>1 DEF Project, Enqueue, Tick, ReadOutbox, Relay, SkipRow, FailRow,
                RecordFailure, CrashRelay
  <2>3. CASE UNCHANGED feed
    BY <2>1, <2>3, BrowserKept DEF FeedGrows
  <2>4. ASSUME NEW row, feed' = Append(feed, row)
        PROVE  FeedGrows
    <3>1. feed' \in Seq(Entries)
      BY DEF FeedInv, Posted
    <3> QED
      BY <2>4, <3>1 DEF FeedGrows
  <2> QED
    BY <2>1, <2>2, <2>3, <2>4, BrowserKept
<1>2. CASE Say
  BY <1>2, PostGrows, BrowserKept DEF Say, Entries, Messages
<1>3. CASE Follow
  BY <1>3, FollowExact
<1>4. CASE Refresh \/ LoadHistory \/ LoadFails
  BY <1>4, LoadExact
<1>5. CASE \E s \in Sends : Chat(s)
  BY <1>5, ChatExact
<1>6. CASE UNCHANGED vars
  BY <1>6, BrowserKept DEF vars, FeedGrows
<1> QED
  BY <1>1, <1>2, <1>3, <1>4, <1>5, <1>6 DEF Next

LEMMA BrowserInit == Init => BrowserInv
<1> SUFFICES ASSUME Init PROVE BrowserInv
  OBVIOUS
<1>1. BrowserTypes
  BY DEF Init, BrowserTypes, Streams, Pages, NoPage, NewLoad, Pending
<1>2. Len(feed) = 0 /\ feed \in Seq(Entries)
  BY DEF Init
<1> QED
  BY <1>1, <1>2 DEF Init, BrowserInv, WithinFeed, NoGapAhead, NoEventMissed,
                    PendingUntilShown, NoPage, NewLoad

-----------------------------------------------------------------------------
(* Least, greatest and ranked elements of sets of numbers                  *)

LEMMA Least ==
  ASSUME NEW T \in SUBSET Nat, T # {}
  PROVE  \E x \in T : \A y \in T : x <= y
<1> DEFINE R == {p \in Nat \X Nat : p[1] < p[2]}
<1>1. IsWellFoundedOn(R, Nat)
  BY NatLessThanWellFounded DEF OpToRel
<1>2. \A x, y \in Nat : y < x => <<y, x>> \in R
  OBVIOUS
<1> HIDE DEF R
<1>3. PICK x \in T : \A y \in T : ~(<<y, x>> \in R)
  BY <1>1, WFMin
<1>4. x \in Nat /\ \A y \in T : y \in Nat /\ ~(y < x)
  BY <1>2, <1>3
<1>5. \A y \in T : x <= y
  BY <1>4
<1> QED
  BY <1>3, <1>5

LEMMA Greatest ==
  ASSUME NEW n \in Nat, NEW T \in SUBSET (0 .. n), T # {}
  PROVE  \E x \in T : \A y \in T : y <= x
<1> DEFINE D == {n - x : x \in T}
<1>1. D \in SUBSET Nat /\ D # {}
  <2>1. \A x \in T : n - x \in Nat
    OBVIOUS
  <2> QED
    BY <2>1
<1>2. PICK d \in D : \A e \in D : d <= e
  BY <1>1, Least
<1>3. PICK x \in T : d = n - x
  OBVIOUS
<1>4. ASSUME NEW y \in T PROVE y <= x
  <2>1. n - y \in D
    OBVIOUS
  <2>2. d <= n - y
    BY <1>2, <2>1
  <2> QED
    BY <1>3, <2>2
<1> QED
  BY <1>4

UpTo(S, i) == {j \in S : j <= i}

LEMMA UpToFinite ==
  ASSUME NEW S \in SUBSET Nat, NEW i \in Nat
  PROVE  IsFiniteSet(UpTo(S, i)) /\ Cardinality(UpTo(S, i)) \in Nat
<1>1. IsFiniteSet(0 .. i)
  <2>1. 0 \in Int /\ i \in Int
    OBVIOUS
  <2> QED
    BY <2>1, FS_Interval
<1>2. UpTo(S, i) \in SUBSET (0 .. i)
  <2>1. \A j \in UpTo(S, i) : j \in Nat /\ j <= i
    BY DEF UpTo
  <2> QED
    BY <2>1
<1>3. IsFiniteSet(UpTo(S, i))
  BY <1>1, <1>2, FS_Subset
<1> QED
  BY <1>3, FS_CardinalityType

(* A larger element has a larger rank.                                     *)
LEMMA RankGrows ==
  ASSUME NEW S \in SUBSET Nat, NEW i \in S, NEW j \in S, i < j
  PROVE  Cardinality(UpTo(S, i)) < Cardinality(UpTo(S, j))
<1>1. /\ IsFiniteSet(UpTo(S, j)) /\ Cardinality(UpTo(S, j)) \in Nat
      /\ Cardinality(UpTo(S, i)) \in Nat
  BY UpToFinite
<1>2. UpTo(S, i) \in SUBSET UpTo(S, j) /\ j \in UpTo(S, j) /\ j \notin UpTo(S, i)
  <2>1. \A l \in UpTo(S, i) : l \in S /\ l \in Nat /\ l <= i
    BY DEF UpTo
  <2>2. \A l \in UpTo(S, i) : l <= j
    BY <2>1
  <2>3. UpTo(S, i) \in SUBSET UpTo(S, j)
    BY <2>1, <2>2 DEF UpTo
  <2>4. j <= j /\ ~(j <= i)
    OBVIOUS
  <2> QED
    BY <2>3, <2>4 DEF UpTo
<1>3. /\ Cardinality(UpTo(S, i)) <= Cardinality(UpTo(S, j))
      /\ Cardinality(UpTo(S, i)) = Cardinality(UpTo(S, j))
           => UpTo(S, i) = UpTo(S, j)
  BY <1>1, <1>2, FS_Subset
<1> QED
  BY <1>1, <1>2, <1>3

(* The first elements of a set of numbers are finitely many: their ranks   *)
(* are bounded, and the one of the greatest rank is the greatest.          *)
LEMMA FirstFinite ==
  ASSUME NEW S \in SUBSET Nat, NEW n \in Nat
  PROVE  First(n, S) \in SUBSET S /\ IsFiniteSet(First(n, S))
<1> DEFINE F == First(n, S)
           Ranks == {Cardinality(UpTo(S, i)) : i \in F}
<1>1. F \in SUBSET S /\ \A i \in F : Cardinality(UpTo(S, i)) <= n
  BY DEF First, UpTo
<1>2. CASE F = {}
  BY <1>1, <1>2, FS_EmptySet
<1>3. CASE F # {}
  <2>1. Ranks \in SUBSET (0 .. n) /\ Ranks # {}
    <3>1. \A i \in F : Cardinality(UpTo(S, i)) \in Nat
      BY <1>1, UpToFinite
    <3> QED
      BY <1>1, <1>3, <3>1
  <2>2. PICK r \in Ranks : \A q \in Ranks : q <= r
    BY <2>1, Greatest
  <2>3. PICK top \in F : r = Cardinality(UpTo(S, top))
    OBVIOUS
  <2>4. ASSUME NEW i \in F PROVE i <= top
    <3>1. i \in S /\ top \in S /\ i \in Nat /\ top \in Nat
      BY <1>1
    <3>2. Cardinality(UpTo(S, i)) <= Cardinality(UpTo(S, top))
      BY <2>2, <2>3
    <3>3. Cardinality(UpTo(S, i)) \in Nat /\ Cardinality(UpTo(S, top)) \in Nat
      BY <3>1, UpToFinite
    <3>4. CASE top < i
      <4>1. Cardinality(UpTo(S, top)) < Cardinality(UpTo(S, i))
        BY <3>1, <3>4, RankGrows
      <4> QED
        BY <3>2, <3>3, <4>1
    <3> QED
      BY <3>1, <3>4
  <2>5. F \in SUBSET UpTo(S, top) /\ top \in Nat
    BY <1>1, <2>4 DEF UpTo
  <2>6. IsFiniteSet(UpTo(S, top))
    BY <2>5, UpToFinite
  <2> QED
    BY <1>1, <2>5, <2>6, FS_Subset
<1> QED
  BY <1>2, <1>3

(* Every rank up to the size of a set is that of an element.               *)
LEMMA Ranked ==
  ASSUME NEW S \in SUBSET Nat, IsFiniteSet(S), NEW k \in 1 .. Cardinality(S)
  PROVE  \E row \in S : Cardinality(UpTo(S, row)) = k
<1> DEFINE Gaps == {i \in 1 .. Cardinality(S) :
                      \A row \in S : Cardinality(UpTo(S, row)) # i}
<1>1. Cardinality(S) \in Nat
  BY FS_CardinalityType
<1>2. CASE Gaps = {}
  BY <1>2
<1>3. CASE Gaps # {}
  <2>1. PICK i \in Gaps : \A h \in Gaps : i <= h
    <3>1. Gaps \in SUBSET Nat
      BY <1>1
    <3> QED
      BY <1>3, <3>1, Least
  <2>2. i \in Nat /\ 1 <= i /\ i <= Cardinality(S)
    BY <1>1
  (* The elements up to the rank before.                                   *)
  <2>3. PICK Low \in SUBSET S :
          /\ Cardinality(Low) = i - 1 /\ IsFiniteSet(Low)
          /\ \A row \in S \ Low : \A low \in Low : low < row
    <3>1. CASE i = 1
      <4>1. {} \in SUBSET S /\ Cardinality({}) = 0 /\ IsFiniteSet({})
        BY FS_EmptySet
      <4> QED
        BY <3>1, <4>1
    <3>2. CASE i # 1
      <4>1. i - 1 \in 1 .. Cardinality(S) /\ i - 1 \notin Gaps
        BY <1>1, <2>1, <2>2, <3>2
      <4>2. PICK row \in S : Cardinality(UpTo(S, row)) = i - 1
        BY <4>1
      <4>3. IsFiniteSet(UpTo(S, row)) /\ UpTo(S, row) \in SUBSET S
        BY UpToFinite DEF UpTo
      <4>4. \A other \in S \ UpTo(S, row) : \A low \in UpTo(S, row) : low < other
        BY DEF UpTo
      <4> QED
        BY <4>2, <4>3, <4>4
    <3> QED
      BY <3>1, <3>2
  <2>4. S \ Low # {}
    <3>1. S \ Low = {} => S = Low
      OBVIOUS
    <3> QED
      BY <1>1, <2>2, <2>3, <3>1
  <2>5. PICK next \in S \ Low : \A row \in S \ Low : next <= row
    <3>1. S \ Low \in SUBSET Nat
      OBVIOUS
    <3> QED
      BY <2>4, <3>1, Least
  <2>6. UpTo(S, next) = Low \cup {next}
    <3>1. \A low \in Low : low < next
      BY <2>3
    <3>2. \A row \in S : row <= next => row \in Low \/ row = next
      BY <2>5
    <3>3. next \in S /\ next <= next /\ \A low \in Low : low \in S /\ low <= next
      BY <2>5, <3>1
    <3>4. ASSUME NEW row \in S
          PROVE  row <= next <=> row \in Low \cup {next}
      BY <3>2, <3>3
    <3>5. Low \cup {next} \in SUBSET S
      BY <3>3
    <3> QED
      BY <3>4, <3>5 DEF UpTo
  <2>7. Cardinality(UpTo(S, next)) = i
    <3>1. Cardinality(Low \cup {next}) = Cardinality(Low) + 1
      BY <2>3, <2>5, FS_AddElement
    <3> QED
      BY <2>2, <2>3, <2>6, <3>1
  <2> QED
    BY <2>1, <2>7
<1> QED
  BY <1>2, <1>3

(* A page of rows is a sequence of rows.                                   *)
LEMMA OrderedRows ==
  ASSUME NEW S \in SUBSET Rows, IsFiniteSet(S)
  PROVE  InOrder(S) \in Seq(Rows)
<1>1. S \in SUBSET Nat /\ Cardinality(S) \in Nat
  BY RowsAssumption, FS_CardinalityType
<1>2. ASSUME NEW i \in 1 .. Cardinality(S)
      PROVE  (CHOOSE row \in S : Cardinality({r \in S : r <= row}) = i) \in Rows
  <2>1. \E row \in S : Cardinality({r \in S : r <= row}) = i
    BY <1>1, Ranked DEF UpTo
  <2> QED
    BY <2>1
<1>3. InOrder(S) \in [1 .. Cardinality(S) -> Rows]
  BY <1>2 DEF InOrder
<1> QED
  BY <1>1, <1>3

-----------------------------------------------------------------------------
(* The types: a relay holds rows, and a load goes from page to page until  *)
(* it reaches the last message the Room had when the load began, so that   *)
(* there is a next page while it is not done.                              *)

RelayRows == [rows: Seq(Rows), failed: Rows \cup {0}]

MessagesAhead ==
  /\ load.phase = "room" => load.messages = 0
  /\ load.phase = "history" /\ ~load.messagesDone =>
       load.lastMessage \in AllMessages /\ load.messages < load.lastMessage

TypeInv ==
  /\ relay \in [Relays -> RelayRows] /\ Len(feed) <= MaxEvents
  /\ load \in Loads /\ MessagesAhead

LEMMA MessagePositions ==
  ASSUME feed \in Seq(Entries)
  PROVE  /\ Len(feed) \in Nat /\ DOMAIN feed = 1 .. Len(feed)
         /\ AllMessages \in SUBSET (1 .. Len(feed))
         /\ AllMessages \in SUBSET Nat
<1>1. Len(feed) \in Nat /\ DOMAIN feed = 1 .. Len(feed)
  OBVIOUS
<1>2. AllMessages \in SUBSET (1 .. Len(feed))
  BY <1>1 DEF AllMessages
<1>3. AllMessages \in SUBSET Nat
  BY <1>1, <1>2
<1> QED
  BY <1>1, <1>2, <1>3

LEMMA LastMessageThere ==
  ASSUME feed \in Seq(Entries)
  PROVE  LastMessage \in Nat /\ (LastMessage # 0 => LastMessage \in AllMessages)
<1>1. /\ Len(feed) \in Nat /\ AllMessages \in SUBSET (0 .. Len(feed))
      /\ AllMessages \in SUBSET Nat
  BY MessagePositions
<1>2. CASE AllMessages = {}
  BY <1>2 DEF LastMessage
<1>3. CASE AllMessages # {}
  <2>1. \E i \in AllMessages : \A j \in AllMessages : j <= i
    BY <1>1, <1>3, Greatest
  <2>2. LastMessage \in AllMessages
    BY <1>3, <2>1 DEF LastMessage
  <2> QED
    BY <1>1, <2>2
<1> QED
  BY <1>2, <1>3

(* The next page of messages is not empty and has a last one.              *)
LEMMA NextPage ==
  ASSUME FeedInv, TypeInv, LoadMessages
  PROVE  LET page == First(PageSize, {i \in AllMessages : i > load.messages})
             upto == CHOOSE i \in page : \A j \in page : j <= i
         IN upto \in Nat
<1> DEFINE ahead == {i \in AllMessages : i > load.messages}
           page == First(PageSize, ahead)
<1>1. feed \in Seq(Entries) /\ PageSize \in Nat \ {0} /\ load.messages \in Nat
  BY SizeAssumption DEF FeedInv, Posted, TypeInv, Loads
<1>2. /\ Len(feed) \in Nat /\ ahead \in SUBSET (0 .. Len(feed))
      /\ ahead \in SUBSET Nat
  BY <1>1, MessagePositions
<1>3. ahead # {}
  <2>1. load.lastMessage \in AllMessages /\ load.messages < load.lastMessage
    BY DEF LoadMessages, TypeInv, MessagesAhead
  <2>2. load.lastMessage \in Nat
    BY <1>1, <2>1, MessagePositions
  <2>3. load.lastMessage > load.messages
    BY <1>1, <2>1, <2>2
  <2> QED
    BY <2>1, <2>3
<1>4. PICK least \in ahead : \A j \in ahead : least <= j
  BY <1>2, <1>3, Least
<1>5. least \in page
  <2>1. {j \in ahead : j <= least} = {least}
    BY <1>2, <1>4
  <2>2. Cardinality({j \in ahead : j <= least}) = 1
    BY <2>1, FS_Singleton
  <2> QED
    BY <1>1, <2>2 DEF First
<1>6. page \in SUBSET (0 .. Len(feed))
  BY <1>1, <1>2, FirstFinite
<1>7. \E i \in page : \A j \in page : j <= i
  BY <1>2, <1>5, <1>6, Greatest
<1>8. (CHOOSE i \in page : \A j \in page : j <= i) \in page
  BY <1>7
<1> QED
  BY <1>2, <1>6, <1>8

(* The relays.                                                             *)
LEMMA RelayTyped ==
  ASSUME FeedInv, TypeInv, NEW r \in Relays,
         \/ ReadOutbox(r) \/ Relay(r) \/ SkipRow(r)
         \/ FailRow(r) \/ RecordFailure(r) \/ CrashRelay(r)
  PROVE  relay' \in [Relays -> RelayRows]
<1>1. relay[r] \in RelayRows /\ relay \in [Relays -> RelayRows]
  BY DEF TypeInv
<1>2. relay[r].rows \in Seq(Rows) /\ relay[r].failed \in Rows \cup {0}
  BY <1>1 DEF RelayRows
<1>3. ASSUME NEW rows \in Seq(Rows), NEW failed \in Rows \cup {0},
             relay' = [relay EXCEPT ![r] = [rows |-> rows, failed |-> failed]]
      PROVE  relay' \in [Relays -> RelayRows]
  <2>1. [rows |-> rows, failed |-> failed] \in RelayRows
    BY DEF RelayRows
  <2> QED
    BY <1>1, <1>3, <2>1
<1>4. ASSUME NEW rows \in Seq(Rows), relay' = [relay EXCEPT ![r].rows = rows]
      PROVE  relay' \in [Relays -> RelayRows]
  <2> DEFINE x == [relay[r] EXCEPT !.rows = rows]
  <2>1. x \in RelayRows
    BY <1>1 DEF RelayRows
  <2>2. relay' = [relay EXCEPT ![r] = x]
    BY <1>4
  <2> HIDE DEF x
  <2> QED
    BY <1>1, <2>1, <2>2
<1>5. CASE ReadOutbox(r)
  <2>1. Due \in SUBSET Nat /\ Due \in SUBSET Rows /\ Batch \in Nat
    BY RowsAssumption, SizeAssumption DEF Due
  <2>2. First(Batch, Due) \in SUBSET Rows /\ IsFiniteSet(First(Batch, Due))
    BY <2>1, FirstFinite
  <2>3. InOrder(First(Batch, Due)) \in Seq(Rows)
    BY <2>2, OrderedRows
  <2> QED
    BY <1>4, <1>5, <2>3 DEF ReadOutbox
<1>6. CASE Relay(r) \/ SkipRow(r)
  <2>1. relay[r].rows # <<>> /\ relay' = [relay EXCEPT ![r].rows = Tail(relay[r].rows)]
    BY <1>6 DEF Relay, SkipRow, Done
  <2>2. Tail(relay[r].rows) \in Seq(Rows)
    BY <1>2, <2>1
  <2> QED
    BY <1>4, <2>1, <2>2
<1>7. CASE FailRow(r)
  <2>1. /\ relay[r].rows # <<>>
        /\ relay' = [relay EXCEPT ![r] = [rows |-> Tail(relay[r].rows),
                                          failed |-> Head(relay[r].rows)]]
    BY <1>7 DEF FailRow
  <2>2. Tail(relay[r].rows) \in Seq(Rows) /\ Head(relay[r].rows) \in Rows
    BY <1>2, <2>1
  <2> QED
    BY <1>3, <2>1, <2>2
<1>8. CASE RecordFailure(r)
  <2> DEFINE x == [relay[r] EXCEPT !.failed = 0]
  <2>1. x \in RelayRows
    BY <1>1 DEF RelayRows
  <2>2. relay' = [relay EXCEPT ![r] = x]
    BY <1>8 DEF RecordFailure
  <2> HIDE DEF x
  <2> QED
    BY <1>1, <2>1, <2>2
<1>9. CASE CrashRelay(r)
  <2>1. <<>> \in Seq(Rows)
    OBVIOUS
  <2> QED
    BY <1>3, <1>9, <2>1 DEF CrashRelay
<1> QED
  BY <1>5, <1>6, <1>7, <1>8, <1>9

(* What a load has ahead stays when the feed grows.                        *)
LEMMA LoadStays ==
  ASSUME FeedInv, FeedInv', TypeInv, UNCHANGED load,
         UNCHANGED feed \/ \E entry : feed' = Append(feed, entry)
  PROVE  MessagesAhead'
<1>1. AllMessages \subseteq AllMessages'
  <2>1. CASE UNCHANGED feed
    BY <2>1 DEF AllMessages
  <2>2. ASSUME NEW entry, feed' = Append(feed, entry)
        PROVE  AllMessages \subseteq AllMessages'
    <3>1. feed \in Seq(Entries) /\ feed' \in Seq(Entries)
      BY DEF FeedInv, Posted
    <3>2. \A i \in DOMAIN feed : i \in DOMAIN feed' /\ feed'[i] = feed[i]
      BY <2>2, <3>1
    <3> QED
      BY <3>2 DEF AllMessages
  <2> QED
    BY <2>1, <2>2
<1> QED
  BY <1>1 DEF TypeInv, MessagesAhead

(* A load goes on.                                                         *)
LEMMA LoadTyped ==
  ASSUME FeedInv, BrowserInv, TypeInv, Refresh \/ LoadHistory \/ LoadFails
  PROVE  load' \in Loads /\ MessagesAhead'
<1>1. /\ load \in Loads /\ feed \in Seq(Entries) /\ Len(feed) \in Nat
  BY MessagePositions DEF TypeInv, FeedInv, Posted
<1>2. UNCHANGED feed /\ AllMessages' = AllMessages
  BY DEF Refresh, LoadHistory, LoadRoom, LoadMessages, LoadEvents, ShowHistory,
         LoadFails, AllMessages
<1>3. CASE Refresh
  <2>1. load.refreshes + 1 \in Nat
    BY <1>1 DEF Loads
  <2> QED
    BY <1>3, <2>1 DEF Refresh, NewLoad, Loads, MessagesAhead
<1>4. CASE LoadRoom
  <2> DEFINE last == LastMessage
             x == [load EXCEPT !.phase = "history", !.lastMessage = last,
                               !.lastEvent = Len(feed)]
  <2>1. last \in Nat /\ (last # 0 => last \in AllMessages)
    BY <1>1, LastMessageThere
  <2> HIDE DEF last
  <2>2. /\ x \in Loads /\ x.lastMessage = last
        /\ x.messages = load.messages /\ x.phase = "history"
    BY <1>1, <1>4, <2>1 DEF Loads
  <2>3. load' = [x EXCEPT !.messagesDone = last = 0, !.eventsDone = Len(feed) = 0]
    BY <1>4 DEF LoadRoom, last
  <2> HIDE DEF x
  <2>4. /\ load' \in Loads /\ load'.lastMessage = last
        /\ load'.messages = load.messages
        /\ load'.messagesDone <=> last = 0
        /\ load'.phase = "history"
    BY <2>2, <2>3 DEF Loads
  <2>5. load.messages = 0
    BY <1>4 DEF LoadRoom, TypeInv, MessagesAhead
  <2>6. last \in AllMessages => 0 < last
    BY <1>1, MessagePositions
  <2> QED
    BY <1>2, <2>1, <2>4, <2>5, <2>6 DEF MessagesAhead
<1>5. CASE LoadMessages
  <2>1. PICK upto \in Nat :
          load' = [load EXCEPT !.messages = upto,
                               !.messagesDone = upto >= load.lastMessage]
    BY <1>5, NextPage DEF LoadMessages
  <2> DEFINE done == upto >= load.lastMessage
             x == [load EXCEPT !.messages = upto]
  <2>2. /\ load.lastMessage \in Nat /\ load.phase = "history"
        /\ ~load.messagesDone /\ done \in BOOLEAN
    BY <1>1, <1>5 DEF Loads, LoadMessages
  <2>3. /\ x \in Loads /\ x.messages = upto /\ x.phase = "history"
        /\ x.lastMessage = load.lastMessage
    BY <1>1, <2>2 DEF Loads
  <2>4. load' = [x EXCEPT !.messagesDone = done]
    BY <2>1
  <2> HIDE DEF x, done
  <2>5. /\ load' \in Loads /\ load'.messages = upto /\ load'.phase = "history"
        /\ load'.lastMessage = load.lastMessage
        /\ load'.messagesDone = done
    BY <2>2, <2>3, <2>4 DEF Loads
  <2>6. ~done => upto < load.lastMessage
    BY <2>2 DEF done
  <2>7. load.lastMessage \in AllMessages
    BY <2>2 DEF TypeInv, MessagesAhead
  <2> QED
    BY <1>2, <2>5, <2>6, <2>7 DEF MessagesAhead
<1>6. CASE LoadEvents
  <2>1. load.events \in Nat /\ load.events <= Len(feed)
    BY <1>1 DEF BrowserInv, WithinFeed, Loads
  <2>2. PICK upto \in Nat, done \in BOOLEAN :
          load' = [load EXCEPT !.events = upto, !.eventsDone = done]
    <3>1. PICK upto \in Nat : upto = Page(load.events).upto
      BY <2>1, PageWithin DEF Pages
    <3>2. load' = [load EXCEPT !.events = upto,
                               !.eventsDone = upto >= load.lastEvent]
      BY <1>6, <3>1 DEF LoadEvents
    <3>3. (upto >= load.lastEvent) \in BOOLEAN
      OBVIOUS
    <3> QED
      BY <3>2, <3>3
  <2>3. /\ load' \in Loads /\ load'.messages = load.messages
        /\ load'.phase = load.phase /\ load'.lastMessage = load.lastMessage
        /\ load'.messagesDone = load.messagesDone
    BY <1>1, <2>2 DEF Loads
  <2> QED
    BY <1>2, <2>3 DEF TypeInv, MessagesAhead
<1>7. CASE ShowHistory
  <2>1. load' = [load EXCEPT !.phase = "none"]
    BY <1>7 DEF ShowHistory
  <2>2. load' \in Loads /\ load'.phase = "none"
    BY <1>1, <2>1 DEF Loads
  <2> QED
    BY <2>2 DEF MessagesAhead
<1>8. CASE LoadFails
  <2>1. CASE load' = [load EXCEPT !.phase = "none", !.ready = FALSE]
    <3>1. load' \in Loads /\ load'.phase = "none"
      BY <1>1, <2>1 DEF Loads
    <3> QED
      BY <3>1 DEF MessagesAhead
  <2>2. CASE /\ load.phase = "history"
             /\ load' = [load EXCEPT !.messagesDone = TRUE, !.ready = FALSE]
    <3>1. load' \in Loads /\ load'.phase = "history" /\ load'.messagesDone
      BY <1>1, <2>2 DEF Loads
    <3> QED
      BY <3>1 DEF MessagesAhead
  <2>3. CASE /\ load.phase = "history"
             /\ load' = [load EXCEPT !.eventsDone = TRUE, !.ready = FALSE]
    <3>1. /\ load' \in Loads /\ load'.messages = load.messages
          /\ load'.phase = load.phase /\ load'.lastMessage = load.lastMessage
          /\ load'.messagesDone = load.messagesDone
      BY <1>1, <2>3 DEF Loads
    <3> QED
      BY <1>2, <3>1 DEF TypeInv, MessagesAhead
  <2> QED
    BY <1>8, <2>1, <2>2, <2>3 DEF LoadFails
<1> QED
  BY <1>3, <1>4, <1>5, <1>6, <1>7, <1>8 DEF LoadHistory

LEMMA TypeStep == FeedInv /\ FeedInv' /\ BrowserInv /\ TypeInv /\ [Next]_vars => TypeInv'
<1> SUFFICES ASSUME FeedInv, FeedInv', BrowserInv, TypeInv, [Next]_vars
             PROVE  TypeInv'
  OBVIOUS
<1>0. /\ Len(feed) \in Nat /\ feed \in Seq(Entries) /\ MaxEvents \in Nat
      /\ Len(feed) <= MaxEvents
  BY MessagePositions, SizeAssumption DEF FeedInv, Posted, TypeInv
<1>1. ASSUME NEW entry, feed' = Append(feed, entry), Room
      PROVE  Len(feed') <= MaxEvents
  BY <1>0, <1>1 DEF Room
<1>2. ASSUME UNCHANGED <<relay, load, feed>> PROVE TypeInv'
  <2>1. MessagesAhead'
    BY <1>2, LoadStays
  <2> QED
    BY <1>0, <1>2, <2>1 DEF TypeInv
<1>3. ASSUME NEW entry, feed' = Append(feed, entry), Room, UNCHANGED load
      PROVE  Len(feed') <= MaxEvents /\ MessagesAhead'
  BY <1>1, <1>3, LoadStays
<1>4. CASE Project
  <2>1. ASSUME NEW row \in Rows, Enqueue(row) \/ Tick(row) PROVE TypeInv'
    <3>1. UNCHANGED <<relay, load, feed>>
      BY <2>1 DEF Enqueue, Tick
    <3> QED
      BY <1>2, <3>1
  <2>2. ASSUME NEW r \in Relays, \/ ReadOutbox(r) \/ Relay(r) \/ SkipRow(r)
                                 \/ FailRow(r) \/ RecordFailure(r) \/ CrashRelay(r)
        PROVE  TypeInv'
    <3>1. relay' \in [Relays -> RelayRows]
      BY <2>2, RelayTyped
    <3>2. UNCHANGED load
      BY <2>2 DEF ReadOutbox, Relay, SkipRow, FailRow, RecordFailure, CrashRelay
    <3>3. CASE UNCHANGED feed
      <4>1. MessagesAhead'
        BY <3>2, <3>3, LoadStays
      <4> QED
        BY <1>0, <3>1, <3>2, <3>3, <4>1 DEF TypeInv
    <3>4. CASE ~UNCHANGED feed
      <4>1. Relay(r)
        BY <2>2, <3>4 DEF ReadOutbox, SkipRow, FailRow, RecordFailure, CrashRelay
      <4>2. Room /\ feed' = Append(feed, NextRow(r))
        BY <3>4, <4>1 DEF Relay
      <4>3. Len(feed') <= MaxEvents /\ MessagesAhead'
        BY <1>3, <3>2, <4>2
      <4> QED
        BY <3>1, <3>2, <4>3 DEF TypeInv
    <3> QED
      BY <3>3, <3>4
  <2> QED
    BY <1>4, <2>1, <2>2 DEF Project
<1>5. CASE Say
  <2>1. Len(feed') <= MaxEvents /\ MessagesAhead'
    BY <1>3, <1>5 DEF Say
  <2> QED
    BY <1>5, <2>1 DEF Say, TypeInv
<1>6. CASE Follow
  <2>1. UNCHANGED <<relay, load, feed>>
    BY <1>6 DEF Follow, Connect, Send, Receive, Disconnect, ReceivePage, LosePage
  <2> QED
    BY <1>2, <2>1
<1>7. CASE Refresh \/ LoadHistory \/ LoadFails
  <2>1. UNCHANGED <<relay, feed>>
    BY <1>7 DEF Refresh, LoadHistory, LoadRoom, LoadMessages, LoadEvents,
                ShowHistory, LoadFails
  <2>2. load' \in Loads /\ MessagesAhead'
    BY <1>7, LoadTyped
  <2> QED
    BY <2>1, <2>2 DEF TypeInv
<1>8. ASSUME NEW s \in Sends, Chat(s) PROVE TypeInv'
  <2>1. CASE AcceptMessage(s)
    <3>1. Len(feed') <= MaxEvents /\ MessagesAhead'
      BY <1>3, <2>1 DEF AcceptMessage
    <3> QED
      BY <2>1, <3>1 DEF AcceptMessage, TypeInv
  <2>2. CASE ~AcceptMessage(s)
    <3>1. UNCHANGED <<relay, load, feed>>
      BY <1>8, <2>2 DEF Chat, SendMessage, RetryMessage, Accepted, SendFails,
                        DismissMessage
    <3> QED
      BY <1>2, <3>1
  <2> QED
    BY <2>1, <2>2
<1>9. CASE UNCHANGED vars
  <2>1. UNCHANGED <<relay, load, feed>>
    BY <1>9 DEF vars
  <2> QED
    BY <1>2, <2>1
<1> QED
  BY <1>4, <1>5, <1>6, <1>7, <1>8, <1>9 DEF Next

LEMMA TypeInit == Init => TypeInv
<1> SUFFICES ASSUME Init PROVE TypeInv
  OBVIOUS
<1>1. [rows |-> <<>>, failed |-> 0] \in RelayRows
  BY DEF RelayRows
<1>2. Len(feed) <= MaxEvents
  BY SizeAssumption DEF Init
<1>3. NewLoad(TRUE, 0) \in Loads /\ NewLoad(TRUE, 0).phase = "room"
      /\ NewLoad(TRUE, 0).messages = 0
  BY DEF NewLoad, Loads
<1> QED
  BY <1>1, <1>2, <1>3 DEF Init, TypeInv, MessagesAhead

(* What the invariants say of the types together.                          *)
LEMMA AllTyped == FeedInv /\ BrowserInv /\ TypeInv => TypeOK
<1> SUFFICES ASSUME FeedInv, BrowserInv, TypeInv PROVE TypeOK
  OBVIOUS
<1>1. /\ outbox \in [Rows -> Outboxes] /\ feed \in Seq(Rows \cup Messages)
      /\ Len(feed) <= MaxEvents /\ load \in Loads
      /\ relay \in [Relays -> [rows: Seq(Rows), failed: Rows \cup {0}]]
      /\ stream \in Streams /\ reply \in Pages /\ sending \in [Sends -> Pending]
  BY DEF FeedInv, Posted, Entries, TypeInv, RelayRows, BrowserInv, BrowserTypes
<1>2. /\ Len(feed) \in Nat /\ DOMAIN feed = 1 .. Len(feed) /\ MaxEvents \in Nat
  BY MessagePositions, SizeAssumption DEF FeedInv, Posted
<1>3. /\ browser \in [known: BOOLEAN, events: SUBSET Nat, messages: SUBSET Nat,
                       cursor: Nat]
      /\ browser.cursor \in Nat /\ browser.cursor <= Len(feed)
      /\ browser.messages \subseteq DOMAIN feed
      /\ browser.events = 1 .. browser.cursor
  BY DEF BrowserInv, BrowserTypes, WithinFeed, NoEventMissed
<1>4. browser.events \in SUBSET Positions /\ browser.messages \in SUBSET Positions
  BY <1>1, <1>2, <1>3 DEF Positions
<1>5. browser \in Browsers
  BY <1>3, <1>4 DEF Browsers
<1> QED
  BY <1>1, <1>5 DEF TypeOK

LEMMA Together ==
  FeedInv /\ BrowserInv /\ TypeInv => /\ TypeOK /\ NoEventMissed
                                     /\ SentOnce /\ PendingUntilShown
<1>1. FeedInv => SentOnce
  <2> SUFFICES ASSUME FeedInv, NEW s \in Sends
               PROVE  Cardinality({i \in DOMAIN feed : feed[i] = s}) <= 1
    BY DEF SentOnce
  <2>1. s # Other
    BY NamesAssumption
  <2>2. Cardinality({i \in DOMAIN feed : feed[i] = s}) = IF In(s) THEN 1 ELSE 0
    BY <2>1, OnceThere
  <2> QED
    BY <2>2
<1> QED
  BY <1>1, AllTyped DEF BrowserInv

LEMMA ViewInit == Init => FeedInv /\ BrowserInv /\ TypeInv
BY FeedStarts, BrowserInit, TypeInit

LEMMA ViewStep ==
  FeedInv /\ BrowserInv /\ TypeInv /\ [Next]_vars
    => FeedInv' /\ BrowserInv' /\ TypeInv'
BY FeedStep, BrowserStep, TypeStep

(* Every variable keeps its type: the rows a relay picked are rows, and a  *)
(* load that is not done has a page ahead.                                 *)
THEOREM Typing == Spec => []TypeOK
<1>1. FeedInv /\ BrowserInv /\ TypeInv /\ [Next]_vars
        => (FeedInv /\ BrowserInv /\ TypeInv)'
  BY ViewStep
<1> QED
  BY <1>1, ViewInit, AllTyped, PTL DEF Spec

(* What one browser holds agrees with the Room, however the stream, the    *)
(* pages and the loads overlap and are lost: it has every event up to its  *)
(* cursor, a pending message goes away by itself only when it is shown,    *)
(* and a message that is sent again is in the feed once.                   *)
THEOREM Exactness == Spec => [](NoEventMissed /\ PendingUntilShown /\ SentOnce)
<1>1. FeedInv /\ BrowserInv /\ TypeInv /\ [Next]_vars
        => (FeedInv /\ BrowserInv /\ TypeInv)'
  BY ViewStep
<1> QED
  BY <1>1, ViewInit, Together, PTL DEF Spec

-----------------------------------------------------------------------------
(* The parts of MCRoomFeed: a step of each is one of the feed, or none.    *)
LEMMA PartStep == [FeedNext]_<<part, vars, sessionVars>> => [Next]_vars
BY DEF FeedNext

(* What the browser holds agrees with the Room in every part of a behaviour *)
(* of MCRoomFeed: over lost connections, lost answers and loads that        *)
(* overlap the stream, whether two relays work or the browser sends.        *)
THEOREM BrowserFollows == FeedSpec => []BrowserIsExact
<1> DEFINE Inv == FeedInv /\ BrowserInv /\ TypeInv
<1>1. FeedInit => Inv
  BY ViewInit DEF FeedInit
<1>2. Inv /\ [FeedNext]_<<part, vars, sessionVars>> => Inv'
  BY ViewStep, PartStep
<1>3. Inv => BrowserIsExact
  BY Together DEF BrowserIsExact
<1> QED
  BY <1>1, <1>2, <1>3, PTL DEF FeedSpec

=============================================================================
