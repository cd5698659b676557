----------------------------- MODULE RoomMailbox -----------------------------
(***************************************************************************)
(* What the people of a Room may rely on when they mention an agent: its   *)
(* messages are handled one after the other in the order they were posted, *)
(* each is settled once and for all, and a settled message has at most one *)
(* answer, which appears in the step that settles it.                      *)
(***************************************************************************)
EXTENDS Naturals

VARIABLES
  posted,    \* how many messages were posted to the agent
  settled,   \* the numbers of those that are handled or given up
  answered   \* the numbers of those the agent answered

mailboxVars == <<posted, settled, answered>>

Init == posted = 0 /\ settled = {} /\ answered = {}

Post ==
  /\ posted' = posted + 1
  /\ UNCHANGED <<settled, answered>>

Settle(n) ==
  /\ n \in 1 .. posted
  /\ n \notin settled
  /\ \A m \in 1 .. (n - 1) : m \in settled
  /\ settled' = settled \cup {n}
  /\ answered' \in {answered, answered \cup {n}}
  /\ UNCHANGED posted

Next == Post \/ \E n \in 1 .. posted : Settle(n)

Spec == Init /\ [][Next]_mailboxVars
=============================================================================
