----------------------------- MODULE ClaimPoll -----------------------------
(***************************************************************************)
(* The poll loop of the execution daemons: the window of candidates each   *)
(* poll reads, the claims it makes one after the other, the slots the      *)
(* launched attempts take, and the drain and forced interrupt of a stop.   *)
(*                                                                         *)
(* What an attempt does is ExecutionJob's and WorkspaceAttempt's matter:   *)
(* here an attempt is work that is queued, held under a lease that its     *)
(* heartbeats keep, lapsed or done.  Work is numbered in the order of the  *)
(* candidate query.  Every runtime is registered with every daemon, whose  *)
(* instances are single-use: a restart is another daemon.                  *)
(***************************************************************************)
EXTENDS Naturals, FiniteSets

CONSTANTS
  Daemons,       \* daemon instances
  Runtimes,      \* execution runtimes
  WorkCount,     \* how many attempts there are
  RuntimeOf,     \* the runtime of each attempt
  CapacityTotal, \* capacity of each runtime
  Slots,         \* maxConcurrentAttempts
  PollBatchSize, \* limit of the candidate query
  MaxLosses,     \* bound on the daemons that crash or are stopped
  MaxStalls,     \* bound on the heartbeats that come too late
  MaxToggles,    \* bound on the changes of a runtime's enabled flag
  None           \* no daemon

Work == 1 .. WorkCount

ASSUME PollAssumption ==
  /\ IsFiniteSet(Daemons) /\ None \notin Daemons
  /\ WorkCount \in Nat
  /\ RuntimeOf \in [Work -> Runtimes]
  /\ CapacityTotal \in [Runtimes -> Nat \ {0}]
  /\ Slots \in Nat \ {0} /\ PollBatchSize \in Nat \ {0}
  /\ {MaxLosses, MaxStalls, MaxToggles} \subseteq Nat

VARIABLES
  status,   \* of each attempt, with the state of its lease
  holder,   \* leaseOwnerId
  enabled,  \* runtimes that are enabled
  loop,     \* state of each daemon's loop
  pc,       \* where its loop stands
  limit,    \* the limit of the query it is about to make
  batch,    \* candidates it has not done with, in the order of the query
  active,   \* activeAttempts
  dropped,  \* attempts it abandoned, without allowComplete
  forced,   \* daemons whose interruptActive was called
  losses, stalls, toggles

vars == <<status, holder, enabled, loop, pc, limit, batch, active, dropped,
          forced, losses, stalls, toggles>>
lease == <<status, holder>>
polling == <<pc, limit, batch>>
driving == <<active, dropped>>
bounds == <<losses, stalls, toggles>>

-----------------------------------------------------------------------------
Reserving(r) == {w \in Work : /\ status[w] \in {"held", "lapsed"}
                              /\ RuntimeOf[w] = r}

Candidates == {w \in Work : status[w] \in {"queued", "lapsed"}}

(* The first n candidates of the query's order. *)
Window(n) == {w \in Candidates : Cardinality({v \in Candidates : v <= w}) <= n}

(* The candidate a daemon's loop looks at, the first of those that are left. *)
First(d) == CHOOSE w \in batch[d] : \A v \in batch[d] : w <= v

FreeSlots(d) == Slots - Cardinality(active[d])

(* What the transaction of claimExecutionAttempt accepts. *)
Claimable(w) ==
  /\ RuntimeOf[w] \in enabled
  /\ \/ /\ status[w] = "queued"
        /\ Cardinality(Reserving(RuntimeOf[w])) < CapacityTotal[RuntimeOf[w]]
     \/ status[w] = "lapsed"

TypeOK ==
  /\ status \in [Work -> {"absent", "queued", "held", "lapsed", "done"}]
  /\ holder \in [Work -> Daemons \cup {None}]
  /\ enabled \subseteq Runtimes
  /\ loop \in [Daemons -> {"idle", "running", "draining", "stopped",
                           "crashed"}]
  /\ pc \in [Daemons -> {"poll", "list", "next", "claim", "launch", "wait",
                         "finish"}]
  /\ limit \in [Daemons -> 0 .. PollBatchSize]
  /\ batch \in [Daemons -> SUBSET Work]
  /\ active \in [Daemons -> SUBSET Work]
  /\ dropped \in [Daemons -> SUBSET Work]
  /\ forced \subseteq Daemons
  /\ losses \in 0 .. MaxLosses
  /\ stalls \in 0 .. MaxStalls
  /\ toggles \in 0 .. MaxToggles

Init ==
  /\ status = [w \in Work |-> "absent"]
  /\ holder = [w \in Work |-> None]
  /\ enabled = Runtimes
  /\ loop = [d \in Daemons |-> "idle"]
  /\ pc = [d \in Daemons |-> "poll"]
  /\ limit = [d \in Daemons |-> 0]
  /\ batch = [d \in Daemons |-> {}]
  /\ active = [d \in Daemons |-> {}]
  /\ dropped = [d \in Daemons |-> {}]
  /\ forced = {}
  /\ losses = 0 /\ stalls = 0 /\ toggles = 0

-----------------------------------------------------------------------------
Queue(w) ==
  /\ status[w] = "absent"
  /\ RuntimeOf[w] \in enabled
  /\ status' = [status EXCEPT ![w] = "queued"]
  /\ UNCHANGED <<holder, enabled, loop, polling, driving, forced, bounds>>

Toggle(r) ==
  /\ toggles < MaxToggles
  /\ toggles' = toggles + 1
  /\ enabled' = IF r \in enabled THEN enabled \ {r} ELSE enabled \cup {r}
  /\ UNCHANGED <<lease, loop, polling, driving, forced, losses, stalls>>

Run(d) ==
  /\ loop[d] = "idle"
  /\ loop' = [loop EXCEPT ![d] = "running"]
  /\ UNCHANGED <<lease, enabled, polling, driving, forced, bounds>>

Goes(d, at) == loop[d] \in {"running", "draining"} /\ pc[d] = at
MoveTo(d, to) == pc' = [pc EXCEPT ![d] = to]

(* The free slots are counted before the runtimes are described. *)
StartPoll(d) ==
  /\ Goes(d, "poll")
  /\ IF FreeSlots(d) > 0 /\ loop[d] = "running"
     THEN /\ MoveTo(d, "list")
          /\ limit' = [limit EXCEPT ![d] =
               IF FreeSlots(d) < PollBatchSize THEN FreeSlots(d)
                                               ELSE PollBatchSize]
     ELSE MoveTo(d, "wait") /\ UNCHANGED limit
  /\ UNCHANGED <<lease, enabled, loop, batch, driving, forced, bounds>>

ListCandidates(d) ==
  /\ Goes(d, "list")
  /\ IF loop[d] = "running"
     THEN batch' = [batch EXCEPT ![d] = Window(limit[d])] /\ MoveTo(d, "next")
     ELSE MoveTo(d, "wait") /\ UNCHANGED batch
  /\ UNCHANGED <<lease, enabled, loop, limit, driving, forced, bounds>>

(* The query throws: the poll is over. *)
ListFails(d) ==
  /\ Goes(d, "list")
  /\ stalls < MaxStalls
  /\ stalls' = stalls + 1
  /\ MoveTo(d, "wait")
  /\ UNCHANGED <<lease, enabled, loop, limit, batch, driving, forced, losses,
                 toggles>>

MayGoOn(d) == loop[d] = "running" /\ FreeSlots(d) > 0

AlreadyActive(d, w) == w \in active[d]

(* One turn of the loop over the candidates, up to the call of claim. *)
NextCandidate(d) ==
  /\ Goes(d, "next")
  /\ IF batch[d] # {} /\ MayGoOn(d)
     THEN IF AlreadyActive(d, First(d))
          THEN batch' = [batch EXCEPT ![d] = @ \ {First(d)}] /\ UNCHANGED pc
          ELSE MoveTo(d, "claim") /\ UNCHANGED batch
     ELSE MoveTo(d, "wait") /\ batch' = [batch EXCEPT ![d] = {}]
  /\ UNCHANGED <<lease, enabled, loop, limit, driving, forced, bounds>>

(* The transaction of the claim commits, or refuses. *)
Claim(d) ==
  /\ Goes(d, "claim")
  /\ LET w == First(d)
     IN  IF Claimable(w)
         THEN /\ status' = [status EXCEPT ![w] = "held"]
              /\ holder' = [holder EXCEPT ![w] = d]
              /\ dropped' = [dropped EXCEPT ![d] = @ \ {w}]
              /\ MoveTo(d, "launch")
              /\ UNCHANGED batch
         ELSE /\ batch' = [batch EXCEPT ![d] = @ \ {First(d)}]
              /\ MoveTo(d, "next")
              /\ UNCHANGED <<lease, dropped>>
  /\ UNCHANGED <<enabled, loop, limit, active, forced, bounds>>

(* Mutant of LaunchAttempt: a loop told to stop meanwhile breaks instead.  *)
LaunchIfRunning(d) ==
  /\ Goes(d, "launch")
  /\ active' = IF loop[d] = "running"
               THEN [active EXCEPT ![d] = @ \cup {First(d)}] ELSE active
  /\ batch' = [batch EXCEPT ![d] = @ \ {First(d)}]
  /\ MoveTo(d, "next")
  /\ UNCHANGED <<lease, enabled, loop, limit, dropped, forced, bounds>>

(* The answer of the claim arrives: nothing looks at the loop's state. *)
LaunchAttempt(d) ==
  /\ Goes(d, "launch")
  /\ active' = [active EXCEPT ![d] = @ \cup {First(d)}]
  /\ batch' = [batch EXCEPT ![d] = @ \ {First(d)}]
  /\ MoveTo(d, "next")
  /\ UNCHANGED <<lease, enabled, loop, limit, dropped, forced, bounds>>

(* The wait is over, or woken; a loop that is not running does not poll.   *)
WaitForNextPoll(d) ==
  /\ Goes(d, "wait")
  /\ MoveTo(d, IF loop[d] = "running" THEN "poll" ELSE "finish")
  /\ UNCHANGED <<lease, enabled, loop, limit, batch, driving, forced, bounds>>

WaitForActiveAttempts(d) ==
  /\ Goes(d, "finish")
  /\ active[d] = {}
  /\ loop' = [loop EXCEPT ![d] = "stopped"]
  /\ UNCHANGED <<lease, enabled, polling, driving, forced, bounds>>

-----------------------------------------------------------------------------
Owns(d, w) == status[w] = "held" /\ holder[w] = d

(* The attempt runs to its end and completes its work. *)
Complete(d, w) ==
  /\ loop[d] \in {"running", "draining"}
  /\ w \in active[d] \ dropped[d]
  /\ Owns(d, w)
  /\ status' = [status EXCEPT ![w] = "done"]
  /\ active' = [active EXCEPT ![d] = @ \ {w}]
  /\ UNCHANGED <<holder, enabled, loop, polling, dropped, forced, bounds>>

(* A heartbeat is told that the lease is no longer the daemon's. *)
Fenced(d, w) ==
  /\ loop[d] \in {"running", "draining"}
  /\ w \in active[d] \ dropped[d]
  /\ ~Owns(d, w)
  /\ dropped' = [dropped EXCEPT ![d] = @ \cup {w}]
  /\ UNCHANGED <<lease, enabled, loop, polling, active, forced, bounds>>

(* A heartbeat throws: ownership is no longer trusted. *)
HeartbeatFails(d, w) ==
  /\ loop[d] \in {"running", "draining"}
  /\ w \in active[d] \ dropped[d]
  /\ stalls < MaxStalls
  /\ stalls' = stalls + 1
  /\ dropped' = [dropped EXCEPT ![d] = @ \cup {w}]
  /\ UNCHANGED <<lease, enabled, loop, polling, active, forced, losses,
                 toggles>>

(* Mutant of AbandonedEnds: only a completed attempt leaves the map. *)
AbandonedStays(d, w) ==
  /\ loop[d] \in {"running", "draining"}
  /\ w \in active[d] \cap dropped[d]
  /\ UNCHANGED vars

(* The driver of an abandoned attempt has ended. *)
AbandonedEnds(d, w) ==
  /\ loop[d] \in {"running", "draining"}
  /\ w \in active[d] \cap dropped[d]
  /\ active' = [active EXCEPT ![d] = @ \ {w}]
  /\ UNCHANGED <<lease, enabled, loop, polling, dropped, forced, bounds>>

(* No heartbeat renews the lease: its owner is gone or has abandoned it.   *)
Unrenewed(w) ==
  \/ loop[holder[w]] \in {"crashed", "stopped"}
  \/ w \in dropped[holder[w]]
  \/ w \notin active[holder[w]] /\ ~Goes(holder[w], "launch")

LeaseLapses(w) ==
  /\ status[w] = "held"
  /\ Unrenewed(w)
  /\ status' = [status EXCEPT ![w] = "lapsed"]
  /\ UNCHANGED <<holder, enabled, loop, polling, driving, forced, bounds>>

(* The event loop stalls past the lease of an attempt that is running. *)
LeaseStalls(w) ==
  /\ status[w] = "held"
  /\ ~Unrenewed(w)
  /\ stalls < MaxStalls
  /\ stalls' = stalls + 1
  /\ status' = [status EXCEPT ![w] = "lapsed"]
  /\ UNCHANGED <<holder, enabled, loop, polling, driving, forced, losses,
                 toggles>>

-----------------------------------------------------------------------------
Drain(d) ==
  /\ loop[d] \in {"idle", "running"}
  /\ losses < MaxLosses
  /\ losses' = losses + 1
  /\ loop' = [loop EXCEPT ![d] = IF @ = "idle" THEN "stopped" ELSE "draining"]
  /\ UNCHANGED <<lease, enabled, polling, driving, forced, stalls, toggles>>

(* The shutdown grace is over before the drain. *)
InterruptActive(d) ==
  /\ loop[d] = "draining"
  /\ d \notin forced
  /\ forced' = forced \cup {d}
  /\ dropped' = [dropped EXCEPT ![d] = @ \cup active[d]]
  /\ UNCHANGED <<lease, enabled, loop, polling, active, bounds>>

Crash(d) ==
  /\ loop[d] \in {"running", "draining"}
  /\ losses < MaxLosses
  /\ losses' = losses + 1
  /\ loop' = [loop EXCEPT ![d] = "crashed"]
  /\ active' = [active EXCEPT ![d] = {}]
  /\ dropped' = [dropped EXCEPT ![d] = {}]
  /\ batch' = [batch EXCEPT ![d] = {}]
  /\ UNCHANGED <<lease, enabled, pc, limit, forced, stalls, toggles>>

Poll(d) ==
  \/ StartPoll(d) \/ ListCandidates(d) \/ NextCandidate(d) \/ Claim(d)
  \/ LaunchAttempt(d) \/ WaitForNextPoll(d) \/ WaitForActiveAttempts(d)

AttemptEnds(d, w) ==
  Complete(d, w) \/ Fenced(d, w) \/ AbandonedEnds(d, w)

Next ==
  \/ \E w \in Work : Queue(w) \/ LeaseLapses(w) \/ LeaseStalls(w)
  \/ \E r \in Runtimes : Toggle(r)
  \/ \E d \in Daemons :
       \/ Run(d) \/ Poll(d) \/ ListFails(d)
       \/ Drain(d) \/ InterruptActive(d) \/ Crash(d)
       \/ \E w \in Work : AttemptEnds(d, w) \/ HeartbeatFails(d, w)

Spec == Init /\ [][Next]_vars

(* Daemons are started and poll, drivers end (they have a timeout), and a  *)
(* lease that nobody renews expires.                                       *)
Fairness ==
  /\ \A d \in Daemons :
       /\ WF_vars(Run(d)) /\ WF_vars(Poll(d))
       /\ \A w \in Work : WF_vars(AttemptEnds(d, w))
  /\ \A w \in Work : WF_vars(LeaseLapses(w))

FairSpec == Spec /\ Fairness

-----------------------------------------------------------------------------
(* Every lease a live daemon holds is of an attempt it launched or is      *)
(* about to launch, or of one it abandoned: no claim is forgotten on the   *)
(* way, however the loop was told to stop meanwhile.                       *)
NoLeakedClaim ==
  \A d \in Daemons, w \in Work :
    /\ Owns(d, w)
    /\ loop[d] \in {"running", "draining", "stopped"}
    => \/ w \in active[d] \cup dropped[d]
       \/ Goes(d, "launch") /\ w = First(d)

(* Neither the slots of a daemon nor the capacity of a runtime are         *)
(* exceeded, whatever a poll decided on counts taken before its awaits.    *)
WithinLimits ==
  /\ \A d \in Daemons : Cardinality(active[d]) <= Slots
  /\ \A r \in Runtimes : Cardinality(Reserving(r)) <= CapacityTotal[r]

(* No claim is launched over an attempt the daemon still drives, whose     *)
(* driver could then be neither interrupted nor awaited.                   *)
NoneOverwritten ==
  \A d \in Daemons : Goes(d, "launch") => First(d) \notin active[d]

(* A forced interrupt leaves at most the one attempt whose claim was in    *)
(* flight.                                                                 *)
ForceLeavesOne ==
  \A d \in forced : Cardinality(active[d] \ dropped[d]) <= 1

(* A loop that has ended drives nothing. *)
StoppedDrivesNothing ==
  \A d \in Daemons : loop[d] = "stopped" => active[d] = {}

(* A drain ends, with or without the forced interrupt. *)
DrainEnds ==
  \A d \in Daemons :
    loop[d] = "draining" ~> loop[d] \in {"stopped", "crashed"}

(* Candidates ahead of an attempt that no daemon can claim fill the window *)
(* of the query.                                                           *)
Hidden(w) ==
  Cardinality({v \in Candidates : v < w /\ ~Claimable(v)})
    >= IF Slots < PollBatchSize THEN Slots ELSE PollBatchSize

(* An attempt whose lease has lapsed is reclaimed, as long as its runtime  *)
(* is enabled and the window of the query reaches it.                      *)
LapsedIsReclaimed ==
  \A w \in Work :
    status[w] = "lapsed" ~> \/ status[w] # "lapsed"
                            \/ Hidden(w)
                            \/ RuntimeOf[w] \notin enabled

(* interruptActive and a crash leave attempts that "a later claim" takes   *)
(* up with a higher generation: every lapsed attempt is claimed again.     *)
LapsedAlwaysReclaimed ==
  \A w \in Work : status[w] = "lapsed" ~> status[w] # "lapsed"

=============================================================================
