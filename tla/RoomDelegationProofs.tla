------------------------- MODULE RoomDelegationProofs -------------------------
(***************************************************************************)
(* How agents pass work on, for every set of agents, messages, tool calls  *)
(* and offers and every budget: the budgets agree with the ledger, work    *)
(* never comes back, is handed on once, and only under a lease and a       *)
(* grant.  DelegationInv is the inductive invariant; the action property   *)
(* follows from it.                                                        *)
(***************************************************************************)
EXTENDS RoomDelegation, FiniteSetTheorems, SequenceTheorems,
        WellFoundedInduction, TLAPS

Deliveries == [root: Messages, call: Calls \cup {NoCall},
               intent: {"respond", "observe"}, lineage: Seq(Agents)]
Sessions == [done: Nat, current: BOOLEAN, generation: 0 .. MaxGeneration,
             lease: BOOLEAN, bound: BOOLEAN]
Runs == [stage: {"none", "claimed", "opened", "bound"},
         fence: 0 .. MaxGeneration]
Grants == [from: Agents, to: Agents, scope: {"once", "room"},
           root: Messages \cup {NoMessage},
           status: {"active", "consumed", "revoked"}, expired: BOOLEAN,
           count: 0 .. GrantLimit]
CallRows == [stage: {"unused", "sent", "answered"}, agent: Agents \cup {NoAgent},
             generation: 0 .. MaxGeneration, fence: 0 .. MaxGeneration,
             delivery: Nat, target: Agents \cup {NoAgent}]
LedgerRows == [status: {"none", "blocked", "accepted"}, code: Codes,
               root: Messages \cup {NoMessage}, from: Agents \cup {NoAgent},
               to: Agents \cup {NoAgent}, grant: 0 .. MaxGrants,
               hop: 0 .. MaxHops + 1, delivery: Nat]

Shape ==
  /\ enabled \subseteq Agents /\ posted \subseteq Messages
  /\ inbox \in [Agents -> Seq(Deliveries)]
  /\ session \in [Agents -> Sessions]
  /\ run \in [Agents -> [Generations -> Runs]]
  /\ grants \in Seq(Grants) /\ Len(grants) =< MaxGrants
  /\ budget \in [Messages -> 0 .. MaxInvocations]
  /\ call \in [Calls -> CallRows]
  /\ ledger \in [Calls -> LedgerRows]

(* The claim of a session is on a delivery its inbox holds.                *)
SessionInv(a) ==
  /\ session[a].done =< Len(inbox[a])
  /\ session[a].current => session[a].done < Len(inbox[a])
  /\ session[a].lease => session[a].current

(* A fence is as new as the run that read it, and the session's at most.   *)
RunInv(a, g) ==
  /\ run[a][g].stage # "none" => g =< session[a].generation
  /\ run[a][g].stage \in {"opened", "bound"} =>
       g =< run[a][g].fence /\ run[a][g].fence =< session[a].generation
  /\ run[a][g].stage = "bound" => run[a][g].fence = g

(* A call presents the fence of its own run, and is in the ledger only     *)
(* when it was answered; an accepted one has its delivery and its grant.   *)
CallInv(c) ==
  /\ call[c].stage # "unused" =>
       /\ call[c].agent \in Agents /\ call[c].target \in Agents
       /\ call[c].fence = call[c].generation
  /\ call[c].stage # "answered" => ledger[c].status = "none"
  /\ ledger[c].status = "accepted" =>
       /\ ledger[c].root \in Messages
       /\ ledger[c].from \in Agents /\ ledger[c].to \in Agents
       /\ ledger[c].grant \in DOMAIN grants
       /\ ledger[c].delivery \in DOMAIN inbox[ledger[c].to]
       /\ inbox[ledger[c].to][ledger[c].delivery].call = c

(* The chain that leads to a delivery.                                     *)
ChainInv(a, i) ==
  LET d == inbox[a][i]
  IN /\ IsInjective(d.lineage) /\ d.lineage # <<>> /\ Last(d.lineage) = a
     /\ Len(d.lineage) =< MaxHops + 1
     /\ LineageRecorded(a, i)
     /\ d.call # NoCall =>
          \E j \in DOMAIN inbox[ledger[d.call].from] :
            /\ inbox[ledger[d.call].from][j].lineage = Front(d.lineage)
            /\ inbox[ledger[d.call].from][j].root = d.root

Uses(g) == {c \in Accepted : ledger[c].grant = g}

(* What a grant has counted; one for a single use is consumed by it.       *)
GrantInv(g) ==
  /\ grants[g].count = Cardinality(Uses(g))
  /\ grants[g].scope = "once" =>
       /\ grants[g].count =< 1
       /\ grants[g].status = "consumed" <=> grants[g].count = 1

Spent(m) == Accepted \cap OfRoot(m)
BudgetInv(m) == budget[m] = Cardinality(Spent(m))

HandedOnce ==
  \A c, d \in Accepted :
    c # d /\ ledger[c].root = ledger[d].root =>
      <<ledger[c].from, ledger[c].to>> # <<ledger[d].from, ledger[d].to>>

DelegationInv ==
  /\ DelegationAssumption
  /\ Shape
  /\ \A a \in Agents : SessionInv(a)
  /\ \A a \in Agents, g \in Generations : RunInv(a, g)
  /\ \A c \in Calls : CallInv(c)
  /\ \A a \in Agents : \A i \in DOMAIN inbox[a] : ChainInv(a, i)
  /\ IsFiniteSet(Accepted)
  /\ \A g \in DOMAIN grants : GrantInv(g)
  /\ \A m \in Messages : BudgetInv(m)
  /\ HandedOnce

-----------------------------------------------------------------------------
(* Sequences and choices                                                   *)

LEMMA Appended ==
  ASSUME NEW S, NEW s \in Seq(S), NEW x \in S
  PROVE  /\ Len(s) \in Nat /\ DOMAIN s = 1 .. Len(s)
         /\ Append(s, x) \in Seq(S) /\ Len(Append(s, x)) = Len(s) + 1
         /\ DOMAIN Append(s, x) = 1 .. Len(s) + 1
         /\ \A i \in 1 .. Len(s) : Append(s, x)[i] = s[i]
         /\ Append(s, x)[Len(s) + 1] = x /\ Append(s, x) # <<>>
<1>1. /\ Len(s) \in Nat /\ DOMAIN s = 1 .. Len(s)
      /\ Append(s, x) \in Seq(S) /\ Len(Append(s, x)) = Len(s) + 1
  OBVIOUS
<1>2. /\ \A i \in 1 .. Len(s) : Append(s, x)[i] = s[i]
      /\ Append(s, x)[Len(s) + 1] = x
  OBVIOUS
<1>3. DOMAIN Append(s, x) = 1 .. Len(s) + 1 /\ Append(s, x) # <<>>
  BY <1>1
<1> QED
  BY <1>1, <1>2, <1>3

LEMMA FrontOfAppend ==
  ASSUME NEW S, NEW s \in Seq(S), NEW x \in S
  PROVE  Front(Append(s, x)) = s
<1> DEFINE t == Append(s, x)
<1>1. /\ t \in Seq(S) /\ Len(t) = Len(s) + 1 /\ Len(s) \in Nat
      /\ \A i \in 1 .. Len(s) : t[i] = s[i]
  BY Appended
<1> HIDE DEF t
<1>2. Front(t) = SubSeq(t, 1, Len(s))
  BY <1>1 DEF Front
<1>3. /\ SubSeq(t, 1, Len(s)) \in Seq(S) /\ Len(SubSeq(t, 1, Len(s))) = Len(s)
      /\ \A i \in 1 .. Len(s) : SubSeq(t, 1, Len(s))[i] = t[i]
  BY <1>1
<1>4. SubSeq(t, 1, Len(s)) = s
  BY <1>1, <1>3, SeqEqual
<1> QED
  BY <1>2, <1>4 DEF t

(* A set of numbers that is not empty has a least one.                     *)
LEMMA Least ==
  ASSUME NEW T \in SUBSET Nat, T # {}
  PROVE  \E x \in T : \A y \in T : x =< y
<1> DEFINE R == {p \in Nat \X Nat : p[1] < p[2]}
<1>1. IsWellFoundedOn(R, Nat)
  BY NatLessThanWellFounded DEF OpToRel
<1>2. \A x, y \in Nat : y < x => <<y, x>> \in R
  OBVIOUS
<1> HIDE DEF R
<1>3. PICK x \in T : \A y \in T : ~(<<y, x>> \in R)
  BY <1>1, WFMin
<1>4. x \in Nat /\ \A y \in T : y \in Nat /\ ~(y < x)
  BY <1>2, <1>3
<1>5. \A y \in T : x =< y
  BY <1>4
<1> QED
  BY <1>3, <1>5

-----------------------------------------------------------------------------
(* What the invariant says of the parts of the state                       *)

LEMMA Bounds ==
  ASSUME DelegationInv
  PROVE  /\ Host \in Agents /\ NoAgent \notin Agents /\ NoCall \notin Calls
         /\ NoMessage \notin Messages
         /\ MaxHops \in Nat \ {0} /\ MaxInvocations \in Nat \ {0}
         /\ HopLimit \in Nat \ {0} /\ GrantLimit \in Nat \ {0}
         /\ MaxGrants \in Nat \ {0} /\ MaxGeneration \in Nat \ {0}
         /\ \A mentions \in MentionSets : mentions \subseteq Agents
         /\ \A offer \in Offers :
              /\ offer.from \in Agents /\ offer.to \in Agents
              /\ offer.scope \in {"once", "room"}
              /\ offer.root \in Messages \cup {NoMessage}
BY DEF DelegationInv, DelegationAssumption

LEMMA Shaped ==
  ASSUME DelegationInv
  PROVE  /\ enabled \subseteq Agents /\ posted \subseteq Messages
         /\ inbox \in [Agents -> Seq(Deliveries)]
         /\ session \in [Agents -> Sessions]
         /\ run \in [Agents -> [Generations -> Runs]]
         /\ grants \in Seq(Grants) /\ Len(grants) =< MaxGrants
         /\ budget \in [Messages -> 0 .. MaxInvocations]
         /\ call \in [Calls -> CallRows]
         /\ ledger \in [Calls -> LedgerRows]
BY DEF DelegationInv, Shape

LEMMA InboxDomain ==
  ASSUME DelegationInv, NEW a \in Agents
  PROVE  /\ inbox[a] \in Seq(Deliveries) /\ Len(inbox[a]) \in Nat
         /\ DOMAIN inbox[a] = 1 .. Len(inbox[a])
         /\ \A i \in DOMAIN inbox[a] : inbox[a][i] \in Deliveries
<1>1. inbox[a] \in Seq(Deliveries)
  BY Shaped
<1> QED
  BY <1>1

LEMMA GrantsDomain ==
  ASSUME DelegationInv
  PROVE  /\ grants \in Seq(Grants) /\ Len(grants) \in Nat
         /\ DOMAIN grants = 1 .. Len(grants)
         /\ \A g \in DOMAIN grants : grants[g] \in Grants
<1>1. grants \in Seq(Grants)
  BY Shaped
<1> QED
  BY <1>1

(* The inboxes grow and what is in the ledger stays: the deliveries that   *)
(* were there keep their chains.                                           *)
LEMMA ChainsKept ==
  ASSUME DelegationInv,
         \A a \in Agents : \A i \in DOMAIN inbox[a] :
           i \in DOMAIN inbox'[a] /\ inbox'[a][i] = inbox[a][i],
         \A c \in Accepted : ledger'[c] = ledger[c]
  PROVE  \A a \in Agents : \A i \in DOMAIN inbox[a] : ChainInv(a, i)'
<1> SUFFICES ASSUME NEW a \in Agents, NEW i \in DOMAIN inbox[a]
             PROVE  ChainInv(a, i)'
  OBVIOUS
<1>1. ChainInv(a, i) /\ inbox[a][i] \in Deliveries
  BY InboxDomain DEF DelegationInv
<1>2. inbox'[a][i] = inbox[a][i]
  OBVIOUS
<1> DEFINE o == inbox[a][i].call
<1>3. CASE o = NoCall
  BY <1>1, <1>2, <1>3 DEF ChainInv, LineageRecorded
<1>4. CASE o # NoCall
  <2>1. o \in Calls /\ ledger[o].status = "accepted"
    BY <1>1, <1>4 DEF ChainInv, LineageRecorded, Deliveries
  <2>2. ledger'[o] = ledger[o]
    BY <2>1 DEF Accepted
  <2>3. ledger[o].from \in Agents
    BY <2>1 DEF DelegationInv, CallInv
  <2>4. LineageRecorded(a, i)'
    BY <1>1, <1>2, <2>2 DEF ChainInv, LineageRecorded
  <2>5. \E j \in DOMAIN inbox'[ledger'[o].from] :
          /\ inbox'[ledger'[o].from][j].lineage = Front(inbox[a][i].lineage)
          /\ inbox'[ledger'[o].from][j].root = inbox[a][i].root
    BY <1>1, <1>4, <2>2, <2>3 DEF ChainInv
  <2> QED
    BY <1>1, <1>2, <2>4, <2>5 DEF ChainInv
<1> QED
  BY <1>3, <1>4

(* A step that leaves the inboxes, the ledger and the budgets.             *)
LEMMA SessionMoves ==
  ASSUME DelegationInv, Shape', UNCHANGED <<inbox, grants, budget, ledger>>,
         \A a \in Agents : SessionInv(a)',
         \A a \in Agents, g \in Generations : RunInv(a, g)',
         \A c \in Calls : CallInv(c)'
  PROVE  DelegationInv'
<1>1. \A a \in Agents : \A i \in DOMAIN inbox'[a] : ChainInv(a, i)'
  BY ChainsKept
<1>2. Accepted' = Accepted /\ \A m : OfRoot(m)' = OfRoot(m)
  BY DEF Accepted, OfRoot
<1>3. \A g : Uses(g)' = Uses(g)
  BY <1>2 DEF Uses
<1>4. IsFiniteSet(Accepted)' /\ HandedOnce'
  BY <1>2 DEF DelegationInv, HandedOnce
<1>5. \A g \in DOMAIN grants' : GrantInv(g)'
  BY <1>3 DEF DelegationInv, GrantInv
<1>6. \A m \in Messages : BudgetInv(m)'
  BY <1>2 DEF DelegationInv, BudgetInv, Spent
<1>7. DelegationAssumption
  BY DEF DelegationInv
<1> QED
  BY <1>1, <1>4, <1>5, <1>6, <1>7 DEF DelegationInv, DelegationAssumption

(* The calls, when only sessions and runs change.                          *)
LEMMA CallsStay ==
  ASSUME DelegationInv, UNCHANGED <<inbox, grants, ledger, call>>
  PROVE  \A c \in Calls : CallInv(c)'
BY DEF DelegationInv, CallInv

-----------------------------------------------------------------------------
(* Sessions and runs                                                       *)

LEMMA SetEnabledKept ==
  ASSUME DelegationInv, NEW a \in Agents, SetEnabled(a)
  PROVE  DelegationInv'
<1>1. UNCHANGED <<posted, inbox, session, run, grants, budget, call, ledger>>
      /\ enabled' \subseteq Agents
  BY Shaped DEF SetEnabled
<1>2. Shape'
  BY <1>1, Shaped DEF Shape
<1>3. /\ \A b \in Agents : SessionInv(b)'
      /\ \A b \in Agents, g \in Generations : RunInv(b, g)'
  BY <1>1 DEF DelegationInv, SessionInv, RunInv
<1> QED
  BY <1>1, <1>2, <1>3, CallsStay, SessionMoves

(* The row of one session is written; its generation does not go back.     *)
LEMMA SessionWritten ==
  ASSUME DelegationInv, NEW a \in Agents, NEW s \in Sessions,
         session' = [session EXCEPT ![a] = s],
         UNCHANGED <<enabled, posted, inbox, run, grants, budget, call, ledger>>,
         session[a].generation =< s.generation,
         s.done =< Len(inbox[a]), s.current => s.done < Len(inbox[a]),
         s.lease => s.current
  PROVE  DelegationInv'
<1>1. /\ session' \in [Agents -> Sessions] /\ session'[a] = s
      /\ \A b \in Agents \ {a} : session'[b] = session[b]
  BY Shaped
<1>2. Shape'
  BY <1>1, Shaped DEF Shape
<1>3. ASSUME NEW b \in Agents PROVE SessionInv(b)'
  BY <1>1 DEF DelegationInv, SessionInv
<1>4. ASSUME NEW b \in Agents, NEW g \in Generations PROVE RunInv(b, g)'
  <2>1. RunInv(b, g) /\ run' = run
    BY DEF DelegationInv
  <2>2. run[b][g] \in Runs /\ g \in Nat
    <3>1. run[b] \in [Generations -> Runs]
      BY Shaped
    <3> QED
      BY <3>1, Bounds DEF Generations
  <2>3. /\ session[b].generation \in Nat /\ session'[b].generation \in Nat
        /\ session[b].generation =< session'[b].generation
    BY <1>1, Shaped, Bounds DEF Sessions
  <2>4. run[b][g].fence \in Nat
    BY <2>2, Bounds DEF Runs
  <2> QED
    BY <2>1, <2>2, <2>3, <2>4 DEF RunInv
<1> QED
  BY <1>2, <1>3, <1>4, CallsStay, SessionMoves

LEMMA RebindKept ==
  ASSUME DelegationInv, NEW a \in Agents, Rebind(a)
  PROVE  DelegationInv'
<1>1. /\ session[a] \in Sessions /\ SessionInv(a)
      /\ session[a].generation \in Nat
  BY Shaped, Bounds DEF DelegationInv, Sessions
<1>2. PICK s \in Sessions :
        /\ s = [session[a] EXCEPT !.bound = FALSE]
        /\ s.generation = session[a].generation
        /\ s.done = session[a].done /\ s.current = session[a].current
        /\ s.lease = session[a].lease
  <2> DEFINE r == [session[a] EXCEPT !.bound = FALSE]
  <2>1. /\ r \in Sessions /\ r.generation = session[a].generation
        /\ r.done = session[a].done /\ r.current = session[a].current
        /\ r.lease = session[a].lease
    BY <1>1 DEF Sessions
  <2> QED
    BY <2>1
<1>3. /\ session' = [session EXCEPT ![a] = s]
      /\ UNCHANGED <<enabled, posted, inbox, run, grants, budget, call, ledger>>
  BY <1>2 DEF Rebind
<1>4. /\ session[a].generation =< s.generation
      /\ s.done =< Len(inbox[a]) /\ (s.current => s.done < Len(inbox[a]))
      /\ s.lease => s.current
  BY <1>1, <1>2 DEF SessionInv
<1> QED
  BY <1>3, <1>4, SessionWritten

LEMMA LeaseExpiresKept ==
  ASSUME DelegationInv, NEW a \in Agents, LeaseExpires(a)
  PROVE  DelegationInv'
<1>1. /\ session[a] \in Sessions /\ SessionInv(a)
      /\ session[a].generation \in Nat
  BY Shaped, Bounds DEF DelegationInv, Sessions
<1>2. PICK s \in Sessions :
        /\ s = [session[a] EXCEPT !.lease = FALSE]
        /\ s.generation = session[a].generation
        /\ s.done = session[a].done /\ s.current = session[a].current
        /\ ~s.lease
  <2> DEFINE r == [session[a] EXCEPT !.lease = FALSE]
  <2>1. /\ r \in Sessions /\ r.generation = session[a].generation
        /\ r.done = session[a].done /\ r.current = session[a].current
        /\ ~r.lease
    BY <1>1 DEF Sessions
  <2> QED
    BY <2>1
<1>3. /\ session' = [session EXCEPT ![a] = s]
      /\ UNCHANGED <<enabled, posted, inbox, run, grants, budget, call, ledger>>
  BY <1>2 DEF LeaseExpires
<1>4. /\ session[a].generation =< s.generation
      /\ s.done =< Len(inbox[a]) /\ (s.current => s.done < Len(inbox[a]))
      /\ s.lease => s.current
  BY <1>1, <1>2 DEF SessionInv
<1> QED
  BY <1>3, <1>4, SessionWritten

(* A run is written, and the row of its session may be.                    *)
LEMMA RunWritten ==
  ASSUME DelegationInv, NEW a \in Agents, NEW h \in Generations, NEW r \in Runs,
         session' \in [Agents -> Sessions],
         \A b \in Agents \ {a} : session'[b] = session[b],
         run' = [run EXCEPT ![a] = [run[a] EXCEPT ![h] = r]],
         UNCHANGED <<enabled, posted, inbox, grants, budget, call, ledger>>,
         session[a].generation =< session'[a].generation,
         SessionInv(a)',
         r.stage # "none" => h =< session'[a].generation,
         r.stage \in {"opened", "bound"} =>
           h =< r.fence /\ r.fence =< session'[a].generation,
         r.stage = "bound" => r.fence = h
  PROVE  DelegationInv'
<1>1. /\ run' \in [Agents -> [Generations -> Runs]] /\ run'[a][h] = r
      /\ \A g \in Generations \ {h} : run'[a][g] = run[a][g]
      /\ \A b \in Agents \ {a} : run'[b] = run[b]
  <2>1. run[a] \in [Generations -> Runs] /\ run \in [Agents -> [Generations -> Runs]]
    BY Shaped
  <2> DEFINE f == [run[a] EXCEPT ![h] = r]
  <2>2. /\ f \in [Generations -> Runs] /\ f[h] = r
        /\ \A g \in Generations \ {h} : f[g] = run[a][g]
    BY <2>1
  <2>3. run' = [run EXCEPT ![a] = f]
    OBVIOUS
  <2> HIDE DEF f
  <2>4. run'[a] = f /\ \A b \in Agents \ {a} : run'[b] = run[b]
    BY <2>1, <2>3
  <2> QED
    BY <2>1, <2>2, <2>3, <2>4
<1>2. Shape'
  BY <1>1, Shaped DEF Shape
<1>3. ASSUME NEW b \in Agents PROVE SessionInv(b)'
  BY DEF DelegationInv, SessionInv
<1>4. ASSUME NEW b \in Agents, NEW g \in Generations PROVE RunInv(b, g)'
  <2>1. RunInv(b, g)
    BY DEF DelegationInv
  <2>2. CASE b # a
    BY <1>1, <2>1, <2>2 DEF RunInv
  <2>3. CASE b = a /\ g = h
    BY <1>1, <2>3 DEF RunInv
  <2>4. CASE b = a /\ g # h
    <3>1. run'[a][g] = run[a][g] /\ run[a][g] \in Runs
      <4>1. run[a] \in [Generations -> Runs]
        BY Shaped
      <4> QED
        BY <1>1, <2>4, <4>1
    <3>2. /\ session[a].generation \in Nat /\ session'[a].generation \in Nat
          /\ run[a][g].fence \in Nat /\ g \in Nat
      <4>1. session[a] \in Sessions /\ session'[a] \in Sessions
        BY Shaped
      <4> QED
        BY <3>1, <4>1, Bounds DEF Sessions, Runs, Generations
    <3> QED
      BY <2>1, <2>4, <3>1, <3>2 DEF RunInv
  <2> QED
    BY <2>2, <2>3, <2>4
<1> QED
  BY <1>2, <1>3, <1>4, CallsStay, SessionMoves

LEMMA ClaimKept ==
  ASSUME DelegationInv, NEW a \in Agents, Claim(a)
  PROVE  DelegationInv'
<1> DEFINE h == session[a].generation + 1
           s1 == [session[a] EXCEPT !.current = TRUE]
           s2 == [s1 EXCEPT !.lease = TRUE]
           s == [s2 EXCEPT !.generation = h]
<1>1. /\ session[a] \in Sessions /\ session \in [Agents -> Sessions]
      /\ session[a].generation \in Nat /\ h \in Generations
      /\ MaxGeneration \in Nat
  <2>1. /\ session[a] \in Sessions /\ session \in [Agents -> Sessions]
        /\ MaxGeneration \in Nat
    BY Shaped, Bounds
  <2>2. session[a].generation \in 0 .. MaxGeneration
    BY <2>1 DEF Sessions
  <2> QED
    BY <2>1, <2>2 DEF Claim, Generations
<1>2. /\ s1 \in Sessions /\ s1.current = TRUE /\ s1.done = session[a].done
  BY <1>1 DEF Sessions
<1>3. session' = [session EXCEPT ![a] = s]
  BY DEF Claim
<1> HIDE DEF s1
<1>4. /\ s2 \in Sessions /\ s2.lease = TRUE /\ s2.current = TRUE
      /\ s2.done = session[a].done
  BY <1>2 DEF Sessions
<1> HIDE DEF s2
<1>5. /\ s \in Sessions /\ s.generation = h /\ s.lease = TRUE
      /\ s.current = TRUE /\ s.done = session[a].done
  BY <1>1, <1>4 DEF Sessions, Generations
<1> HIDE DEF s
<1>6. /\ session' \in [Agents -> Sessions] /\ session'[a] = s
      /\ \A b \in Agents \ {a} : session'[b] = session[b]
  BY <1>1, <1>3, <1>5
<1>7. PICK g \in Generations, r \in Runs :
        /\ g = h /\ r.stage = "claimed"
        /\ run' = [run EXCEPT ![a] = [run[a] EXCEPT ![g] = r]]
  <2>1. [stage |-> "claimed", fence |-> 0] \in Runs
    BY <1>1 DEF Runs
  <2> QED
    BY <1>1, <2>1 DEF Claim
<1>8. UNCHANGED <<enabled, posted, inbox, grants, budget, call, ledger>>
  BY DEF Claim
<1>9. SessionInv(a)'
  BY <1>5, <1>6, <1>8 DEF SessionInv, Claim, DelegationInv
<1>10. /\ session[a].generation =< session'[a].generation
       /\ g =< session'[a].generation
  BY <1>1, <1>5, <1>6, <1>7
<1> HIDE DEF h
<1> QED
  BY <1>6, <1>7, <1>8, <1>9, <1>10, RunWritten

LEMMA OpenRunKept ==
  ASSUME DelegationInv, NEW a \in Agents, NEW g \in Generations, OpenRun(a, g)
  PROVE  DelegationInv'
<1>1. /\ session[a] \in Sessions /\ session \in [Agents -> Sessions]
      /\ MaxGeneration \in Nat /\ RunInv(a, g) /\ SessionInv(a)
  BY Shaped, Bounds DEF DelegationInv
<1>2. /\ UNCHANGED <<enabled, posted, inbox, grants, budget, call, ledger>>
      /\ session' = session /\ run[a][g].stage = "claimed"
  BY DEF OpenRun
<1>3. PICK r \in Runs :
        /\ r.stage = "opened" /\ r.fence = session[a].generation
        /\ run' = [run EXCEPT ![a] = [run[a] EXCEPT ![g] = r]]
  <2>1. session[a].generation \in 0 .. MaxGeneration
    BY <1>1 DEF Sessions
  <2>2. [stage |-> "opened", fence |-> session[a].generation] \in Runs
    BY <2>1 DEF Runs
  <2> QED
    BY <2>2 DEF OpenRun
<1>4. /\ g =< session'[a].generation
      /\ session[a].generation =< session'[a].generation
      /\ session'[a].generation \in Nat
  BY <1>1, <1>2 DEF RunInv, Sessions
<1>5. SessionInv(a)'
  BY <1>1, <1>2 DEF SessionInv
<1> QED
  BY <1>1, <1>2, <1>3, <1>4, <1>5, RunWritten

LEMMA BindRunKept ==
  ASSUME DelegationInv, NEW a \in Agents, NEW g \in Generations, BindRun(a, g)
  PROVE  DelegationInv'
<1>1. /\ session[a] \in Sessions /\ session \in [Agents -> Sessions]
      /\ MaxGeneration \in Nat /\ RunInv(a, g) /\ SessionInv(a)
  BY Shaped, Bounds DEF DelegationInv
<1>2. /\ UNCHANGED <<enabled, posted, inbox, grants, budget, call, ledger>>
      /\ session' = session /\ run[a][g].stage = "opened"
      /\ session[a].generation = g
  BY DEF BindRun
<1>3. run[a][g] \in Runs /\ run[a][g].fence \in Nat /\ g \in Nat
  <2>1. run[a] \in [Generations -> Runs]
    BY Shaped
  <2> QED
    BY <1>1, <2>1 DEF Runs, Generations
<1>4. run[a][g].fence = g
  BY <1>1, <1>2, <1>3 DEF RunInv
<1>5. PICK r \in Runs :
        /\ r.stage = "bound" /\ r.fence = g
        /\ run' = [run EXCEPT ![a] = [run[a] EXCEPT ![g] = r]]
  <2> DEFINE x == [run[a][g] EXCEPT !.stage = "bound"]
  <2>1. x \in Runs /\ x.stage = "bound" /\ x.fence = g
    BY <1>3, <1>4 DEF Runs
  <2>2. run' = [run EXCEPT ![a] = [run[a] EXCEPT ![g] = x]]
    BY DEF BindRun
  <2> QED
    BY <2>1, <2>2
<1>6. SessionInv(a)'
  BY <1>1, <1>2 DEF SessionInv
<1>7. /\ session[a].generation =< session'[a].generation
      /\ g =< r.fence /\ r.fence =< session'[a].generation
      /\ g =< session'[a].generation
  BY <1>2, <1>3, <1>5
<1> QED
  BY <1>1, <1>2, <1>5, <1>6, <1>7, RunWritten

LEMMA SettleKept ==
  ASSUME DelegationInv, NEW a \in Agents, NEW g \in Generations,
         NEW ended \in BOOLEAN, Settle(a, g, ended)
  PROVE  DelegationInv'
<1> DEFINE s1 == [session[a] EXCEPT !.current = FALSE]
           s2 == [s1 EXCEPT !.lease = FALSE]
           done == session[a].done + IF ended THEN 1 ELSE 0
           s == [s2 EXCEPT !.done = done]
<1>1. /\ session[a] \in Sessions /\ session \in [Agents -> Sessions]
      /\ session[a].lease /\ session[a].done \in Nat
      /\ Len(inbox[a]) \in Nat /\ SessionInv(a)
      /\ session[a].generation \in Nat
      /\ UNCHANGED <<enabled, posted, inbox, grants, budget, call, ledger>>
  BY Shaped, Bounds, InboxDomain DEF DelegationInv, Sessions, Settle
<1>2. done \in Nat /\ done =< Len(inbox[a])
  BY <1>1 DEF SessionInv
<1>3. session' = [session EXCEPT ![a] = s]
  BY DEF Settle
<1>4. /\ s1 \in Sessions /\ s1.current = FALSE
      /\ s1.generation = session[a].generation
  BY <1>1 DEF Sessions
<1> HIDE DEF s1
<1>5. /\ s2 \in Sessions /\ s2.lease = FALSE /\ s2.current = FALSE
      /\ s2.generation = session[a].generation
  BY <1>4 DEF Sessions
<1> HIDE DEF s2, done
<1>6. /\ s \in Sessions /\ s.done = done /\ s.lease = FALSE
      /\ s.current = FALSE /\ s.generation = session[a].generation
  BY <1>2, <1>5 DEF Sessions
<1> HIDE DEF s
<1>7. /\ session' \in [Agents -> Sessions] /\ session'[a] = s
      /\ \A b \in Agents \ {a} : session'[b] = session[b]
  BY <1>1, <1>3, <1>6
<1>8. PICK r \in Runs : /\ r.stage = "none"
                        /\ run' = [run EXCEPT ![a] = [run[a] EXCEPT ![g] = r]]
  <2>1. NoRun \in Runs /\ NoRun.stage = "none"
    BY Bounds DEF NoRun, Runs
  <2> QED
    BY <2>1 DEF Settle
<1>9. SessionInv(a)'
  BY <1>1, <1>2, <1>6, <1>7 DEF SessionInv
<1>10. session[a].generation =< session'[a].generation
  BY <1>1, <1>6, <1>7
<1> QED
  BY <1>1, <1>7, <1>8, <1>9, <1>10, RunWritten

-----------------------------------------------------------------------------
(* Grants                                                                  *)

LEMMA GrantsMove ==
  ASSUME DelegationInv,
         UNCHANGED <<enabled, posted, inbox, session, run, budget, call, ledger>>,
         grants' \in Seq(Grants), Len(grants') =< MaxGrants,
         DOMAIN grants \subseteq DOMAIN grants',
         \A g \in DOMAIN grants' : GrantInv(g)'
  PROVE  DelegationInv'
<1>1. Shape'
  BY Shaped DEF Shape
<1>2. \A a \in Agents : \A i \in DOMAIN inbox'[a] : ChainInv(a, i)'
  BY ChainsKept
<1>3. Accepted' = Accepted /\ \A m : OfRoot(m)' = OfRoot(m)
  BY DEF Accepted, OfRoot
<1>4. IsFiniteSet(Accepted)' /\ HandedOnce'
  BY <1>3 DEF DelegationInv, HandedOnce
<1>5. \A m \in Messages : BudgetInv(m)'
  BY <1>3 DEF DelegationInv, BudgetInv, Spent
<1>6. /\ \A a \in Agents : SessionInv(a)'
      /\ \A a \in Agents, g \in Generations : RunInv(a, g)'
  BY DEF DelegationInv, SessionInv, RunInv
<1>7. \A c \in Calls : CallInv(c)'
  BY DEF DelegationInv, CallInv
<1>8. DelegationAssumption
  BY DEF DelegationInv
<1> QED
  BY <1>1, <1>2, <1>4, <1>5, <1>6, <1>7, <1>8
  DEF DelegationInv, DelegationAssumption

LEMMA UsesKept ==
  ASSUME ledger' = ledger
  PROVE  \A g : Uses(g)' = Uses(g)
BY DEF Uses, Accepted

LEMMA IssueGrantKept ==
  ASSUME DelegationInv, NEW offer \in Offers, IssueGrant(offer)
  PROVE  DelegationInv'
<1>1. PICK x \in Grants :
        /\ grants' = Append(grants, x) /\ x.count = 0 /\ x.status = "active"
  <2> DEFINE y == [from |-> offer.from, to |-> offer.to, scope |-> offer.scope,
                   root |-> offer.root, status |-> "active", expired |-> FALSE,
                   count |-> 0]
  <2>1. y \in Grants /\ y.count = 0 /\ y.status = "active"
    BY Bounds DEF Grants
  <2>2. grants' = Append(grants, y)
    BY DEF IssueGrant
  <2> QED
    BY <2>1, <2>2
<1>2. /\ Len(grants) \in Nat /\ DOMAIN grants = 1 .. Len(grants)
      /\ grants' \in Seq(Grants) /\ Len(grants') = Len(grants) + 1
      /\ DOMAIN grants' = 1 .. Len(grants) + 1
      /\ \A g \in 1 .. Len(grants) : grants'[g] = grants[g]
      /\ grants'[Len(grants) + 1] = x
  BY <1>1, GrantsDomain, Appended
<1>3. /\ Len(grants') =< MaxGrants
      /\ UNCHANGED <<enabled, posted, inbox, session, run, budget, call, ledger>>
  BY <1>2, Bounds DEF IssueGrant
<1>4. ASSUME NEW g \in DOMAIN grants' PROVE GrantInv(g)'
  <2>1. Uses(g)' = Uses(g)
    BY <1>3, UsesKept
  <2>2. CASE g \in DOMAIN grants
    BY <1>2, <2>1, <2>2 DEF DelegationInv, GrantInv
  <2>3. CASE g = Len(grants) + 1
    <3>1. Uses(g) = {}
      BY <1>2, <2>3 DEF DelegationInv, CallInv, Uses, Accepted
    <3>2. Cardinality(Uses(g)') = 0
      BY <2>1, <3>1, FS_EmptySet
    <3>3. grants'[g].count = 0 /\ grants'[g].status = "active"
      BY <1>1, <1>2, <2>3
    <3> QED
      BY <3>2, <3>3 DEF GrantInv
  <2> QED
    BY <1>2, <2>2, <2>3
<1> QED
  BY <1>2, <1>3, <1>4, GrantsMove

(* The row of a grant is written, not what it counted.                     *)
LEMMA GrantWritten ==
  ASSUME DelegationInv, NEW g \in DOMAIN grants, NEW x \in Grants,
         grants' = [grants EXCEPT ![g] = x],
         UNCHANGED <<enabled, posted, inbox, session, run, budget, call, ledger>>,
         x.count = grants[g].count, x.scope = grants[g].scope,
         x.scope = "once" => (x.status = "consumed" <=> x.count = 1)
  PROVE  DelegationInv'
<1>1. grants \in Seq(Grants) /\ Len(grants) =< MaxGrants
  BY Shaped
<1>2. /\ grants' \in Seq(Grants) /\ Len(grants') = Len(grants)
      /\ DOMAIN grants' = DOMAIN grants /\ grants'[g] = x
      /\ \A h \in DOMAIN grants \ {g} : grants'[h] = grants[h]
  BY <1>1
<1>3. ASSUME NEW h \in DOMAIN grants' PROVE GrantInv(h)'
  <2>1. Uses(h)' = Uses(h) /\ GrantInv(h)
    BY <1>2, UsesKept DEF DelegationInv
  <2> QED
    BY <1>2, <2>1 DEF GrantInv
<1> QED
  BY <1>1, <1>2, <1>3, GrantsMove

LEMMA RevokeGrantKept ==
  ASSUME DelegationInv, NEW g \in DOMAIN grants, RevokeGrant(g)
  PROVE  DelegationInv'
<1> DEFINE x == [grants[g] EXCEPT !.status = "revoked"]
<1>1. grants[g] \in Grants /\ GrantInv(g) /\ grants[g].status = "active"
  BY GrantsDomain DEF DelegationInv, RevokeGrant
<1>2. /\ x \in Grants /\ x.count = grants[g].count
      /\ x.scope = grants[g].scope /\ x.status = "revoked"
  BY <1>1 DEF Grants
<1>3. /\ grants' = [grants EXCEPT ![g] = x]
      /\ UNCHANGED <<enabled, posted, inbox, session, run, budget, call, ledger>>
  BY DEF RevokeGrant
<1> HIDE DEF x
<1>4. x.scope = "once" => (x.status = "consumed" <=> x.count = 1)
  BY <1>1, <1>2 DEF GrantInv
<1>5. PICK y \in Grants : y = x
  BY <1>2
<1> QED
  BY <1>2, <1>3, <1>4, <1>5, GrantWritten

LEMMA GrantExpiresKept ==
  ASSUME DelegationInv, NEW g \in DOMAIN grants, GrantExpires(g)
  PROVE  DelegationInv'
<1> DEFINE x == [grants[g] EXCEPT !.expired = TRUE]
<1>1. grants[g] \in Grants /\ GrantInv(g)
  BY GrantsDomain DEF DelegationInv
<1>2. /\ x \in Grants /\ x.count = grants[g].count
      /\ x.scope = grants[g].scope /\ x.status = grants[g].status
  BY <1>1 DEF Grants
<1>3. /\ grants' = [grants EXCEPT ![g] = x]
      /\ UNCHANGED <<enabled, posted, inbox, session, run, budget, call, ledger>>
  BY DEF GrantExpires
<1> HIDE DEF x
<1>4. x.scope = "once" => (x.status = "consumed" <=> x.count = 1)
  BY <1>1, <1>2 DEF GrantInv
<1>5. PICK y \in Grants : y = x
  BY <1>2
<1> QED
  BY <1>2, <1>3, <1>4, <1>5, GrantWritten

-----------------------------------------------------------------------------
(* Calls                                                                   *)

(* The row of a call is written, and the ledger is not.                    *)
LEMMA CallWritten ==
  ASSUME DelegationInv, NEW c \in Calls, NEW x \in CallRows,
         call' = [call EXCEPT ![c] = x],
         UNCHANGED <<enabled, posted, inbox, session, run, grants, budget, ledger>>,
         x.stage # "unused", x.agent \in Agents, x.target \in Agents,
         x.fence = x.generation,
         call[c].stage # "answered"
  PROVE  DelegationInv'
<1>1. /\ call' \in [Calls -> CallRows] /\ call'[c] = x
      /\ \A o \in Calls \ {c} : call'[o] = call[o]
  BY Shaped
<1>2. Shape'
  BY <1>1, Shaped DEF Shape
<1>3. \A o \in Calls : CallInv(o)'
  <2> SUFFICES ASSUME NEW o \in Calls PROVE CallInv(o)'
    OBVIOUS
  <2>1. CallInv(o) /\ CallInv(c)
    BY DEF DelegationInv
  <2> QED
    BY <1>1, <2>1 DEF CallInv
<1>4. /\ \A a \in Agents : SessionInv(a)'
      /\ \A a \in Agents, g \in Generations : RunInv(a, g)'
  BY DEF DelegationInv, SessionInv, RunInv
<1> QED
  BY <1>2, <1>3, <1>4, SessionMoves

LEMMA StartCallKept ==
  ASSUME DelegationInv, NEW c \in Calls, NEW a \in Agents, NEW to \in Agents,
         NEW g \in Generations, StartCall(c, a, g, to)
  PROVE  DelegationInv'
<1>1. run[a][g].fence = g /\ g \in 0 .. MaxGeneration
  BY Bounds DEF DelegationInv, RunInv, StartCall, Generations
<1>2. session[a].done + 1 \in Nat
  <2>1. session[a] \in Sessions
    BY Shaped
  <2> QED
    BY <2>1 DEF Sessions
<1>3. PICK x \in CallRows :
        /\ call' = [call EXCEPT ![c] = x]
        /\ x.stage = "sent" /\ x.agent = a /\ x.target = to
        /\ x.fence = g /\ x.generation = g
  <2> DEFINE y == [stage |-> "sent", agent |-> a, generation |-> g,
                   fence |-> run[a][g].fence, delivery |-> session[a].done + 1,
                   target |-> to]
  <2>1. /\ y \in CallRows /\ y.stage = "sent" /\ y.agent = a /\ y.target = to
        /\ y.fence = g /\ y.generation = g
    BY <1>1, <1>2 DEF CallRows
  <2>2. call' = [call EXCEPT ![c] = y]
    BY DEF StartCall
  <2> QED
    BY <2>1, <2>2
<1>4. /\ call[c].stage # "answered"
      /\ UNCHANGED <<enabled, posted, inbox, session, run, grants, budget, ledger>>
  BY DEF StartCall
<1> QED
  BY <1>3, <1>4, CallWritten

(* A call is answered.                                                     *)
LEMMA AnsweredCall ==
  ASSUME DelegationInv, NEW c \in Calls, call[c].stage = "sent", Answered(c)
  PROVE  /\ call' \in [Calls -> CallRows] /\ call'[c].stage = "answered"
         /\ call'[c].agent = call[c].agent /\ call'[c].target = call[c].target
         /\ call'[c].agent \in Agents /\ call'[c].target \in Agents
         /\ call'[c].fence = call'[c].generation
         /\ call'[c].generation = call[c].generation
         /\ call'[c] \in CallRows
         /\ \A o \in Calls \ {c} : call'[o] = call[o]
<1>1. /\ call \in [Calls -> CallRows] /\ call[c] \in CallRows
      /\ call[c].agent \in Agents /\ call[c].target \in Agents
      /\ call[c].fence = call[c].generation
  BY Shaped DEF DelegationInv, CallInv
<1> DEFINE x == [call[c] EXCEPT !.stage = "answered"]
<1>2. /\ x \in CallRows /\ x.stage = "answered" /\ x.agent = call[c].agent
      /\ x.target = call[c].target /\ x.fence = call[c].fence
      /\ x.generation = call[c].generation
  BY <1>1 DEF CallRows
<1>3. call' = [call EXCEPT ![c] = x]
  BY DEF Answered
<1> HIDE DEF x
<1> QED
  BY <1>1, <1>2, <1>3

LEMMA RefuseKept ==
  ASSUME DelegationInv, NEW c \in Calls, Refuse(c)
  PROVE  DelegationInv'
<1>1. /\ call[c].stage = "sent" /\ Answered(c)
      /\ UNCHANGED <<enabled, posted, inbox, session, run, grants, budget, ledger>>
  BY DEF Refuse
<1>2. PICK x \in CallRows :
        /\ x = call'[c] /\ x.stage = "answered" /\ x.agent \in Agents
        /\ x.target \in Agents /\ x.fence = x.generation
  BY <1>1, AnsweredCall
<1>3. call' = [call EXCEPT ![c] = x]
  BY <1>2, Shaped DEF Answered, Refuse
<1> QED
  BY <1>1, <1>2, <1>3, CallWritten

(* The call of a run that still holds its lease is for a delivery that the *)
(* inbox of its agent holds.                                               *)
LEMMA SourceFound ==
  ASSUME DelegationInv, NEW c \in Calls, call[c].stage = "sent", SourceHeld(c)
  PROVE  /\ call[c].agent \in Agents /\ call[c].target \in Agents
         /\ call[c].fence = call[c].generation
         /\ call[c].delivery \in DOMAIN inbox[call[c].agent]
         /\ SourceDelivery(c) \in Deliveries
         /\ ChainInv(call[c].agent, call[c].delivery)
         /\ ledger[c].status = "none"
<1>1. /\ call[c].agent \in Agents /\ call[c].target \in Agents
      /\ call[c].fence = call[c].generation /\ ledger[c].status = "none"
  BY DEF DelegationInv, CallInv
<1>2. PICK a \in Agents : a = call[c].agent
  BY <1>1
<1>3. /\ session[a] \in Sessions /\ SessionInv(a)
      /\ session[a].current /\ session[a].done + 1 = call[c].delivery
  BY <1>2, Shaped DEF SourceHeld, DelegationInv
<1>4. /\ Len(inbox[a]) \in Nat /\ DOMAIN inbox[a] = 1 .. Len(inbox[a])
      /\ session[a].done \in Nat /\ session[a].done < Len(inbox[a])
  BY <1>3, InboxDomain DEF SessionInv, Sessions
<1>5. call[c].delivery \in DOMAIN inbox[a]
  BY <1>3, <1>4
<1>6. inbox[a][call[c].delivery] \in Deliveries /\ ChainInv(a, call[c].delivery)
  BY <1>5, InboxDomain DEF DelegationInv
<1> QED
  BY <1>1, <1>2, <1>5, <1>6 DEF SourceDelivery

LEMMA CodeTyped == ASSUME NEW c PROVE Code(c) \in Codes
<1>1. PolicyCode(c) \in Codes
  BY DEF PolicyCode, Codes
<1>2. GrantCode(c) \in Codes
  BY DEF GrantCode, Codes
<1> QED
  BY <1>1, <1>2 DEF Code

LEMMA BlockKept ==
  ASSUME DelegationInv, NEW c \in Calls, Block(c)
  PROVE  DelegationInv'
<1>1. /\ call[c].stage = "sent" /\ Answered(c) /\ SourceHeld(c)
      /\ UNCHANGED <<enabled, posted, inbox, session, run, grants, budget>>
  BY DEF Block
<1>2. /\ call[c].agent \in Agents /\ call[c].target \in Agents
      /\ SourceDelivery(c) \in Deliveries /\ ledger[c].status = "none"
  BY <1>1, SourceFound
<1>3. PICK e \in LedgerRows :
        ledger' = [ledger EXCEPT ![c] = e] /\ e.status = "blocked"
  <2>1. PICK hop \in {1, 2} :
          ledger' = [ledger EXCEPT ![c] = Entry(c, "blocked", Code(c), 0, hop, 0)]
    BY DEF Block
  <2>2. PICK code \in Codes : code = Code(c)
    BY CodeTyped
  <2>3. SourceDelivery(c).root \in Messages
    BY <1>2 DEF Deliveries
  <2>4. hop \in 0 .. MaxHops + 1 /\ 0 \in 0 .. MaxGrants
    BY Bounds
  <2>5. /\ Entry(c, "blocked", Code(c), 0, hop, 0) \in LedgerRows
        /\ Entry(c, "blocked", Code(c), 0, hop, 0).status = "blocked"
    BY <1>2, <2>2, <2>3, <2>4 DEF Entry, LedgerRows
  <2> QED
    BY <2>1, <2>5
<1>4. /\ ledger' \in [Calls -> LedgerRows] /\ ledger'[c] = e
      /\ \A o \in Calls \ {c} : ledger'[o] = ledger[o]
  BY <1>3, Shaped
<1>5. /\ call' \in [Calls -> CallRows] /\ call'[c].stage = "answered"
      /\ call'[c].agent \in Agents /\ call'[c].target \in Agents
      /\ call'[c].fence = call'[c].generation
      /\ \A o \in Calls \ {c} : call'[o] = call[o]
  BY <1>1, AnsweredCall
<1>6. Shape'
  BY <1>1, <1>4, <1>5, Shaped DEF Shape
<1>7. Accepted' = Accepted /\ c \notin Accepted
  BY <1>2, <1>3, <1>4 DEF Accepted
<1>8. \A m : Spent(m)' = Spent(m)
  BY <1>4, <1>7 DEF Spent, OfRoot, Accepted
<1>9. \A g : Uses(g)' = Uses(g)
  BY <1>4, <1>7 DEF Uses, Accepted
<1>10. HandedOnce'
  <2>1. \A o \in Accepted : ledger'[o] = ledger[o]
    BY <1>4, <1>7 DEF Accepted
  <2> QED
    BY <1>7, <2>1 DEF DelegationInv, HandedOnce
<1>11. IsFiniteSet(Accepted)'
  BY <1>7 DEF DelegationInv
<1>12. \A g \in DOMAIN grants' : GrantInv(g)'
  BY <1>1, <1>9 DEF DelegationInv, GrantInv
<1>13. \A m \in Messages : BudgetInv(m)'
  BY <1>1, <1>8 DEF DelegationInv, BudgetInv
<1>14. \A a \in Agents : \A i \in DOMAIN inbox'[a] : ChainInv(a, i)'
  BY <1>1, <1>4, <1>7, ChainsKept DEF Accepted
<1>15. \A o \in Calls : CallInv(o)'
  <2> SUFFICES ASSUME NEW o \in Calls PROVE CallInv(o)'
    OBVIOUS
  <2>1. CallInv(o)
    BY DEF DelegationInv
  <2> QED
    BY <1>1, <1>3, <1>4, <1>5, <2>1 DEF CallInv
<1>16. /\ \A a \in Agents : SessionInv(a)'
       /\ \A a \in Agents, g \in Generations : RunInv(a, g)'
  BY <1>1 DEF DelegationInv, SessionInv, RunInv
<1>17. DelegationAssumption
  BY DEF DelegationInv
<1> QED
  BY <1>6, <1>10, <1>11, <1>12, <1>13, <1>14, <1>15, <1>16, <1>17
  DEF DelegationInv, DelegationAssumption

-----------------------------------------------------------------------------
(* Messages of people                                                      *)

(* A session that starts over keeps its place in the inbox.                *)
LEMMA AdvancedTyped ==
  ASSUME DelegationInv, NEW a \in Agents, Room(a)
  PROVE  /\ Advanced(a) \in Sessions
         /\ Advanced(a).done = session[a].done
         /\ Advanced(a).current = session[a].current
         /\ Advanced(a).lease = session[a].lease
         /\ session[a].generation =< Advanced(a).generation
<1>1. /\ session[a] \in Sessions /\ MaxGeneration \in Nat
      /\ session[a].generation \in 0 .. MaxGeneration
  <2>1. session[a] \in Sessions
    BY Shaped
  <2> QED
    BY <2>1, Bounds DEF Sessions
<1>2. CASE session[a].bound
  BY <1>1, <1>2 DEF Advanced
<1>3. CASE ~session[a].bound
  <2> DEFINE s == [session[a] EXCEPT !.bound = TRUE]
             h == session[a].generation + 1
  <2>1. /\ s \in Sessions /\ s.done = session[a].done
        /\ s.current = session[a].current /\ s.lease = session[a].lease
    BY <1>1 DEF Sessions
  <2>2. h \in 0 .. MaxGeneration /\ session[a].generation =< h
    BY <1>1, <1>3 DEF Room
  <2>3. Advanced(a) = [s EXCEPT !.generation = h]
    BY <1>3 DEF Advanced
  <2> HIDE DEF s, h
  <2>4. /\ Advanced(a) \in Sessions /\ Advanced(a).done = s.done
        /\ Advanced(a).current = s.current /\ Advanced(a).lease = s.lease
        /\ Advanced(a).generation = h
    BY <2>1, <2>2, <2>3 DEF Sessions
  <2> QED
    BY <2>1, <2>2, <2>4
<1> QED
  BY <1>2, <1>3

(* Sessions may start over and inboxes may grow.                           *)
LEMMA SessionsFollow ==
  ASSUME DelegationInv, UNCHANGED run,
         session' \in [Agents -> Sessions],
         \A a \in Agents :
           /\ session'[a].done = session[a].done
           /\ session'[a].current = session[a].current
           /\ session'[a].lease = session[a].lease
           /\ session[a].generation =< session'[a].generation,
         \A a \in Agents : /\ Len(inbox'[a]) \in Nat
                           /\ Len(inbox[a]) =< Len(inbox'[a])
  PROVE  /\ \A a \in Agents : SessionInv(a)'
         /\ \A a \in Agents, g \in Generations : RunInv(a, g)'
<1>1. ASSUME NEW a \in Agents PROVE SessionInv(a)'
  <2>1. SessionInv(a) /\ session[a] \in Sessions /\ Len(inbox[a]) \in Nat
    BY Shaped, InboxDomain DEF DelegationInv
  <2> QED
    BY <2>1 DEF SessionInv, Sessions
<1>2. ASSUME NEW a \in Agents, NEW g \in Generations PROVE RunInv(a, g)'
  <2>1. RunInv(a, g) /\ session[a] \in Sessions /\ session'[a] \in Sessions
    BY Shaped DEF DelegationInv
  <2>2. run[a][g] \in Runs
    <3>1. run[a] \in [Generations -> Runs]
      BY Shaped
    <3> QED
      BY <3>1
  <2>3. /\ session[a].generation \in Nat /\ session'[a].generation \in Nat
        /\ run[a][g].fence \in Nat /\ g \in Nat
    BY <2>1, <2>2, Bounds DEF Sessions, Runs, Generations
  <2> QED
    BY <2>1, <2>3 DEF RunInv
<1> QED
  BY <1>1, <1>2

LEMMA PostKept ==
  ASSUME DelegationInv, NEW m \in Messages, NEW mentions \in MentionSets,
         NEW reply \in Agents \cup {NoAgent}, Post(m, mentions, reply)
  PROVE  DelegationInv'
<1> DEFINE respondents == Respondents(mentions, reply)
           targets == respondents \cup {Host}
<1>1. /\ UNCHANGED <<enabled, run, grants, budget, call, ledger>>
      /\ posted' \subseteq Messages
  BY Shaped DEF Post
<1>2. PICK hit \in SUBSET Agents :
        /\ \A a \in hit : Room(a)
        /\ session' = [a \in Agents |->
                         IF a \in hit THEN Advanced(a) ELSE session[a]]
        /\ inbox' = [a \in Agents |->
                       IF a \in hit
                       THEN Append(inbox[a], Delivery(m, NoCall,
                                               Intent(a, respondents), <<a>>))
                       ELSE inbox[a]]
  <2>1. targets \subseteq Agents
    BY Bounds DEF Respondents
  <2> QED
    BY <2>1 DEF Post
<1> HIDE DEF respondents, targets
<1>3. /\ session' \in [Agents -> Sessions]
      /\ \A a \in Agents : /\ session'[a].done = session[a].done
                           /\ session'[a].current = session[a].current
                           /\ session'[a].lease = session[a].lease
                           /\ session[a].generation =< session'[a].generation
  <2>1. ASSUME NEW a \in Agents
        PROVE  /\ session'[a] \in Sessions
               /\ session'[a].done = session[a].done
               /\ session'[a].current = session[a].current
               /\ session'[a].lease = session[a].lease
               /\ session[a].generation =< session'[a].generation
    <3>1. CASE a \in hit
      BY <1>2, <3>1, AdvancedTyped
    <3>2. CASE a \notin hit
      <4>1. session'[a] = session[a] /\ session[a] \in Sessions
        BY <1>2, <3>2, Shaped
      <4> QED
        BY <4>1, Bounds DEF Sessions
    <3> QED
      BY <3>1, <3>2
  <2> QED
    BY <1>2, <2>1
<1>4. ASSUME NEW a \in Agents
      PROVE  /\ inbox'[a] \in Seq(Deliveries)
             /\ Len(inbox'[a]) \in Nat /\ Len(inbox[a]) =< Len(inbox'[a])
             /\ \A i \in DOMAIN inbox[a] :
                  i \in DOMAIN inbox'[a] /\ inbox'[a][i] = inbox[a][i]
             /\ \A i \in DOMAIN inbox'[a] \ DOMAIN inbox[a] :
                  /\ inbox'[a][i].call = NoCall
                  /\ inbox'[a][i].lineage = <<a>>
  <2>1. /\ inbox[a] \in Seq(Deliveries) /\ Len(inbox[a]) \in Nat
        /\ DOMAIN inbox[a] = 1 .. Len(inbox[a])
    BY InboxDomain
  <2>2. CASE a \notin hit
    BY <1>2, <2>1, <2>2
  <2>3. CASE a \in hit
    <3>1. PICK d \in Deliveries : /\ inbox'[a] = Append(inbox[a], d)
                                  /\ d.call = NoCall /\ d.lineage = <<a>>
      <4>1. Intent(a, respondents) \in {"respond", "observe"}
        BY DEF Intent
      <4>2. <<a>> \in Seq(Agents)
        OBVIOUS
      <4>3. Delivery(m, NoCall, Intent(a, respondents), <<a>>) \in Deliveries
        BY <4>1, <4>2 DEF Delivery, Deliveries
      <4> QED
        BY <1>2, <2>3, <4>3 DEF Delivery
    <3>2. /\ inbox'[a] \in Seq(Deliveries)
          /\ Len(inbox'[a]) = Len(inbox[a]) + 1
          /\ DOMAIN inbox'[a] = 1 .. Len(inbox[a]) + 1
          /\ \A i \in 1 .. Len(inbox[a]) : inbox'[a][i] = inbox[a][i]
          /\ inbox'[a][Len(inbox[a]) + 1] = d
      BY <2>1, <3>1, Appended
    <3>3. \A i \in DOMAIN inbox'[a] \ DOMAIN inbox[a] : i = Len(inbox[a]) + 1
      BY <2>1, <3>2
    <3> QED
      BY <2>1, <3>1, <3>2, <3>3
  <2> QED
    BY <2>2, <2>3
<1>5. inbox' \in [Agents -> Seq(Deliveries)]
  BY <1>2, <1>4
<1>6. Shape'
  BY <1>1, <1>3, <1>5, Shaped DEF Shape
<1>7. /\ \A a \in Agents : SessionInv(a)'
      /\ \A a \in Agents, g \in Generations : RunInv(a, g)'
  BY <1>1, <1>3, <1>4, SessionsFollow
<1>8. Accepted' = Accepted /\ \A n : OfRoot(n)' = OfRoot(n)
  BY <1>1 DEF Accepted, OfRoot
<1>9. IsFiniteSet(Accepted)' /\ HandedOnce'
  BY <1>1, <1>8 DEF DelegationInv, HandedOnce
<1>10. \A g \in DOMAIN grants' : GrantInv(g)'
  BY <1>1, UsesKept DEF DelegationInv, GrantInv
<1>11. \A n \in Messages : BudgetInv(n)'
  BY <1>1, <1>8 DEF DelegationInv, BudgetInv, Spent
<1>12. \A c \in Calls : CallInv(c)'
  BY <1>1, <1>4 DEF DelegationInv, CallInv
<1>13. ASSUME NEW a \in Agents, NEW i \in DOMAIN inbox'[a] PROVE ChainInv(a, i)'
  <2>1. CASE i \in DOMAIN inbox[a]
    BY <1>1, <1>4, <2>1, ChainsKept
  <2>2. CASE i \notin DOMAIN inbox[a]
    <3>1. inbox'[a][i].call = NoCall /\ inbox'[a][i].lineage = <<a>>
      BY <1>4, <2>2
    <3>2. /\ IsInjective(<<a>>) /\ <<a>> # <<>> /\ Last(<<a>>) = a
          /\ Len(<<a>>) =< MaxHops + 1
      BY Bounds DEF IsInjective, Last
    <3> QED
      BY <3>1, <3>2 DEF ChainInv, LineageRecorded
  <2> QED
    BY <2>1, <2>2
<1>14. DelegationAssumption
  BY DEF DelegationInv
<1> QED
  BY <1>6, <1>7, <1>9, <1>10, <1>11, <1>12, <1>13, <1>14
  DEF DelegationInv, DelegationAssumption


-----------------------------------------------------------------------------
(* The checks a call passed and the grant it uses                          *)

(* Grants are ranked, and equal ones are in the order of their issue: some *)
(* usable grant comes before all others.                                   *)
LEMMA ChosenUsable ==
  ASSUME DelegationInv, NEW c \in Calls, Usable(c) # {}
  PROVE  ChosenGrant(c) \in Usable(c)
<1> DEFINE m == SourceDelivery(c).root
           U == Usable(c)
           Ranks == {Rank(g, m) : g \in U}
<1>1. U \subseteq DOMAIN grants /\ DOMAIN grants \subseteq Nat
  BY GrantsDomain DEF Usable, Matching
<1>2. \A g \in U : Rank(g, m) \in Nat
  BY DEF Rank
<1>3. PICK r \in Ranks : \A s \in Ranks : r =< s
  <2>1. Ranks \in SUBSET Nat /\ Ranks # {}
    BY <1>2
  <2> QED
    BY <2>1, Least
<1> DEFINE First == {g \in U : Rank(g, m) = r}
<1>4. PICK g \in First : \A h \in First : g =< h
  <2>1. First \in SUBSET Nat /\ First # {}
    BY <1>1, <1>3
  <2> QED
    BY <2>1, Least
<1>5. ASSUME NEW h \in U PROVE Precedes(g, h, m)
  <2>1. r =< Rank(h, m) /\ Rank(g, m) = r /\ r \in Nat /\ Rank(h, m) \in Nat
    BY <1>2, <1>3, <1>4
  <2>2. CASE Rank(h, m) = r
    BY <1>4, <2>1, <2>2 DEF Precedes
  <2>3. CASE Rank(h, m) # r
    BY <2>1, <2>3 DEF Precedes
  <2> QED
    BY <2>2, <2>3
<1>6. g \in U
  BY <1>4
<1> QED
  BY <1>5, <1>6 DEF ChosenGrant

LEMMA PolicyPassed ==
  ASSUME NEW c, PolicyCode(c) = "none"
  PROVE  /\ ~(Cardinality(OfRoot(SourceDelivery(c).root)) >= MaxInvocations)
         /\ call[c].target # call[c].agent /\ ~Revisits(c)
         /\ ~(Len(SourceDelivery(c).lineage) - 1 >= MaxHops)
         /\ ~Repeats(c) /\ ~Unavailable(c)
BY DEF PolicyCode

LEMMA GrantPassed ==
  ASSUME NEW c, GrantCode(c) = "none"
  PROVE  /\ Usable(c) # {}
         /\ ~(Len(SourceDelivery(c).lineage) > HopLimit)
         /\ ~(budget[SourceDelivery(c).root] >= MaxInvocations)
         /\ ~(grants[ChosenGrant(c)].count >= GrantLimit)
BY DEF GrantCode

LEMMA CodePassed ==
  ASSUME NEW c, Code(c) = "none"
  PROVE  PolicyCode(c) = "none" /\ GrantCode(c) = "none"
BY DEF Code

(* What the checks leave for a call that is accepted.                      *)
LEMMA CallPassed ==
  ASSUME DelegationInv, NEW c \in Calls, call[c].stage = "sent",
         SourceHeld(c), Code(c) = "none"
  PROVE  /\ {call[c].agent, call[c].target} \subseteq enabled
         /\ ChosenGrant(c) \in DOMAIN grants
         /\ grants[ChosenGrant(c)].status = "active"
         /\ ~grants[ChosenGrant(c)].expired
         /\ grants[ChosenGrant(c)].from = call[c].agent
         /\ grants[ChosenGrant(c)].to = call[c].target
         /\ grants[ChosenGrant(c)].count < GrantLimit
         /\ budget[SourceDelivery(c).root] < MaxInvocations
         /\ Len(SourceDelivery(c).lineage) =< MaxHops
         /\ ~Revisits(c) /\ ~Repeats(c)
<1>1. /\ Usable(c) # {} /\ ~(budget[SourceDelivery(c).root] >= MaxInvocations)
      /\ ~(grants[ChosenGrant(c)].count >= GrantLimit)
  BY CodePassed, GrantPassed
<1>2. /\ ~Revisits(c) /\ ~Repeats(c) /\ ~Unavailable(c)
      /\ ~(Len(SourceDelivery(c).lineage) - 1 >= MaxHops)
  BY CodePassed, PolicyPassed
<1>3. ChosenGrant(c) \in Usable(c)
  BY <1>1, ChosenUsable
<1>4. /\ ChosenGrant(c) \in DOMAIN grants
      /\ grants[ChosenGrant(c)].status = "active"
      /\ ~grants[ChosenGrant(c)].expired
      /\ grants[ChosenGrant(c)].from = call[c].agent
      /\ grants[ChosenGrant(c)].to = call[c].target
  BY <1>3 DEF Usable, Matching
<1>5. grants[ChosenGrant(c)].count < GrantLimit
  <2>1. PICK g \in DOMAIN grants : g = ChosenGrant(c)
    BY <1>4
  <2>2. grants[g].count \in Nat
    BY GrantsDomain, Bounds DEF Grants
  <2> QED
    BY <1>1, <2>1, <2>2, Bounds
<1>6. PICK d \in Deliveries : d = SourceDelivery(c)
  BY SourceFound
<1>7. budget[d.root] < MaxInvocations
  <2>1. budget[d.root] \in 0 .. MaxInvocations
    BY <1>6, Shaped DEF Deliveries
  <2> QED
    BY <1>1, <1>6, <2>1, Bounds
<1>8. Len(d.lineage) =< MaxHops
  <2>1. Len(d.lineage) \in Nat
    BY DEF Deliveries
  <2> QED
    BY <1>2, <1>6, <2>1, Bounds
<1> QED
  BY <1>2, <1>4, <1>5, <1>6, <1>7, <1>8 DEF Unavailable

-----------------------------------------------------------------------------
(* A call that is accepted                                                 *)

(* A chain that does not hold an agent is prolonged by it.                 *)
LEMMA Prolonged ==
  ASSUME NEW line \in Seq(Agents), NEW to \in Agents, IsInjective(line),
         ~Contains(line, to)
  PROVE  /\ IsInjective(Append(line, to)) /\ Append(line, to) # <<>>
         /\ Last(Append(line, to)) = to
<1> DEFINE t == Append(line, to)
<1>1. /\ Len(line) \in Nat /\ Len(t) = Len(line) + 1 /\ t # <<>>
      /\ DOMAIN line = 1 .. Len(line) /\ DOMAIN t = 1 .. Len(line) + 1
      /\ \A i \in 1 .. Len(line) : t[i] = line[i]
      /\ t[Len(line) + 1] = to
  BY Appended
<1> HIDE DEF t
<1>2. \A i \in 1 .. Len(line) : line[i] # to
  BY DEF Contains
<1>3. ASSUME NEW i \in DOMAIN t, NEW j \in DOMAIN t, t[i] = t[j] PROVE i = j
  <2>1. CASE i \in 1 .. Len(line) /\ j \in 1 .. Len(line)
    BY <1>1, <1>3, <2>1 DEF IsInjective
  <2>2. CASE i = Len(line) + 1 /\ j \in 1 .. Len(line)
    BY <1>1, <1>2, <1>3, <2>2
  <2>3. CASE j = Len(line) + 1 /\ i \in 1 .. Len(line)
    BY <1>1, <1>2, <1>3, <2>3
  <2>4. CASE i = Len(line) + 1 /\ j = Len(line) + 1
    BY <2>4
  <2> QED
    BY <1>1, <2>1, <2>2, <2>3, <2>4
<1>4. IsInjective(t)
  BY <1>3 DEF IsInjective
<1>5. Last(t) = to
  BY <1>1 DEF Last
<1> QED
  BY <1>1, <1>4, <1>5 DEF t

(* A grant that a call uses counts it, and one for a single use is gone.   *)
LEMMA UsedTyped ==
  ASSUME DelegationInv, NEW g \in DOMAIN grants,
         grants[g].status = "active", grants[g].count < GrantLimit
  PROVE  /\ UsedGrant(grants[g]) \in Grants
         /\ UsedGrant(grants[g]).count = grants[g].count + 1
         /\ UsedGrant(grants[g]).scope = grants[g].scope
         /\ UsedGrant(grants[g]).scope = "once" =>
              /\ UsedGrant(grants[g]).count = 1
              /\ UsedGrant(grants[g]).status = "consumed"
<1>1. /\ grants[g] \in Grants /\ GrantInv(g)
      /\ grants[g].count \in 0 .. GrantLimit /\ GrantLimit \in Nat
  BY GrantsDomain, Bounds DEF DelegationInv, Grants
<1> DEFINE x == grants[g]
           n == x.count + 1
           y == [x EXCEPT !.count = n]
           s == IF x.scope = "once" THEN "consumed" ELSE x.status
           z == [y EXCEPT !.status = s]
<1>2. n \in 0 .. GrantLimit
  BY <1>1
<1>3. y \in Grants /\ y.count = n /\ y.scope = x.scope /\ y.status = x.status
  BY <1>1, <1>2 DEF Grants
<1>4. s \in {"active", "consumed", "revoked"}
  BY <1>1 DEF Grants
<1>5. UsedGrant(x) = z
  BY <1>1 DEF UsedGrant, Grants
<1>6. x.scope = "once" => n = 1 /\ s = "consumed"
  BY <1>1 DEF GrantInv
<1> HIDE DEF y, s, n
<1>7. z \in Grants /\ z.count = n /\ z.scope = x.scope /\ z.status = s
  BY <1>3, <1>4 DEF Grants
<1> QED
  BY <1>5, <1>6, <1>7 DEF n

LEMMA AcceptKept ==
  ASSUME DelegationInv, NEW c \in Calls, Accept(c)
  PROVE  DelegationInv'
<1>1. /\ call[c].stage = "sent" /\ Answered(c) /\ SourceHeld(c)
      /\ Code(c) = "none" /\ Room(call[c].target)
      /\ UNCHANGED <<enabled, posted, run>>
  BY DEF Accept
<1>2. PICK a \in Agents, to \in Agents, d \in Deliveries :
        /\ a = call[c].agent /\ to = call[c].target /\ d = SourceDelivery(c)
  BY <1>1, SourceFound
<1>3. PICK i \in DOMAIN inbox[a] :
        i = call[c].delivery /\ d = inbox[a][i] /\ ChainInv(a, i)
  BY <1>1, <1>2, SourceFound DEF SourceDelivery
<1>4. PICK g \in DOMAIN grants : g = ChosenGrant(c)
  BY <1>1, CallPassed
<1>5. /\ grants[g].status = "active" /\ ~grants[g].expired
      /\ grants[g].count < GrantLimit /\ budget[d.root] < MaxInvocations
      /\ Len(d.lineage) =< MaxHops /\ ledger[c].status = "none"
      /\ ~Contains(d.lineage, to)
      /\ ~\E o \in Accepted \cap OfRoot(d.root) :
           ledger[o].from = a /\ ledger[o].to = to
  BY <1>1, <1>2, <1>4, CallPassed, SourceFound DEF Revisits, Repeats
<1>6. /\ d.root \in Messages /\ d.lineage \in Seq(Agents)
      /\ Len(d.lineage) \in Nat /\ Len(inbox[to]) \in Nat
      /\ inbox[to] \in Seq(Deliveries)
      /\ DOMAIN inbox[to] = 1 .. Len(inbox[to])
  <2>1. d.root \in Messages /\ d.lineage \in Seq(Agents)
    BY DEF Deliveries
  <2>2. Len(d.lineage) \in Nat
    BY <2>1
  <2> QED
    BY <2>1, <2>2, InboxDomain
<1>7. PICK n \in Nat : n = Len(inbox[to]) + 1
  BY <1>6
<1> DEFINE x == Delivery(d.root, c, "respond", Append(d.lineage, to))
<1>8. /\ x \in Deliveries /\ x.root = d.root /\ x.call = c
      /\ x.lineage = Append(d.lineage, to)
  <2>1. Append(d.lineage, to) \in Seq(Agents)
    BY <1>6, Appended
  <2> QED
    BY <1>6, <2>1 DEF Delivery, Deliveries
<1>9. PICK e \in LedgerRows :
        /\ ledger' = [ledger EXCEPT ![c] = e]
        /\ e.status = "accepted" /\ e.root = d.root /\ e.from = a /\ e.to = to
        /\ e.grant = g /\ e.delivery = n
  <2> DEFINE y == [status |-> "accepted", code |-> "none", root |-> d.root,
                   from |-> a, to |-> to, grant |-> g, hop |-> Len(d.lineage),
                   delivery |-> n]
  <2>1. ledger' = [ledger EXCEPT ![c] = y]
    BY <1>2, <1>4, <1>7 DEF Accept, Entry
  <2>2. g \in 0 .. MaxGrants /\ Len(d.lineage) \in 0 .. MaxHops + 1
    BY <1>5, <1>6, GrantsDomain, Shaped, Bounds
  <2>3. "none" \in Codes
    BY DEF Codes
  <2>4. /\ y \in LedgerRows /\ y.status = "accepted" /\ y.root = d.root
        /\ y.from = a /\ y.to = to /\ y.grant = g /\ y.delivery = n
    BY <1>6, <2>2, <2>3 DEF LedgerRows
  <2> QED
    BY <2>1, <2>4
<1>10. /\ ledger' \in [Calls -> LedgerRows] /\ ledger'[c] = e
       /\ \A o \in Calls \ {c} : ledger'[o] = ledger[o]
  BY <1>9, Shaped
<1>11. /\ inbox' = [inbox EXCEPT ![to] = Append(inbox[to], x)]
  BY <1>2 DEF Accept
<1> HIDE DEF x
<1>12. /\ inbox'[to] \in Seq(Deliveries) /\ inbox' \in [Agents -> Seq(Deliveries)]
       /\ Len(inbox'[to]) = n /\ DOMAIN inbox'[to] = 1 .. n
       /\ \A j \in 1 .. Len(inbox[to]) : inbox'[to][j] = inbox[to][j]
       /\ inbox'[to][n] = x
       /\ \A b \in Agents \ {to} : inbox'[b] = inbox[b]
  <2> DEFINE s == Append(inbox[to], x)
  <2>1. /\ s \in Seq(Deliveries) /\ Len(s) = n /\ DOMAIN s = 1 .. n
        /\ \A j \in 1 .. Len(inbox[to]) : s[j] = inbox[to][j]
        /\ s[n] = x
    BY <1>6, <1>7, <1>8, Appended
  <2>2. inbox' = [inbox EXCEPT ![to] = s]
    BY <1>11
  <2> HIDE DEF s
  <2>3. /\ inbox'[to] = s /\ inbox' \in [Agents -> Seq(Deliveries)]
        /\ \A b \in Agents \ {to} : inbox'[b] = inbox[b]
    BY <2>1, <2>2, Shaped
  <2> QED
    BY <2>1, <2>3
<1>13. \A b \in Agents : \A j \in DOMAIN inbox[b] :
         j \in DOMAIN inbox'[b] /\ inbox'[b][j] = inbox[b][j]
  <2>1. ASSUME NEW b \in Agents, NEW j \in DOMAIN inbox[b]
        PROVE  j \in DOMAIN inbox'[b] /\ inbox'[b][j] = inbox[b][j]
    <3>1. CASE b = to
      <4>1. j \in 1 .. Len(inbox[to])
        BY <1>6, <3>1
      <4>2. j \in 1 .. n
        BY <1>6, <1>7, <4>1
      <4> QED
        BY <1>12, <3>1, <4>1, <4>2
    <3>2. CASE b # to
      BY <1>12, <3>2
    <3> QED
      BY <3>1, <3>2
  <2> QED
    BY <2>1
<1>14. Accepted' = Accepted \cup {c} /\ c \notin Accepted
  BY <1>5, <1>9, <1>10 DEF Accepted
<1>15. \A o \in Accepted : o # c /\ ledger'[o] = ledger[o]
  BY <1>10, <1>14 DEF Accepted
<1>16. /\ grants' \in Seq(Grants) /\ Len(grants') = Len(grants)
       /\ DOMAIN grants' = DOMAIN grants /\ grants'[g] = UsedGrant(grants[g])
       /\ \A h \in DOMAIN grants \ {g} : grants'[h] = grants[h]
       /\ grants'[g].count = grants[g].count + 1
       /\ grants'[g].scope = "once" =>
            grants'[g].count = 1 /\ grants'[g].status = "consumed"
  <2>1. PICK u \in Grants :
          /\ u = UsedGrant(grants[g]) /\ u.count = grants[g].count + 1
          /\ u.scope = "once" => u.count = 1 /\ u.status = "consumed"
    BY <1>5, UsedTyped
  <2>2. grants' = [grants EXCEPT ![g] = u]
    BY <1>4, <2>1 DEF Accept
  <2>3. /\ grants' \in Seq(Grants) /\ Len(grants') = Len(grants)
        /\ DOMAIN grants' = DOMAIN grants /\ grants'[g] = u
        /\ \A h \in DOMAIN grants \ {g} : grants'[h] = grants[h]
    BY <2>2, GrantsDomain
  <2> QED
    BY <2>1, <2>3
<1>17. /\ budget' \in [Messages -> 0 .. MaxInvocations]
       /\ budget'[d.root] = budget[d.root] + 1
       /\ \A m \in Messages \ {d.root} : budget'[m] = budget[m]
  <2>1. budget[d.root] \in 0 .. MaxInvocations
    BY <1>6, Shaped
  <2>2. PICK k \in 0 .. MaxInvocations : k = budget[d.root] + 1
    BY <1>5, <2>1, Bounds
  <2>3. budget' = [budget EXCEPT ![d.root] = k]
    BY <1>2, <2>2 DEF Accept
  <2> QED
    BY <1>6, <2>2, <2>3, Shaped
<1>18. /\ session' \in [Agents -> Sessions]
       /\ \A b \in Agents : /\ session'[b].done = session[b].done
                            /\ session'[b].current = session[b].current
                            /\ session'[b].lease = session[b].lease
                            /\ session[b].generation =< session'[b].generation
  <2>1. PICK s \in Sessions :
          /\ s = Advanced(to) /\ s.done = session[to].done
          /\ s.current = session[to].current /\ s.lease = session[to].lease
          /\ session[to].generation =< s.generation
    BY <1>1, <1>2, AdvancedTyped
  <2>2. session' = [session EXCEPT ![to] = s]
    BY <1>2, <2>1 DEF Accept
  <2>3. /\ session' \in [Agents -> Sessions] /\ session'[to] = s
        /\ \A b \in Agents \ {to} : session'[b] = session[b]
    BY <2>2, Shaped
  <2>4. \A b \in Agents : session[b].generation \in Nat
    BY Shaped, Bounds DEF Sessions
  <2>5. \A b \in Agents : session[b].generation =< session[b].generation
    BY <2>4
  <2> QED
    BY <2>1, <2>3, <2>5
<1>19. /\ call' \in [Calls -> CallRows] /\ call'[c].stage = "answered"
       /\ call'[c].agent \in Agents /\ call'[c].target \in Agents
       /\ call'[c].fence = call'[c].generation
       /\ \A o \in Calls \ {c} : call'[o] = call[o]
  BY <1>1, AnsweredCall
<1>20. Shape'
  BY <1>1, <1>10, <1>12, <1>16, <1>17, <1>18, <1>19, Shaped DEF Shape
<1>21. \A b \in Agents : Len(inbox'[b]) \in Nat /\ Len(inbox[b]) =< Len(inbox'[b])
  <2>1. ASSUME NEW b \in Agents
        PROVE  Len(inbox'[b]) \in Nat /\ Len(inbox[b]) =< Len(inbox'[b])
    <3>1. Len(inbox[b]) \in Nat
      BY InboxDomain
    <3> QED
      BY <1>7, <1>12, <3>1
  <2> QED
    BY <2>1
<1>22. /\ \A b \in Agents : SessionInv(b)'
       /\ \A b \in Agents, h \in Generations : RunInv(b, h)'
  BY <1>1, <1>18, <1>21, SessionsFollow
<1>23. ASSUME NEW o \in Calls PROVE CallInv(o)'
  <2>1. CallInv(o) /\ CallInv(c)
    BY DEF DelegationInv
  <2>2. CASE o = c
    BY <1>6, <1>7, <1>8, <1>9, <1>10, <1>12, <1>16, <1>19, <2>2 DEF CallInv
  <2>3. CASE o # c
    BY <1>10, <1>13, <1>16, <1>19, <2>1, <2>3 DEF CallInv
  <2> QED
    BY <2>2, <2>3
<1>24. ASSUME NEW b \in Agents, NEW j \in DOMAIN inbox'[b] PROVE ChainInv(b, j)'
  <2>1. CASE j \in DOMAIN inbox[b]
    BY <1>13, <1>15, <2>1, ChainsKept
  <2>2. CASE j \notin DOMAIN inbox[b]
    <3>1. b = to /\ j = n
      BY <1>6, <1>7, <1>12, <2>2
    <3>2. inbox'[b][j] = x
      BY <1>12, <3>1
    <3>3. /\ IsInjective(x.lineage) /\ x.lineage # <<>> /\ Last(x.lineage) = b
      BY <1>3, <1>5, <1>6, <1>8, <3>1, Prolonged DEF ChainInv
    <3>4. Len(x.lineage) =< MaxHops + 1
      BY <1>5, <1>6, <1>8, Appended, Bounds
    <3>5. LineageRecorded(b, j)'
      BY <1>8, <1>9, <1>10, <3>1, <3>2 DEF LineageRecorded
    <3>6. Front(x.lineage) = d.lineage
      BY <1>6, <1>8, FrontOfAppend
    <3>7. /\ i \in DOMAIN inbox'[a] /\ inbox'[a][i].lineage = Front(x.lineage)
          /\ inbox'[a][i].root = x.root
      BY <1>3, <1>8, <1>13, <3>6
    <3>8. ledger'[x.call].from = a
      BY <1>8, <1>9, <1>10
    <3> QED
      BY <3>2, <3>3, <3>4, <3>5, <3>7, <3>8 DEF ChainInv
  <2> QED
    BY <2>1, <2>2
<1>25. IsFiniteSet(Accepted) /\ IsFiniteSet(Accepted')
  BY <1>14, FS_AddElement DEF DelegationInv
<1>26. ASSUME NEW h \in DOMAIN grants' PROVE GrantInv(h)'
  <2>1. GrantInv(h) /\ h \in DOMAIN grants /\ GrantInv(g)
    BY <1>16 DEF DelegationInv
  <2>2. CASE h # g
    <3>1. Uses(h)' = Uses(h)
      BY <1>9, <1>10, <1>14, <1>15, <2>2 DEF Uses
    <3> QED
      BY <1>16, <2>1, <2>2, <3>1 DEF GrantInv
  <2>3. CASE h = g
    <3>1. Uses(g)' = Uses(g) \cup {c} /\ c \notin Uses(g)
      BY <1>9, <1>10, <1>14, <1>15 DEF Uses
    <3>2. IsFiniteSet(Uses(g))
      BY <1>25, FS_Subset DEF Uses
    <3>3. Cardinality(Uses(g)') = Cardinality(Uses(g)) + 1
      BY <3>1, <3>2, FS_AddElement
    <3> QED
      BY <1>16, <2>1, <2>3, <3>3 DEF GrantInv
  <2> QED
    BY <2>2, <2>3
<1>27. ASSUME NEW m \in Messages PROVE BudgetInv(m)'
  <2>1. BudgetInv(m)
    BY DEF DelegationInv
  <2>2. CASE m # d.root
    <3>1. Spent(m)' = Spent(m)
      BY <1>9, <1>10, <1>14, <1>15, <2>2 DEF Spent, OfRoot, Accepted
    <3> QED
      BY <1>17, <2>1, <2>2, <3>1 DEF BudgetInv
  <2>3. CASE m = d.root
    <3>1. Spent(m)' = Spent(m) \cup {c} /\ c \notin Spent(m)
      BY <1>9, <1>10, <1>14, <1>15, <2>3 DEF Spent, OfRoot, Accepted
    <3>2. IsFiniteSet(Spent(m))
      BY <1>25, FS_Subset DEF Spent
    <3>3. Cardinality(Spent(m)') = Cardinality(Spent(m)) + 1
      BY <3>1, <3>2, FS_AddElement
    <3> QED
      BY <1>17, <2>1, <2>3, <3>3 DEF BudgetInv
  <2> QED
    BY <2>2, <2>3
<1>28. ASSUME NEW o \in Accepted', NEW p \in Accepted', o # p,
              ledger'[o].root = ledger'[p].root
       PROVE  <<ledger'[o].from, ledger'[o].to>> # <<ledger'[p].from, ledger'[p].to>>
  <2>1. ASSUME NEW q \in Accepted, ledger[q].root = d.root
        PROVE  ~(ledger[q].from = a /\ ledger[q].to = to)
    BY <1>5, <2>1 DEF Accepted, OfRoot
  <2>2. CASE o \in Accepted /\ p \in Accepted
    BY <1>15, <1>28, <2>2 DEF DelegationInv, HandedOnce
  <2>3. CASE o = c /\ p \in Accepted
    BY <1>9, <1>10, <1>15, <1>28, <2>1, <2>3
  <2>4. CASE p = c /\ o \in Accepted
    BY <1>9, <1>10, <1>15, <1>28, <2>1, <2>4
  <2> QED
    BY <1>14, <1>28, <2>2, <2>3, <2>4
<1>29. HandedOnce'
  BY <1>28 DEF HandedOnce
<1>30. DelegationAssumption
  BY DEF DelegationInv
<1> QED
  BY <1>20, <1>22, <1>23, <1>24, <1>25, <1>26, <1>27, <1>29, <1>30
  DEF DelegationInv, DelegationAssumption

-----------------------------------------------------------------------------
(* The invariant                                                           *)

LEMMA DelegationStarts ==
  DelegationAssumption /\ Init => DelegationInv
<1> SUFFICES ASSUME DelegationAssumption, Init
             PROVE  DelegationInv
  OBVIOUS
<1>1. /\ NoAgent \notin Agents /\ NoCall \notin Calls /\ Host \in Agents
      /\ MaxHops \in Nat \ {0} /\ MaxInvocations \in Nat \ {0}
      /\ GrantLimit \in Nat \ {0} /\ MaxGrants \in Nat \ {0}
      /\ MaxGeneration \in Nat \ {0}
  BY DEF DelegationAssumption
<1>2. /\ Fresh \in Sessions /\ NoRun \in Runs /\ Unused \in CallRows
      /\ Unwritten \in LedgerRows
  <2>1. Fresh \in Sessions /\ NoRun \in Runs
    BY <1>1 DEF Fresh, Sessions, NoRun, Runs
  <2>2. Unused \in CallRows
    BY <1>1 DEF Unused, CallRows
  <2>3. "none" \in Codes
    BY DEF Codes
  <2>4. Unwritten \in LedgerRows
    BY <1>1, <2>3 DEF Unwritten, LedgerRows
  <2> QED
    BY <2>1, <2>2, <2>4
<1>3. Shape
  BY <1>1, <1>2 DEF Init, Shape
<1>4. /\ \A a \in Agents : inbox[a] = <<>> /\ DOMAIN inbox[a] = {}
      /\ DOMAIN grants = {}
  BY DEF Init
<1>5. Accepted = {} /\ IsFiniteSet(Accepted)
  <2>1. Accepted = {}
    BY DEF Init, Accepted, Unwritten
  <2> QED
    BY <2>1, FS_EmptySet
<1>6. \A a \in Agents : SessionInv(a)
  BY DEF Init, SessionInv, Fresh
<1>7. \A a \in Agents, g \in Generations : RunInv(a, g)
  BY DEF Init, RunInv, NoRun
<1>8. \A c \in Calls : CallInv(c)
  BY DEF Init, CallInv, Unused, Unwritten
<1>9. \A m \in Messages : BudgetInv(m)
  <2>1. ASSUME NEW m \in Messages PROVE BudgetInv(m)
    <3>1. Spent(m) = {} /\ budget[m] = 0
      BY <1>5 DEF Spent, Init
    <3> QED
      BY <3>1, FS_EmptySet DEF BudgetInv
  <2> QED
    BY <2>1
<1>10. HandedOnce
  BY <1>5 DEF HandedOnce
<1> QED
  BY <1>3, <1>4, <1>5, <1>6, <1>7, <1>8, <1>9, <1>10 DEF DelegationInv

LEMMA DelegationStep ==
  DelegationInv /\ Next => DelegationInv'
<1> SUFFICES ASSUME DelegationInv, Next
             PROVE  DelegationInv'
  OBVIOUS
<1>1. CASE \E m \in Messages, mentions \in MentionSets,
             reply \in Agents \cup {NoAgent} : Post(m, mentions, reply)
  BY <1>1, PostKept
<1>2. CASE \E a \in Agents : \/ SetEnabled(a)
                             \/ Rebind(a)
                             \/ Claim(a)
                             \/ LeaseExpires(a)
  BY <1>2, SetEnabledKept, RebindKept, ClaimKept, LeaseExpiresKept
<1>3. CASE \E offer \in Offers : IssueGrant(offer)
  BY <1>3, IssueGrantKept
<1>4. CASE \E g \in DOMAIN grants : RevokeGrant(g) \/ GrantExpires(g)
  BY <1>4, RevokeGrantKept, GrantExpiresKept
<1>5. CASE \E a \in Agents, g \in Generations : \/ OpenRun(a, g)
                                                \/ BindRun(a, g)
                                                \/ Settle(a, g, TRUE)
                                                \/ Settle(a, g, FALSE)
  BY <1>5, OpenRunKept, BindRunKept, SettleKept
<1>6. CASE \E c \in Calls, a, to \in Agents, g \in Generations :
             StartCall(c, a, g, to)
  BY <1>6, StartCallKept
<1>7. CASE \E c \in Calls : Refuse(c) \/ Block(c) \/ Accept(c)
  BY <1>7, RefuseKept, BlockKept, AcceptKept
<1> QED
  BY <1>1, <1>2, <1>3, <1>4, <1>5, <1>6, <1>7 DEF Next

LEMMA DelegationStutters ==
  DelegationInv /\ UNCHANGED vars => DelegationInv'
<1> SUFFICES ASSUME DelegationInv, UNCHANGED vars
             PROVE  DelegationInv'
  OBVIOUS
<1>1. /\ UNCHANGED <<inbox, session, run, grants, budget, call, ledger>>
      /\ UNCHANGED <<enabled, posted>>
  BY DEF vars
<1>2. Shape'
  BY <1>1, Shaped DEF Shape
<1>3. /\ \A a \in Agents : SessionInv(a)'
      /\ \A a \in Agents, g \in Generations : RunInv(a, g)'
  BY <1>1 DEF DelegationInv, SessionInv, RunInv
<1> QED
  BY <1>1, <1>2, <1>3, CallsStay, SessionMoves

LEMMA DelegationHolds ==
  DelegationAssumption => (Spec => []DelegationInv)
<1> SUFFICES ASSUME DelegationAssumption
             PROVE  Spec => []DelegationInv
  OBVIOUS
<1>1. Init => DelegationInv
  BY DelegationStarts
<1>2. DelegationInv /\ [Next]_vars => DelegationInv'
  BY DelegationStep, DelegationStutters
<1> QED
  BY <1>1, <1>2, PTL DEF Spec

-----------------------------------------------------------------------------
(* What the invariant implies                                              *)

LEMMA InvTyped == DelegationInv => TypeOK
<1> SUFFICES ASSUME DelegationInv PROVE TypeOK
  OBVIOUS
<1>1. \A a \in Agents : \A i \in DOMAIN inbox[a] :
        inbox[a][i] \in [root: Messages, call: Calls \cup {NoCall},
                         intent: {"respond", "observe"}, lineage: Seq(Agents)]
  BY InboxDomain DEF Deliveries
<1> QED
  BY <1>1, Shaped DEF TypeOK, Sessions, Runs, Grants, CallRows, LedgerRows

LEMMA InvBudgets == DelegationInv => BudgetsMatchLedger
<1> SUFFICES ASSUME DelegationInv PROVE BudgetsMatchLedger
  OBVIOUS
<1>1. \A m \in Messages : budget[m] = Cardinality(Accepted \cap OfRoot(m))
  BY DEF DelegationInv, BudgetInv, Spent
<1>2. ASSUME NEW g \in DOMAIN grants
      PROVE  /\ grants[g].count = Cardinality(Uses(g))
             /\ grants[g].scope = "once" =>
                  (grants[g].status = "consumed" <=> Cardinality(Uses(g)) = 1)
  BY DEF DelegationInv, GrantInv
<1> QED
  BY <1>1, <1>2 DEF BudgetsMatchLedger, Uses

LEMMA InvLineage == DelegationInv => LineageSound
BY DEF DelegationInv, ChainInv, LineageSound

LEMMA InvHandedOnce == DelegationInv => DelegatedOnce
<1> SUFFICES ASSUME DelegationInv PROVE DelegatedOnce
  OBVIOUS
<1>1. \A c \in Accepted : inbox[ledger[c].to][ledger[c].delivery].call = c
  BY DEF DelegationInv, CallInv, Accepted
<1>2. \A a \in Agents : \A i \in DOMAIN inbox[a] : LineageRecorded(a, i)
  BY DEF DelegationInv, ChainInv
<1>3. \A c, d \in Accepted :
        /\ c # d
        /\ ledger[c].root = ledger[d].root
        => <<ledger[c].from, ledger[c].to>> # <<ledger[d].from, ledger[d].to>>
  BY DEF DelegationInv, HandedOnce
<1> QED
  BY <1>1, <1>2, <1>3 DEF DelegatedOnce

LEMMA InvFence == DelegationInv => FenceIsOwn
BY DEF DelegationInv, RunInv, FenceIsOwn

(* Only one action accepts a call, and it checked all that is said.        *)
LEMMA StepAuthorized == DelegationInv /\ Next => AuthorizedOnly
<1> SUFFICES ASSUME DelegationInv, Next, NEW c \in Calls,
                    ledger'[c].status = "accepted", ledger[c].status = "none"
             PROVE  LET a == call[c].agent
                        g == grants[ledger'[c].grant]
                    IN /\ session[a].lease
                       /\ session[a].generation = call[c].generation
                       /\ {a, call[c].target} \subseteq enabled
                       /\ g.from = a /\ g.to = call[c].target
                       /\ g.status = "active" /\ ~g.expired
                       /\ g.count < GrantLimit
  BY DEF AuthorizedOnly
<1>1. PICK o \in Calls : Refuse(o) \/ Block(o) \/ Accept(o)
  BY DEF Next, Post, SetEnabled, Rebind, Claim, LeaseExpires, IssueGrant,
         RevokeGrant, GrantExpires, OpenRun, BindRun, Settle, StartCall
<1>2. ~Refuse(o)
  BY DEF Refuse
<1>3. ~Block(o)
  <2>1. ASSUME Block(o) PROVE FALSE
    <3>1. PICK e : ledger' = [ledger EXCEPT ![o] = e] /\ e.status = "blocked"
      BY <2>1 DEF Block, Entry
    <3> QED
      BY <3>1, Shaped
  <2> QED
    BY <2>1
<1>4. Accept(o)
  BY <1>1, <1>2, <1>3
<1>5. PICK e : /\ ledger' = [ledger EXCEPT ![o] = e]
               /\ e.grant = ChosenGrant(o)
  <2>1. PICK hop, delivery :
          ledger' = [ledger EXCEPT ![o] = Entry(o, "accepted", "none",
                                                ChosenGrant(o), hop, delivery)]
    BY <1>4 DEF Accept
  <2>2. Entry(o, "accepted", "none", ChosenGrant(o), hop, delivery).grant
          = ChosenGrant(o)
    BY DEF Entry
  <2> QED
    BY <2>1, <2>2
<1>6. o = c /\ ledger'[c].grant = ChosenGrant(c)
  BY <1>5, Shaped
<1>7. call[c].stage = "sent" /\ SourceHeld(c) /\ Code(c) = "none"
  BY <1>4, <1>6 DEF Accept
<1>8. /\ session[call[c].agent].lease
      /\ session[call[c].agent].generation = call[c].generation
  BY <1>7, SourceFound DEF SourceHeld
<1> QED
  BY <1>6, <1>7, <1>8, CallPassed

-----------------------------------------------------------------------------
(* The theorems of the component                                           *)

(* The invocations a root message and a grant have counted are those the   *)
(* ledger shows, and a grant for one use lets one call through: the two    *)
(* counters are written with the ledger row in one transaction.            *)
THEOREM Budgets == DelegationAssumption => (Spec => []BudgetsMatchLedger)
<1> SUFFICES ASSUME DelegationAssumption
             PROVE  Spec => []BudgetsMatchLedger
  OBVIOUS
<1>1. Spec => []DelegationInv
  BY DelegationHolds
<1> QED
  BY <1>1, InvBudgets, PTL

(* No agent is twice on the chain that leads to a delivery, and no chain   *)
(* is longer than the policy of the Room allows.                           *)
THEOREM Lineage == DelegationAssumption => (Spec => []LineageSound)
<1> SUFFICES ASSUME DelegationAssumption
             PROVE  Spec => []LineageSound
  OBVIOUS
<1>1. Spec => []DelegationInv
  BY DelegationHolds
<1> QED
  BY <1>1, InvLineage, PTL

(* An agent hands the work of one message to a target once, however often  *)
(* its run is repeated with new ids of its tool calls.                     *)
THEOREM Once == DelegationAssumption => (Spec => []DelegatedOnce)
<1> SUFFICES ASSUME DelegationAssumption
             PROVE  Spec => []DelegatedOnce
  OBVIOUS
<1>1. Spec => []DelegationInv
  BY DelegationHolds
<1> QED
  BY <1>1, InvHandedOnce, PTL

(* A run that is consumed presents the fence of its own lease.             *)
THEOREM Fences == DelegationAssumption => (Spec => []FenceIsOwn)
<1> SUFFICES ASSUME DelegationAssumption
             PROVE  Spec => []FenceIsOwn
  OBVIOUS
<1>1. Spec => []DelegationInv
  BY DelegationHolds
<1> QED
  BY <1>1, InvFence, PTL

(* A call is accepted only for the holder of the lease, between enabled    *)
(* agents, under a grant of a person for that pair that is still good.     *)
THEOREM Authorized == DelegationAssumption => (Spec => OnlyAuthorized)
<1> SUFFICES ASSUME DelegationAssumption
             PROVE  Spec => OnlyAuthorized
  OBVIOUS
<1>1. Spec => []DelegationInv
  BY DelegationHolds
<1>2. DelegationInv /\ [Next]_vars => [AuthorizedOnly]_vars
  BY StepAuthorized
<1> QED
  BY <1>1, <1>2, PTL DEF Spec, OnlyAuthorized
=============================================================================
