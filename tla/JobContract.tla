----------------------------- MODULE JobContract -----------------------------
(***************************************************************************)
(* What the execution control plane promises of one job, whatever rows,    *)
(* workers, leases and transactions it is built from:                      *)
(*   - the job moves along one status graph, and every move is one step of *)
(*     its revision, so that a caller who read a revision can tell whether *)
(*     the job moved since;                                                *)
(*   - at most one lease token is current, a new one is issued by counting *)
(*     up, and work is only ever accepted under the current token;         *)
(*   - the end of the job is announced in the step that ends it, once.     *)
(***************************************************************************)
EXTENDS Naturals

CONSTANT Jobs

VARIABLES
  phase,     \* the status of the job
  revision,  \* the number of its moves
  token,     \* the newest lease token issued for it
  writer,    \* the token under which work was last accepted
  told       \* the revisions announced to the Room as its end

contractVars == <<phase, revision, token, writer, told>>

Init ==
  /\ phase = [j \in Jobs |-> "none"]
  /\ revision = [j \in Jobs |-> 0]
  /\ token = [j \in Jobs |-> 0]
  /\ writer = [j \in Jobs |-> 0]
  /\ told = [j \in Jobs |-> {}]

Move(j, from, to) ==
  /\ phase[j] \in from
  /\ phase' = [phase EXCEPT ![j] = to]
  /\ revision' = [revision EXCEPT ![j] = @ + 1]

Current(j) == writer[j] = token[j]

(* Issuing a token makes its holder the only one who may write.            *)
Issue(j) ==
  /\ token' = [token EXCEPT ![j] = @ + 1]
  /\ writer' = [writer EXCEPT ![j] = token[j] + 1]

Admit(j) ==
  /\ \E to \in {"queued", "blocked"} : Move(j, {"none"}, to)
  /\ UNCHANGED <<token, writer, told>>

Start(j) ==
  /\ Move(j, {"queued"}, "running")
  /\ Issue(j)
  /\ UNCHANGED told

(* A lost lease, or the session of a suspended job, passes to a new holder. *)
Takeover(j) ==
  /\ phase[j] \in {"running", "cancel_requested"}
  /\ Issue(j)
  /\ UNCHANGED <<phase, revision, told>>

(* Suspension retires the token of the holder that asked.                  *)
Ask(j) ==
  /\ Current(j)
  /\ Move(j, {"running"}, "waiting_input")
  /\ token' = [token EXCEPT ![j] = @ + 1]
  /\ UNCHANGED <<writer, told>>

Requeue(j) ==
  /\ Move(j, {"waiting_input", "blocked"}, "queued")
  /\ UNCHANGED <<token, writer, told>>

RequestCancel(j) ==
  /\ Move(j, {"running", "waiting_input"}, "cancel_requested")
  /\ UNCHANGED <<token, writer, told>>

Quarantine(j) ==
  /\ Current(j)
  /\ Move(j, {"running", "cancel_requested"}, "blocked")
  /\ UNCHANGED <<token, writer, told>>

(* The end: by the holder of the current token, or by a person while       *)
(* nobody holds one.                                                       *)
End(j) ==
  /\ \/ /\ Current(j)
        /\ \E outcome \in {"succeeded", "failed", "cancelled"} :
             Move(j, {"running"}, outcome)
     \/ /\ Current(j)
        /\ Move(j, {"cancel_requested"}, "cancelled")
     \/ Move(j, {"queued", "blocked"}, "cancelled")
  /\ told' = [told EXCEPT ![j] = {revision[j] + 1}]
  /\ UNCHANGED <<token, writer>>

Next ==
  \E j \in Jobs :
    \/ Admit(j)
    \/ Start(j)
    \/ Takeover(j)
    \/ Ask(j)
    \/ Requeue(j)
    \/ RequestCancel(j)
    \/ Quarantine(j)
    \/ End(j)

Spec == Init /\ [][Next]_contractVars
=============================================================================
