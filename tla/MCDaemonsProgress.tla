-------------------------- MODULE MCDaemonsProgress --------------------------
(* What the daemons of MCDaemons finish: the attempts their poll loops      *)
(* claim, one attempt in its clone, and the merges that wait.  As in        *)
(* MCDaemons, the parts share no variable and a behaviour chooses one.      *)
EXTENDS ClaimPoll

CONSTANTS
  Runtime,        \* the runtime of every attempt
  MaxGeneration,  \* bound on the claims of an attempt
  Changes, Root, NoOp, MaxAttempts, MaxRevision

OneRuntime == [w \in Work |-> Runtime]
OneEach == [r \in Runtimes |-> 1]

VARIABLES
  part,  \* the part of this behaviour
  job, attempt, receipt, incident, clone, proposal, requests, daemon, faults,
  reasons,
  change, op, branch, published, worker

attemptVars == <<job, attempt, receipt, incident, clone, proposal, requests,
                 daemon, faults, reasons>>
mergeVars == <<change, op, branch, published, worker>>

(* One daemon that may crash, on a runtime that resumes no native run.      *)
AloneDaemon == CHOOSE d \in Daemons : TRUE
Attempt == INSTANCE WorkspaceAttempt WITH
  Daemons <- {AloneDaemon}, NoDaemon <- None, NativeResume <- FALSE,
  MaxFaults <- 2, branch <- proposal

Merge == INSTANCE KnowledgeMerge WITH Workers <- Daemons, active <- published

ASSUME Attempt!WorkspaceAssumption

ProgressInit ==
  /\ part \in {"poll", "attempt", "merge"}
  /\ Init /\ Attempt!Init /\ Merge!Init

ProgressNext ==
  /\ UNCHANGED part
  /\ \/ part = "poll" /\ Next /\ UNCHANGED <<attemptVars, mergeVars>>
     \/ part = "attempt" /\ Attempt!Next /\ UNCHANGED <<vars, mergeVars>>
     \/ part = "merge" /\ Merge!Next /\ UNCHANGED <<vars, attemptVars>>

Claimed(A) == part = "poll" /\ A
Attempted(A) == part = "attempt" /\ A
Merged(A) == part = "merge" /\ A

(* The fairness of ClaimPoll, of WorkspaceAttempt and of KnowledgeMerge.    *)
ProgressSpec ==
  /\ ProgressInit /\ [][ProgressNext]_<<part, vars, attemptVars, mergeVars>>
  /\ \A d \in Daemons :
       /\ WF_vars(Claimed(Run(d))) /\ WF_vars(Claimed(Poll(d)))
       /\ \A w \in Work : WF_vars(Claimed(AttemptEnds(d, w)))
  /\ \A w \in Work : WF_vars(Claimed(LeaseLapses(w)))
  /\ WF_attemptVars(Attempted(Attempt!Expire))
  /\ WF_attemptVars(Attempted(Attempt!Claim(AloneDaemon)))
  /\ WF_attemptVars(Attempted(Attempt!DaemonStep(AloneDaemon)))
  /\ \A d \in Daemons : /\ WF_mergeVars(Merged(Merge!List(d)))
                        /\ SF_mergeVars(Merged(Merge!TakeUp(d)))
                        /\ WF_mergeVars(Merged(Merge!Serve(d)))
  /\ \A o \in Merge!Ops : WF_mergeVars(Merged(
       Merge!Expire(o) /\ \A d \in Daemons :
         ~(worker[d].op = o /\ Merge!Fenced(d))))
-----------------------------------------------------------------------------
(* An attempt whose lease has lapsed is claimed again, as long as the query *)
(* reaches it, and a loop that is told to stop ends.                        *)
ClaimsProgress == LapsedIsReclaimed /\ DrainEnds

(* An attempt ends or waits for a person, is claimed over and over in no    *)
(* state without a reason, and a queued merge ends or was tried as often as *)
(* allowed, although daemons crash and leases are lost.                     *)
WorkSettles ==
  /\ part = "attempt" => Attempt!AttemptSettles
  /\ [](part = "attempt" => Attempt!ClaimsHaveReasons)
  /\ part = "merge" => Merge!EveryMergeEnds
=============================================================================
