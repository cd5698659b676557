----------------------------- MODULE MCWorkspace -----------------------------
(* One workspace: its draft and versions, the processes of its previews and *)
(* its mirror directory.  The components share no variable, so a step of    *)
(* one changes nothing of the other: a behaviour chooses its part and the   *)
(* rest keeps its initial state, which is the union of their state spaces   *)
(* and not the product.                                                     *)
EXTENDS WorkspaceDraft, Sequences, TLC

CONSTANTS r1, r2, u1, u2      \* requests of two users on the draft
CONSTANTS p1, p2, k1, s1, t1, l1  \* requests to the server, by their kind
CONSTANTS SelectedVersion

TwoUsers == [r \in Requests |-> IF r = r1 THEN u1 ELSE u2]

VARIABLES
  part,   \* the part of this behaviour
  run, child, tracked, listening, exited, request, queue, mirror, draft, crashes

runVars == <<run, child, tracked, listening, exited, request, queue, mirror,
             draft, crashes>>

(* Two previews, a stop, a listing and a crash of the server. *)
Processes == INSTANCE WorkspaceRun WITH
  Previews <- {p1, p2}, Commands <- {}, Saves <- {}, Stops <- {t1},
  Lists <- {l1}, MaxCrashes <- 1

(* A preview of a version, a command and a save share the directory. *)
Mirror == INSTANCE WorkspaceRun WITH
  Previews <- {p1}, Commands <- {k1}, Saves <- {s1}, Stops <- {},
  Lists <- {}, MaxCrashes <- 1

ASSUME WorkspaceAssumption ==
  Processes!RequestsAssumption /\ Mirror!RequestsAssumption

WorkspaceInit ==
  /\ Init
  /\ \/ part \in {"draft", "processes"} /\ Processes!Init
     \/ part = "mirror" /\ Mirror!Init

WorkspaceNext ==
  /\ UNCHANGED part
  /\ \/ part = "draft" /\ Next /\ UNCHANGED runVars
     \/ part = "processes" /\ Processes!Next /\ UNCHANGED vars
     \/ part = "mirror" /\ Mirror!Next /\ UNCHANGED vars

WorkspaceSpec == WorkspaceInit /\ [][WorkspaceNext]_<<part, vars, runVars>>
-----------------------------------------------------------------------------
(* Of two previews none is left running where nobody finds it, whatever     *)
(* starts, stops and lists, and the mirror that a preview, a command and a  *)
(* save share is of one of them and of the newest in the end.               *)
RunsSound ==
  /\ part = "processes" => Processes!TypeOK /\ Processes!NoOrphanProcess
  /\ part = "mirror" => Mirror!TypeOK /\ Mirror!MirrorIsCurrent
=============================================================================
