---------------------------- MODULE WorkspaceRun ----------------------------
(***************************************************************************)
(* The preview and command runs of one workspace: the WorkspaceRun rows,   *)
(* the child processes of the server with the map that finds them, and the *)
(* mirror directory they are started in.                                   *)
(*                                                                         *)
(* Requests run concurrently in one server process, interleaved at every   *)
(* await.  A start request makes at most one run, which has its name.      *)
(* The server may crash: its memory is gone, the rows, the mirror and the  *)
(* children stay.                                                          *)
(*                                                                         *)
(* Ports and log files are left out: a child that finds its port taken is  *)
(* one that exits.  The request that creates a row has tracked the child   *)
(* or failed within STALE_PREVIEW_GRACE_MS, so the grace period stands for *)
(* the end of that request.                                                *)
(***************************************************************************)
EXTENDS Naturals, FiniteSets, Sequences

CONSTANTS
  Previews, Commands, Saves, Stops, Lists,  \* requests, by what they ask for
  SelectedVersion,  \* the files of a version that is not the draft
  MaxCrashes        \* bound on the crashes of the server

Runs == Previews \cup Commands
Calls == Runs \cup Saves \cup Stops \cup Lists

RequestsAssumption ==
  /\ IsFiniteSet(Calls)
  /\ Previews \cap (Commands \cup Saves \cup Stops \cup Lists) = {}
  /\ Commands \cap (Saves \cup Stops \cup Lists) = {}
  /\ Saves \cap (Stops \cup Lists) = {}
  /\ Stops \cap Lists = {}
  /\ SelectedVersion \notin Nat
  /\ MaxCrashes \in Nat

VARIABLES
  run,        \* status of the WorkspaceRun row
  child,      \* the operating system process of a run
  tracked,    \* __daoWorkspaceRunProcesses
  listening,  \* children whose exit event has a listener
  exited,     \* status the exit listener is about to write
  request,    \* the requests and what they hold across awaits
  queue,      \* workspaceMirrorQueues
  mirror,     \* whose files the mirror directory holds
  draft,      \* revision of the draft files
  crashes     \* how often the server crashed

vars == <<run, child, tracked, listening, exited, request, queue, mirror,
          draft, crashes>>
process == <<child, tracked, listening, exited>>
disk == <<queue, mirror, draft>>

-----------------------------------------------------------------------------
Active == {"pending", "running"}
Ended == {"succeeded", "failed", "stopped"}
Drafts == 0 .. Cardinality(Saves)
Sources == Drafts \cup {SelectedVersion}
Over == {"done", "refused"}

RequestRecords ==
  [pc: {"idle", "found", "stopping", "prepare", "queued", "read", "emptied",
        "ready", "created", "spawned", "started", "stale"} \cup Over,
   version: BOOLEAN,       \* a selected version instead of the draft
   runs: SUBSET Runs,      \* rows found and not yet written
   found: SUBSET Runs,     \* what the answer names
   files: SUBSET Sources] \* what materializeWorkspaceMirror has read

Init ==
  /\ run = [r \in Runs |-> "none"]
  /\ child = [r \in Runs |-> "none"]
  /\ tracked = {}
  /\ listening = {}
  /\ exited = [r \in Runs |-> "none"]
  /\ request = [q \in Calls |-> [pc |-> "idle", version |-> FALSE,
                                    runs |-> {}, found |-> {}, files |-> {}]]
  /\ queue = <<>>
  /\ mirror = {0}
  /\ draft = 0
  /\ crashes = 0

At(q, pc) == request[q].pc = pc
Move(q, pc) == request' = [request EXCEPT ![q].pc = pc]

-----------------------------------------------------------------------------
(* stopWorkspacePreview: on request, and first thing of every preview.     *)

ActivePreviews == {r \in Previews : run[r] \in Active}

FindActive(q) ==
  /\ q \in Stops \cup Previews
  /\ At(q, "idle")
  /\ \E version \in IF q \in Previews THEN BOOLEAN ELSE {FALSE} :
       request' = [request EXCEPT ![q].pc = "found", ![q].version = version,
                                  ![q].runs = ActivePreviews,
                                  ![q].found = ActivePreviews]
  /\ UNCHANGED <<run, process, disk, crashes>>

(* Mutant of Kill: the child is forgotten, the signal is not sent.         *)
Forget(q) ==
  /\ At(q, "found")
  /\ tracked' = tracked \ request[q].runs
  /\ Move(q, "stopping")
  /\ UNCHANGED <<run, child, listening, exited, disk, crashes>>

(* Every stopWorkspaceRun signals its child before any of them waits.      *)
Kill(q) ==
  /\ At(q, "found")
  /\ child' = [r \in Runs |->
                 IF r \in request[q].runs \cap tracked /\ child[r] = "alive"
                   THEN "dying" ELSE child[r]]
  /\ tracked' = tracked \ request[q].runs
  /\ Move(q, "stopping")
  /\ UNCHANGED <<run, listening, exited, disk, crashes>>

MarkStopped(q, r) ==
  /\ At(q, "stopping")
  /\ r \in request[q].runs
  /\ run' = [run EXCEPT ![r] = "stopped"]
  /\ request' = [request EXCEPT ![q].runs = @ \ {r}]
  /\ UNCHANGED <<process, disk, crashes>>

Stopped(q) ==
  /\ At(q, "stopping")
  /\ request[q].runs = {}
  /\ Move(q, IF q \in Stops THEN "done" ELSE "prepare")
  /\ UNCHANGED <<run, process, disk, crashes>>

-----------------------------------------------------------------------------
(* materializeWorkspaceMirror, one task at a time.                         *)

BeginCommand(q) ==
  /\ q \in Commands
  /\ At(q, "idle")
  /\ \E version \in BOOLEAN :
       request' = [request EXCEPT ![q].pc = "prepare", ![q].version = version]
  /\ UNCHANGED <<run, process, disk, crashes>>

(* Every command that writes files of the draft refreshes the mirror.      *)
Save(q) ==
  /\ q \in Saves
  /\ At(q, "idle")
  /\ draft' = draft + 1
  /\ Move(q, "prepare")
  /\ UNCHANGED <<run, process, queue, mirror, crashes>>

Files(q) == IF request[q].version THEN {SelectedVersion} ELSE {draft}

(* Mutant of Enqueue: no task waits for another.                            *)
Unqueued(q) ==
  /\ At(q, "prepare")
  /\ request' = [request EXCEPT ![q].pc = "read", ![q].files = Files(q)]
  /\ UNCHANGED <<run, process, disk, crashes>>

Enqueue(q) ==
  /\ At(q, "prepare")
  /\ queue' = Append(queue, q)
  /\ Move(q, "queued")
  /\ UNCHANGED <<run, process, mirror, draft, crashes>>

ReadFiles(q) ==
  /\ At(q, "queued")
  /\ Head(queue) = q
  /\ request' = [request EXCEPT ![q].pc = "read",
                                ![q].files = Files(q)]
  /\ UNCHANGED <<run, process, disk, crashes>>

EmptyMirror(q) ==
  /\ At(q, "read")
  /\ mirror' = {}
  /\ Move(q, "emptied")
  /\ UNCHANGED <<run, process, queue, draft, crashes>>

Dequeue == queue' = SubSeq(queue, 2, Len(queue))

WriteMirror(q) ==
  /\ At(q, "emptied")
  /\ mirror' = mirror \cup request[q].files
  /\ Dequeue
  /\ Move(q, IF q \in Saves THEN "done" ELSE "ready")
  /\ UNCHANGED <<run, process, draft, crashes>>

(* The workspace or the version is gone, or the file system refuses.       *)
MirrorFails(q) ==
  /\ \/ At(q, "queued") /\ Head(queue) = q
     \/ At(q, "read")
     \/ At(q, "emptied")
  /\ Dequeue
  /\ Move(q, "refused")
  /\ UNCHANGED <<run, process, mirror, draft, crashes>>

-----------------------------------------------------------------------------
(* Starting the child.                                                     *)

(* detectPreviewTarget looks into the directory, which by now may belong   *)
(* to the next task.                                                       *)
NoTarget(q) ==
  /\ q \in Previews
  /\ At(q, "ready")
  /\ mirror = {}
  /\ Move(q, "refused")
  /\ UNCHANGED <<run, process, disk, crashes>>

CreateRun(q) ==
  /\ At(q, "ready")
  /\ q \in Previews => mirror # {}
  /\ run' = [run EXCEPT ![q] = "pending"]
  /\ Move(q, "created")
  /\ UNCHANGED <<process, disk, crashes>>

Spawn(q) ==
  /\ At(q, "created")
  /\ child' = [child EXCEPT ![q] = "alive"]
  /\ Move(q, "spawned")
  /\ UNCHANGED <<run, tracked, listening, exited, disk, crashes>>

MarkRunning(q) ==
  /\ At(q, "spawned")
  /\ run' = [run EXCEPT ![q] = "running"]
  /\ Move(q, "started")
  /\ UNCHANGED <<process, disk, crashes>>

(* The update answers with an error: the child was never tracked.          *)
MarkRunningFails(q) ==
  /\ At(q, "spawned")
  /\ Move(q, "refused")
  /\ UNCHANGED <<run, process, disk, crashes>>

Track(q) ==
  /\ At(q, "started")
  /\ tracked' = tracked \cup {q}
  /\ listening' = listening \cup {q}
  /\ Move(q, "done")
  /\ UNCHANGED <<run, child, exited, disk, crashes>>

(* A child ends by itself or by the signal; either may end it with any     *)
(* code.  Without a listener the event is lost.                            *)
ChildExits(r) ==
  /\ child[r] \in {"alive", "dying"}
  /\ child' = [child EXCEPT ![r] = "dead"]
  /\ IF r \in listening
       THEN /\ tracked' = tracked \ {r}
            /\ \E status \in Ended : exited' = [exited EXCEPT ![r] = status]
       ELSE UNCHANGED <<tracked, exited>>
  /\ UNCHANGED <<run, listening, request, disk, crashes>>

RecordExit(r) ==
  /\ exited[r] # "none"
  /\ run' = [run EXCEPT ![r] = exited[r]]
  /\ exited' = [exited EXCEPT ![r] = "none"]
  /\ UNCHANGED <<child, tracked, listening, request, disk, crashes>>

-----------------------------------------------------------------------------
(* Listing runs: reconcileActivePreviewRuns.  A probe may fail although    *)
(* the child is alive.                                                     *)

Untracked == {r \in ActivePreviews : r \notin tracked /\ request[r].pc \in Over}

Probe(q) ==
  /\ q \in Lists
  /\ At(q, "idle")
  /\ \E unreachable \in SUBSET Untracked :
       /\ {r \in Untracked : child[r] # "alive"} \subseteq unreachable
       /\ request' = [request EXCEPT ![q].pc = "stale", ![q].runs = unreachable]
  /\ UNCHANGED <<run, process, disk, crashes>>

MarkStale(q) ==
  /\ At(q, "stale")
  /\ run' = [r \in Runs |-> IF r \in request[q].runs THEN "stopped" ELSE run[r]]
  /\ request' = [request EXCEPT ![q].pc = "idle", ![q].runs = {}]
  /\ UNCHANGED <<process, disk, crashes>>

(* The server dies: what its requests had not done is never done.          *)
Crash ==
  /\ crashes < MaxCrashes
  /\ crashes' = crashes + 1
  /\ tracked' = {}
  /\ listening' = {}
  /\ exited' = [r \in Runs |-> "none"]
  /\ queue' = <<>>
  /\ request' = [q \in Calls |->
                   IF At(q, "idle") \/ At(q, "done") THEN request[q]
                   ELSE IF q \in Lists
                          THEN [request[q] EXCEPT !.pc = "idle", !.runs = {}]
                          ELSE [request[q] EXCEPT !.pc = "refused"]]
  /\ UNCHANGED <<run, child, mirror, draft>>

-----------------------------------------------------------------------------
Serve(q) ==
  \/ FindActive(q)
  \/ Kill(q)
  \/ \E r \in Runs : MarkStopped(q, r)
  \/ Stopped(q)
  \/ BeginCommand(q)
  \/ Save(q)
  \/ Enqueue(q)
  \/ ReadFiles(q)
  \/ EmptyMirror(q)
  \/ WriteMirror(q)
  \/ MirrorFails(q)
  \/ Probe(q)
  \/ MarkStale(q)
Start(r) ==
  \/ NoTarget(r)
  \/ CreateRun(r)
  \/ Spawn(r)
  \/ MarkRunning(r)
  \/ MarkRunningFails(r)
  \/ Track(r)
  \/ ChildExits(r)
  \/ RecordExit(r)

Next ==
  \/ \E q \in Calls : Serve(q)
  \/ \E r \in Runs : Start(r)
  \/ Crash

Spec == Init /\ [][Next]_vars

-----------------------------------------------------------------------------
(* What must hold in every state.                                          *)

(* Rows, processes, requests and the mirror have the shapes the service    *)
(* gives them.                                                             *)
TypeOK ==
  /\ run \in [Runs -> {"none"} \cup Active \cup Ended]
  /\ child \in [Runs -> {"none", "alive", "dying", "dead"}]
  /\ tracked \subseteq Runs
  /\ listening \subseteq Runs
  /\ exited \in [Runs -> {"none"} \cup Ended]
  /\ request \in [Calls -> RequestRecords]
  /\ queue \in Seq(Calls)
  /\ mirror \subseteq Sources
  /\ draft \in Drafts
  /\ crashes \in 0 .. MaxCrashes

(* No process is out of reach: a live child that was not told to stop is   *)
(* in the map or about to be put there, unless the request that spawned it *)
(* failed or the server crashed since.                                     *)
NoOrphanProcess ==
  crashes = 0 =>
    \A r \in Runs : child[r] = "alive" =>
      \/ r \in tracked
      \/ request[r].pc \in {"spawned", "started", "refused"}

(* The mirror never mixes the files of two requests, and once every        *)
(* refresh is through it holds the newest draft or a selected version.     *)
MirrorIsCurrent ==
  /\ Cardinality(mirror) <= 1
  /\ (\A q \in Calls : request[q].pc \notin {"prepare", "queued", "read",
                                               "emptied", "refused"})
       => mirror \subseteq {draft, SelectedVersion}

-----------------------------------------------------------------------------
(* What the documentation says and the code does not do.                   *)

(* stop_preview: "Stop any running preview for the current workspace."     *)
StopsAny ==
  \A q \in Stops : At(q, "done") =>
    \A r \in request[q].found : ~(run[r] = "running" /\ child[r] = "alive")

(* start_preview: "Start the product preview for the current workspace     *)
(* draft or a selected version."                                           *)
ShowsItsVersion ==
  \A r \in Previews :
    /\ request[r].version
    /\ r \in tracked
    /\ \A p \in Calls \ {r} : At(p, "idle") \/ p \in Saves
    /\ queue = <<>>
    => mirror = {SelectedVersion}
=============================================================================
