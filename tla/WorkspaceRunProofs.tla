------------------------- MODULE WorkspaceRunProofs -------------------------
(* Proofs about the runs of a workspace, for any set of requests: types,   *)
(* no process out of reach, and the mirror that requests share.            *)
EXTENDS WorkspaceRun, FiniteSetTheorems, SequenceTheorems, TLAPS

-----------------------------------------------------------------------------
(* Types.  A save counts the draft up once, so the number of saves begun   *)
(* bounds its revision.                                                    *)

Pcs == {"idle", "found", "stopping", "prepare", "queued", "read", "emptied",
        "ready", "created", "spawned", "started", "stale", "done", "refused"}

Begun == {q \in Saves : request[q].pc # "idle"}

(* Listings are the only requests that start over, and do nothing else.    *)
ListsOnly ==
  \A q \in Calls : /\ q \in Lists => request[q].pc \in {"idle", "stale"}
                   /\ request[q].pc = "stale" => q \in Lists

RowsTyped ==
  /\ run \in [Runs -> {"none"} \cup Active \cup Ended]
  /\ child \in [Runs -> {"none", "alive", "dying", "dead"}]
  /\ tracked \subseteq Runs
  /\ listening \subseteq Runs
  /\ exited \in [Runs -> {"none"} \cup Ended]
  /\ queue \in Seq(Calls)
  /\ mirror \subseteq Sources
  /\ crashes \in 0 .. MaxCrashes

RunTypes ==
  /\ RowsTyped /\ request \in [Calls -> RequestRecords] /\ draft \in Drafts
  /\ draft = Cardinality(Begun) /\ ListsOnly

LEMMA RunTypesTyped == RunTypes => TypeOK
BY DEF RunTypes, RowsTyped, TypeOK

LEMMA RecordFields ==
  RequestRecords = [pc: Pcs, version: BOOLEAN, runs: SUBSET Runs,
                    found: SUBSET Runs, files: SUBSET Sources]
BY DEF RequestRecords, Pcs, Over

(* One request changes, and the others do not.                             *)
Others(q) ==
  /\ request' \in [Calls -> RequestRecords]
  /\ \A p \in Calls : p # q => request'[p] = request[p]

LEMMA PcMoves ==
  ASSUME request \in [Calls -> RequestRecords], NEW q \in Calls,
         NEW pc \in Pcs, Move(q, pc)
  PROVE  Others(q) /\ request'[q] = [request[q] EXCEPT !.pc = pc]
BY RecordFields DEF Move, Others

LEMMA RequestTyped ==
  ASSUME RunTypes, RequestsAssumption, NEW q \in Calls, Others(q), RowsTyped',
         draft' = draft,
         q \in Saves => request[q].pc # "idle" /\ request'[q].pc # "idle",
         q \in Lists => request'[q].pc \in {"idle", "stale"},
         request'[q].pc = "stale" => q \in Lists
  PROVE  RunTypes'
<1>1. \A p \in Saves : request'[p].pc # "idle" <=> request[p].pc # "idle"
  BY DEF Others, Calls
<1>2. Begun' = Begun
  BY <1>1 DEF Begun
<1>3. ListsOnly'
  BY DEF RunTypes, ListsOnly, Others
<1> QED
  BY <1>2, <1>3 DEF RunTypes, Others, Drafts

(* What a save begins.                                                     *)
LEMMA SaveTyped ==
  ASSUME RunTypes, RequestsAssumption, NEW q \in Calls, Save(q)
  PROVE  RunTypes'
<1>1. Others(q) /\ request'[q].pc = "prepare"
  <2>1. Others(q) /\ request'[q] = [request[q] EXCEPT !.pc = "prepare"]
    BY PcMoves DEF Save, RunTypes, Pcs
  <2> QED
    BY <2>1, RecordFields DEF RunTypes
<1>2. q \in Saves /\ request[q].pc = "idle" /\ draft' = draft + 1
  BY DEF Save, At
<1>3. \A p \in Saves : p # q => request'[p].pc = request[p].pc
  BY <1>1 DEF Others, Calls
<1>4. Begun' = Begun \cup {q} /\ q \notin Begun
  BY <1>1, <1>2, <1>3 DEF Begun
<1>5. IsFiniteSet(Saves) /\ Begun' \in SUBSET Saves /\ Begun \in SUBSET Saves
  <2>1. Saves \in SUBSET Calls
    BY DEF Calls
  <2> QED
    BY <2>1, FS_Subset DEF RequestsAssumption, Begun
<1>6. IsFiniteSet(Begun) /\ IsFiniteSet(Begun')
  BY <1>5, FS_Subset
<1>7. Cardinality(Begun') = Cardinality(Begun) + 1
  BY <1>4, <1>6, FS_AddElement
<1>8. Cardinality(Begun') <= Cardinality(Saves) /\ Cardinality(Saves) \in Nat
      /\ Cardinality(Begun) \in Nat
  BY <1>5, <1>6, FS_Subset, FS_CardinalityType
<1>9. draft' \in Drafts /\ draft' = Cardinality(Begun')
  BY <1>2, <1>7, <1>8 DEF RunTypes, Drafts
<1>10. q \notin Lists
  BY <1>2 DEF RequestsAssumption
<1>11. ListsOnly'
  BY <1>1, <1>10 DEF RunTypes, ListsOnly, Others
<1>12. RowsTyped'
  BY DEF Save, RunTypes, RowsTyped, process
<1> QED
  BY <1>1, <1>9, <1>11, <1>12 DEF RunTypes, Others

LEMMA CrashTyped ==
  ASSUME RunTypes, RequestsAssumption, Crash
  PROVE  RunTypes'
<1> DEFINE Lost(q) == IF q \in Lists
                        THEN [request[q] EXCEPT !.pc = "idle", !.runs = {}]
                        ELSE [request[q] EXCEPT !.pc = "refused"]
<1>1. ASSUME NEW q \in Calls
      PROVE  /\ request[q] \in RequestRecords /\ Lost(q) \in RequestRecords
             /\ q \in Lists => Lost(q).pc = "idle"
             /\ q \notin Lists => Lost(q).pc = "refused"
  BY RecordFields DEF RunTypes, Pcs
<1> HIDE DEF Lost
<1>2. request' = [q \in Calls |-> IF request[q].pc = "idle" \/ request[q].pc = "done"
                                    THEN request[q] ELSE Lost(q)]
  BY DEF Crash, At, Lost
<1>3. request' \in [Calls -> RequestRecords]
  BY <1>1, <1>2
<1>4. \A q \in Calls \ Lists : request'[q].pc = "idle" <=> request[q].pc = "idle"
  BY <1>1, <1>2
<1>5. Saves \in SUBSET (Calls \ Lists)
  BY DEF RequestsAssumption, Calls
<1>6. Begun' = Begun
  BY <1>4, <1>5 DEF Begun
<1>7. ListsOnly'
  BY <1>1, <1>2 DEF RunTypes, ListsOnly
<1>8. RowsTyped'
  <2>1. crashes < MaxCrashes /\ crashes' = crashes + 1 /\ queue' = <<>>
    BY Zenon DEF Crash
  <2>2. crashes \in 0 .. MaxCrashes /\ MaxCrashes \in Nat
    BY DEF RunTypes, RowsTyped, RequestsAssumption
  <2>3. crashes' \in 0 .. MaxCrashes /\ queue' \in Seq(Calls)
    BY <2>1, <2>2
  <2> QED
    BY <2>3 DEF Crash, RunTypes, RowsTyped
<1> QED
  BY <1>3, <1>6, <1>7, <1>8 DEF RunTypes, Crash

(* The requests for the processes and their rows.                          *)
LEMMA FindActiveTyped ==
  ASSUME RunTypes, RequestsAssumption, NEW q \in Calls, FindActive(q)
  PROVE  RunTypes'
<1>1. PICK version \in BOOLEAN :
        request' = [request EXCEPT ![q].pc = "found", ![q].version = version,
                                   ![q].runs = ActivePreviews,
                                   ![q].found = ActivePreviews]
  BY DEF FindActive
<1>2. ActivePreviews \in SUBSET Runs
  BY DEF ActivePreviews, Runs
<1>3. request[q] \in RequestRecords
  BY DEF RunTypes
<1> DEFINE new == [request[q] EXCEPT !.pc = "found", !.version = version,
                                     !.runs = ActivePreviews,
                                     !.found = ActivePreviews]
<1>4. new \in RequestRecords /\ new.pc = "found"
  BY <1>2, <1>3, RecordFields DEF Pcs
<1>5. request' = [request EXCEPT ![q] = new]
  BY <1>1, <1>3, RecordFields DEF RunTypes
<1> HIDE DEF new
<1>6. Others(q) /\ request'[q].pc = "found"
  BY <1>4, <1>5 DEF RunTypes, Others
<1>7. q \notin Saves /\ q \notin Lists
  BY DEF FindActive, RequestsAssumption
<1>8. RowsTyped' /\ draft' = draft
  BY DEF FindActive, RunTypes, RowsTyped, process, disk
<1> QED
  BY <1>6, <1>7, <1>8, RequestTyped

LEMMA KillTyped ==
  ASSUME RunTypes, RequestsAssumption, NEW q \in Calls, Kill(q)
  PROVE  RunTypes'
<1>1. request[q].pc = "found" /\ Move(q, "stopping")
  BY DEF Kill, At
<1>2. Others(q) /\ request'[q] = [request[q] EXCEPT !.pc = "stopping"]
  BY <1>1, PcMoves DEF RunTypes, Pcs
<1>3. request'[q].pc = "stopping" /\ q \notin Lists
  BY <1>1, <1>2, RecordFields DEF RunTypes, ListsOnly
<1>4. child' \in [Runs -> {"none", "alive", "dying", "dead"}]
      /\ tracked' \in SUBSET Runs
  BY DEF Kill, RunTypes, RowsTyped
<1>5. RowsTyped' /\ draft' = draft
  BY <1>4 DEF Kill, RunTypes, RowsTyped, disk
<1> QED
  BY <1>1, <1>2, <1>3, <1>5, RequestTyped

LEMMA MarkStoppedTyped ==
  ASSUME RunTypes, RequestsAssumption, NEW q \in Calls, NEW r \in Runs,
         MarkStopped(q, r)
  PROVE  RunTypes'
<1> DEFINE new == [request[q] EXCEPT !.runs = @ \ {r}]
<1>1. request[q].pc = "stopping" /\ request[q] \in RequestRecords
  BY DEF MarkStopped, At, RunTypes
<1>2. new \in RequestRecords /\ new.pc = "stopping"
  BY <1>1, RecordFields
<1>3. request' = [request EXCEPT ![q] = new]
  BY DEF MarkStopped, RunTypes
<1> HIDE DEF new
<1>4. Others(q) /\ request'[q].pc = "stopping"
  BY <1>2, <1>3 DEF RunTypes, Others
<1>5. q \notin Lists
  BY <1>1 DEF RunTypes, ListsOnly
<1>6. RowsTyped' /\ draft' = draft
  BY DEF MarkStopped, RunTypes, RowsTyped, process, disk, Ended
<1> QED
  BY <1>1, <1>4, <1>5, <1>6, RequestTyped

(* A request goes on, and of the rest only one row or child may change.    *)
LEMMA GoesOnTyped ==
  ASSUME RunTypes, RequestsAssumption, NEW q \in Calls, NEW pc \in Pcs,
         request[q].pc \notin {"idle", "stale"}, pc \notin {"idle", "stale"},
         Move(q, pc), RowsTyped', draft' = draft
  PROVE  RunTypes'
<1>1. Others(q) /\ request'[q] = [request[q] EXCEPT !.pc = pc]
  BY PcMoves DEF RunTypes
<1>2. request'[q].pc = pc /\ q \notin Lists
  BY <1>1, RecordFields DEF RunTypes, ListsOnly
<1> QED
  BY <1>1, <1>2, RequestTyped

LEMMA BeginCommandTyped ==
  ASSUME RunTypes, RequestsAssumption, NEW q \in Calls, BeginCommand(q)
  PROVE  RunTypes'
<1>1. PICK version \in BOOLEAN :
        request' = [request EXCEPT ![q].pc = "prepare", ![q].version = version]
  BY DEF BeginCommand
<1> DEFINE new == [request[q] EXCEPT !.pc = "prepare", !.version = version]
<1>2. new \in RequestRecords /\ new.pc = "prepare"
  BY RecordFields DEF RunTypes, Pcs
<1>3. request' = [request EXCEPT ![q] = new]
  BY <1>1, RecordFields DEF RunTypes
<1> HIDE DEF new
<1>4. Others(q) /\ request'[q].pc = "prepare"
  BY <1>2, <1>3 DEF RunTypes, Others
<1>5. q \notin Saves /\ q \notin Lists
  BY DEF BeginCommand, RequestsAssumption
<1>6. RowsTyped' /\ draft' = draft
  BY DEF BeginCommand, RunTypes, RowsTyped, process, disk
<1> QED
  BY <1>4, <1>5, <1>6, RequestTyped

(* The queue of the mirror.                                                *)
LEMMA DequeueTyped ==
  ASSUME queue \in Seq(Calls), Dequeue
  PROVE  /\ queue' \in Seq(Calls)
         /\ queue # <<>> => queue' = Tail(queue)
<1>1. \A i \in 2 .. Len(queue) : queue[i] \in Calls
  OBVIOUS
<1>2. Len(queue) \in Nat
  OBVIOUS
<1>3. queue' \in Seq(Calls)
  BY <1>1, <1>2, SubSeqProperties DEF Dequeue
<1>4. queue # <<>> => queue' = Tail(queue)
  BY TailIsSubSeq DEF Dequeue
<1> QED
  BY <1>3, <1>4

LEMMA ReadFilesTyped ==
  ASSUME RunTypes, RequestsAssumption, NEW q \in Calls, ReadFiles(q)
  PROVE  RunTypes'
<1> DEFINE new == [request[q] EXCEPT !.pc = "read", !.files = Files(q)]
<1>1. request[q].pc = "queued" /\ request[q] \in RequestRecords
  BY DEF ReadFiles, At, RunTypes
<1>2. Files(q) \in SUBSET Sources
  BY DEF RunTypes, Files, Sources
<1>3. new \in RequestRecords /\ new.pc = "read"
  BY <1>1, <1>2, RecordFields DEF Pcs
<1>4. request' = [request EXCEPT ![q] = new]
  BY <1>1, RecordFields DEF ReadFiles, RunTypes
<1> HIDE DEF new
<1>5. Others(q) /\ request'[q].pc = "read"
  BY <1>3, <1>4 DEF RunTypes, Others
<1>6. q \notin Lists
  BY <1>1 DEF RunTypes, ListsOnly
<1>7. RowsTyped' /\ draft' = draft
  BY DEF ReadFiles, RunTypes, RowsTyped, process, disk
<1> QED
  BY <1>1, <1>5, <1>6, <1>7, RequestTyped

LEMMA WriteMirrorTyped ==
  ASSUME RunTypes, RequestsAssumption, NEW q \in Calls, WriteMirror(q)
  PROVE  RunTypes'
<1>1. request[q].pc = "emptied" /\ request[q].files \in SUBSET Sources
  BY RecordFields DEF WriteMirror, At, RunTypes
<1>2. queue' \in Seq(Calls)
  BY DequeueTyped DEF WriteMirror, RunTypes, RowsTyped
<1>3. RowsTyped' /\ draft' = draft
  BY <1>1, <1>2 DEF WriteMirror, RunTypes, RowsTyped, process
<1>4. \/ Move(q, "done") \/ Move(q, "ready")
  BY DEF WriteMirror
<1> QED
  BY <1>1, <1>3, <1>4, GoesOnTyped DEF Pcs

LEMMA SteadyRows ==
  ASSUME RunTypes, UNCHANGED <<tracked, listening, exited, queue, mirror, crashes>>,
         run' \in [Runs -> {"none"} \cup Active \cup Ended],
         child' \in [Runs -> {"none", "alive", "dying", "dead"}]
  PROVE  RowsTyped'
BY DEF RunTypes, RowsTyped

LEMMA MirrorQueueTyped ==
  ASSUME RunTypes, RequestsAssumption, NEW q \in Calls,
         Stopped(q) \/ Enqueue(q) \/ EmptyMirror(q) \/ MirrorFails(q)
  PROVE  RunTypes'
<1>1. CASE Stopped(q)
  <2>1. request[q].pc = "stopping" /\ (Move(q, "done") \/ Move(q, "prepare"))
    BY <1>1 DEF Stopped, At
  <2>2. RowsTyped' /\ draft' = draft
    BY <1>1 DEF Stopped, RunTypes, RowsTyped, process, disk
  <2> QED
    BY <2>1, <2>2, GoesOnTyped DEF Pcs
<1>2. CASE Enqueue(q)
  <2>1. request[q].pc = "prepare" /\ Move(q, "queued")
    BY <1>2 DEF Enqueue, At
  <2>2. queue' \in Seq(Calls)
    BY <1>2 DEF Enqueue, RunTypes, RowsTyped
  <2>3. RowsTyped' /\ draft' = draft
    BY <1>2, <2>2 DEF Enqueue, RunTypes, RowsTyped, process
  <2> QED
    BY <2>1, <2>3, GoesOnTyped DEF Pcs
<1>3. CASE EmptyMirror(q)
  <2>1. request[q].pc = "read" /\ Move(q, "emptied")
    BY <1>3 DEF EmptyMirror, At
  <2>2. RowsTyped' /\ draft' = draft
    BY <1>3 DEF EmptyMirror, RunTypes, RowsTyped, process
  <2> QED
    BY <2>1, <2>2, GoesOnTyped DEF Pcs
<1>4. CASE MirrorFails(q)
  <2>1. request[q].pc \in {"queued", "read", "emptied"} /\ Move(q, "refused")
    BY <1>4 DEF MirrorFails, At
  <2>2. queue' \in Seq(Calls)
    BY <1>4, DequeueTyped DEF MirrorFails, RunTypes, RowsTyped
  <2>3. RowsTyped' /\ draft' = draft
    BY <1>4, <2>2 DEF MirrorFails, RunTypes, RowsTyped, process
  <2> QED
    BY <2>1, <2>3, GoesOnTyped DEF Pcs
<1> QED
  BY <1>1, <1>2, <1>3, <1>4

LEMMA StartTyped ==
  ASSUME RunTypes, RequestsAssumption, NEW r \in Runs,
         \/ NoTarget(r) \/ CreateRun(r) \/ Spawn(r) \/ MarkRunning(r)
         \/ MarkRunningFails(r) \/ Track(r)
  PROVE  RunTypes'
<1> r \in Calls
  BY DEF Calls
<1>1. CASE NoTarget(r)
  <2>1. request[r].pc = "ready" /\ Move(r, "refused")
    BY <1>1 DEF NoTarget, At
  <2>2. RowsTyped' /\ draft' = draft
    BY <1>1 DEF NoTarget, RunTypes, RowsTyped, process, disk
  <2> QED
    BY <2>1, <2>2, GoesOnTyped DEF Pcs
<1>2. CASE CreateRun(r)
  <2>1. request[r].pc = "ready" /\ Move(r, "created")
    BY <1>2 DEF CreateRun, At
  <2>2. RowsTyped' /\ draft' = draft
    BY <1>2 DEF CreateRun, RunTypes, RowsTyped, process, disk, Active
  <2> QED
    BY <2>1, <2>2, GoesOnTyped DEF Pcs
<1>3. CASE Spawn(r)
  <2>1. request[r].pc = "created" /\ Move(r, "spawned")
    BY <1>3 DEF Spawn, At
  <2>2. RowsTyped' /\ draft' = draft
    BY <1>3 DEF Spawn, RunTypes, RowsTyped, disk
  <2> QED
    BY <2>1, <2>2, GoesOnTyped DEF Pcs
<1>4. CASE MarkRunning(r)
  <2>1. request[r].pc = "spawned" /\ Move(r, "started")
    BY <1>4 DEF MarkRunning, At
  <2>2. RowsTyped' /\ draft' = draft
    BY <1>4 DEF MarkRunning, RunTypes, RowsTyped, process, disk, Active
  <2> QED
    BY <2>1, <2>2, GoesOnTyped DEF Pcs
<1>5. CASE MarkRunningFails(r)
  <2>1. request[r].pc = "spawned" /\ Move(r, "refused")
    BY <1>5 DEF MarkRunningFails, At
  <2>2. RowsTyped' /\ draft' = draft
    BY <1>5 DEF MarkRunningFails, RunTypes, RowsTyped, process, disk
  <2> QED
    BY <2>1, <2>2, GoesOnTyped DEF Pcs
<1>6. CASE Track(r)
  <2>1. request[r].pc = "started" /\ Move(r, "done")
    BY <1>6 DEF Track, At
  <2>2. RowsTyped' /\ draft' = draft
    BY <1>6 DEF Track, RunTypes, RowsTyped, disk
  <2> QED
    BY <2>1, <2>2, GoesOnTyped DEF Pcs
<1> QED
  BY <1>1, <1>2, <1>3, <1>4, <1>5, <1>6

LEMMA ExitTyped ==
  ASSUME RunTypes, NEW r \in Runs, ChildExits(r) \/ RecordExit(r)
  PROVE  RunTypes'
<1>1. CASE ChildExits(r)
  <2>1. child' \in [Runs -> {"none", "alive", "dying", "dead"}]
    BY <1>1 DEF ChildExits, RunTypes, RowsTyped
  <2>2. exited' \in [Runs -> {"none"} \cup Ended] /\ tracked' \in SUBSET Runs
    <3>1. CASE r \in listening
      <4>1. PICK status \in Ended : exited' = [exited EXCEPT ![r] = status]
        BY <1>1, <3>1 DEF ChildExits
      <4>2. exited' \in [Runs -> {"none"} \cup Ended]
        BY <4>1 DEF RunTypes, RowsTyped
      <4> QED
        BY <1>1, <3>1, <4>2 DEF ChildExits, RunTypes, RowsTyped
    <3>2. CASE r \notin listening
      BY <1>1, <3>2 DEF ChildExits, RunTypes, RowsTyped
    <3> QED
      BY <3>1, <3>2
  <2>3. UNCHANGED <<run, listening, request, queue, mirror, draft, crashes>>
    BY <1>1 DEF ChildExits, disk
  <2>4. RowsTyped'
    BY <2>1, <2>2, <2>3 DEF RunTypes, RowsTyped
  <2> QED
    BY <2>3, <2>4 DEF RunTypes, Begun, ListsOnly
<1>2. CASE RecordExit(r)
  <2>1. UNCHANGED <<child, tracked, listening, request, queue, mirror, draft, crashes>>
    BY <1>2 DEF RecordExit, disk
  <2>2. exited[r] \in Ended
    BY <1>2 DEF RecordExit, RunTypes, RowsTyped
  <2>3. run' \in [Runs -> {"none"} \cup Active \cup Ended]
        /\ exited' \in [Runs -> {"none"} \cup Ended]
    BY <1>2, <2>2 DEF RecordExit, RunTypes, RowsTyped
  <2>4. RowsTyped'
    BY <2>1, <2>3 DEF RunTypes, RowsTyped
  <2> QED
    BY <2>1, <2>4 DEF RunTypes, Begun, ListsOnly
<1> QED
  BY <1>1, <1>2

LEMMA ProbeTyped ==
  ASSUME RunTypes, RequestsAssumption, NEW q \in Calls, Probe(q)
  PROVE  RunTypes'
<1>1. PICK unreachable \in SUBSET Untracked :
        request' = [request EXCEPT ![q].pc = "stale", ![q].runs = unreachable]
  BY DEF Probe
<1>2. unreachable \in SUBSET Runs
  BY DEF Untracked, ActivePreviews, Runs
<1> DEFINE new == [request[q] EXCEPT !.pc = "stale", !.runs = unreachable]
<1>3. new \in RequestRecords /\ new.pc = "stale"
  BY <1>2, RecordFields DEF RunTypes, Pcs
<1>4. request' = [request EXCEPT ![q] = new]
  BY <1>1, RecordFields DEF RunTypes
<1> HIDE DEF new
<1>5. Others(q) /\ request'[q].pc = "stale"
  BY <1>3, <1>4 DEF RunTypes, Others
<1>6. q \in Lists /\ q \notin Saves
  BY DEF Probe, RequestsAssumption
<1>7. RowsTyped' /\ draft' = draft
  BY DEF Probe, RunTypes, RowsTyped, process, disk
<1> QED
  BY <1>5, <1>6, <1>7, RequestTyped

LEMMA MarkStaleTyped ==
  ASSUME RunTypes, RequestsAssumption, NEW q \in Calls, MarkStale(q)
  PROVE  RunTypes'
<1> DEFINE new == [request[q] EXCEPT !.pc = "idle", !.runs = {}]
<1>1. request[q].pc = "stale" /\ request[q] \in RequestRecords
  BY DEF MarkStale, At, RunTypes
<1>2. new \in RequestRecords /\ new.pc = "idle"
  BY <1>1, RecordFields DEF Pcs
<1>3. request' = [request EXCEPT ![q] = new]
  BY <1>1, RecordFields DEF MarkStale, RunTypes
<1> HIDE DEF new
<1>4. Others(q) /\ request'[q].pc = "idle"
  BY <1>2, <1>3 DEF RunTypes, Others
<1>5. q \in Lists /\ q \notin Saves
  BY <1>1 DEF RunTypes, ListsOnly, RequestsAssumption
<1>6. run' \in [Runs -> {"none"} \cup Active \cup Ended]
  BY DEF MarkStale, RunTypes, RowsTyped, Ended
<1>7. RowsTyped' /\ draft' = draft
  BY <1>6 DEF MarkStale, RunTypes, RowsTyped, process, disk
<1> QED
  BY <1>4, <1>5, <1>7, RequestTyped

LEMMA StepTyped ==
  ASSUME RunTypes, RequestsAssumption, [Next]_vars
  PROVE  RunTypes'
<1>1. ASSUME NEW q \in Calls, Serve(q)
      PROVE  RunTypes'
  <2>1. ASSUME NEW r \in Runs, MarkStopped(q, r)
        PROVE  RunTypes'
    BY <2>1, MarkStoppedTyped
  <2>2. CASE Stopped(q) \/ Enqueue(q) \/ EmptyMirror(q) \/ MirrorFails(q)
    BY <2>2, MirrorQueueTyped
  <2> QED
    BY <1>1, <2>1, <2>2, FindActiveTyped, KillTyped, BeginCommandTyped, SaveTyped,
       ReadFilesTyped, WriteMirrorTyped, ProbeTyped, MarkStaleTyped DEF Serve
<1>2. ASSUME NEW r \in Runs, Start(r)
      PROVE  RunTypes'
  BY <1>2, StartTyped, ExitTyped DEF Start
<1>3. CASE UNCHANGED vars
  BY <1>3 DEF vars, RunTypes, RowsTyped, Begun, ListsOnly
<1> QED
  BY <1>1, <1>2, <1>3, CrashTyped DEF Next

LEMMA InitTyped ==
  ASSUME Init, RequestsAssumption
  PROVE  RunTypes
<1>1. Begun = {}
  BY DEF Init, Begun, Calls
<1>2. Cardinality(Begun) = 0
  BY <1>1, FS_EmptySet
<1>3. Cardinality(Saves) \in Nat
  <2>1. Saves \in SUBSET Calls
    BY DEF Calls
  <2> QED
    BY <2>1, FS_Subset, FS_CardinalityType DEF RequestsAssumption
<1>4. [pc |-> "idle", version |-> FALSE, runs |-> {}, found |-> {}, files |-> {}]
        \in RequestRecords
  BY RecordFields DEF Pcs
<1>5. request \in [Calls -> RequestRecords]
  BY <1>4 DEF Init
<1>6. RowsTyped
  BY <1>3 DEF Init, RowsTyped, Sources, Drafts, RequestsAssumption
<1>7. ListsOnly
  BY DEF Init, ListsOnly
<1> QED
  BY <1>2, <1>3, <1>5, <1>6, <1>7 DEF RunTypes, Init, Drafts

-----------------------------------------------------------------------------
(* Which way each step sends its request.                                  *)
Goes(q, from, to) ==
  /\ Others(q)
  /\ request[q].pc = from
  /\ request'[q].pc = to
  /\ to # "read" => request'[q].files = request[q].files

LEMMA PcGoes ==
  ASSUME RunTypes, NEW q \in Calls, NEW to \in Pcs, to # "read", Move(q, to)
  PROVE  Goes(q, request[q].pc, to)
<1>1. Others(q) /\ request'[q] = [request[q] EXCEPT !.pc = to]
  BY PcMoves DEF RunTypes
<1>2. request'[q].pc = to /\ request'[q].files = request[q].files
  BY <1>1, RecordFields DEF RunTypes
<1> QED
  BY <1>1, <1>2 DEF Goes

LEMMA BecomesGoes ==
  ASSUME RunTypes, NEW q \in Calls, NEW new \in RequestRecords,
         request' = [request EXCEPT ![q] = new],
         new.pc # "read" => new.files = request[q].files
  PROVE  Goes(q, request[q].pc, new.pc)
BY DEF RunTypes, Goes, Others

LEMMA FindActiveGoes ==
  ASSUME RunTypes, NEW q \in Calls, FindActive(q)
  PROVE  Goes(q, "idle", "found")
<1>1. PICK version \in BOOLEAN :
        request' = [request EXCEPT ![q].pc = "found", ![q].version = version,
                                   ![q].runs = ActivePreviews,
                                   ![q].found = ActivePreviews]
  BY DEF FindActive
<1>2. ActivePreviews \in SUBSET Runs
  BY DEF ActivePreviews, Runs
<1>3. request[q] \in RequestRecords /\ request[q].pc = "idle"
  BY DEF RunTypes, FindActive, At
<1> DEFINE new == [request[q] EXCEPT !.pc = "found", !.version = version,
                                     !.runs = ActivePreviews,
                                     !.found = ActivePreviews]
<1>4. new \in RequestRecords /\ new.pc = "found" /\ new.files = request[q].files
  BY <1>2, <1>3, RecordFields DEF Pcs
<1>5. request' = [request EXCEPT ![q] = new]
  BY <1>1, <1>3, RecordFields DEF RunTypes
<1> HIDE DEF new
<1> QED
  BY <1>3, <1>4, <1>5, BecomesGoes

LEMMA BeginCommandGoes ==
  ASSUME RunTypes, NEW q \in Calls, BeginCommand(q)
  PROVE  Goes(q, "idle", "prepare")
<1>1. PICK version \in BOOLEAN :
        request' = [request EXCEPT ![q].pc = "prepare", ![q].version = version]
  BY DEF BeginCommand
<1> DEFINE new == [request[q] EXCEPT !.pc = "prepare", !.version = version]
<1>2. request[q] \in RequestRecords /\ request[q].pc = "idle"
  BY DEF RunTypes, BeginCommand, At
<1>3. new \in RequestRecords /\ new.pc = "prepare" /\ new.files = request[q].files
  BY <1>2, RecordFields DEF Pcs
<1>4. request' = [request EXCEPT ![q] = new]
  BY <1>1, RecordFields DEF RunTypes
<1> HIDE DEF new
<1> QED
  BY <1>2, <1>3, <1>4, BecomesGoes

LEMMA MarkStoppedGoes ==
  ASSUME RunTypes, NEW q \in Calls, NEW r \in Runs, MarkStopped(q, r)
  PROVE  Goes(q, "stopping", "stopping")
<1> DEFINE new == [request[q] EXCEPT !.runs = @ \ {r}]
<1>1. request[q].pc = "stopping" /\ request[q] \in RequestRecords
  BY DEF MarkStopped, At, RunTypes
<1>2. new \in RequestRecords /\ new.pc = "stopping" /\ new.files = request[q].files
  BY <1>1, RecordFields
<1>3. request' = [request EXCEPT ![q] = new]
  BY DEF MarkStopped, RunTypes
<1> HIDE DEF new
<1> QED
  BY <1>1, <1>2, <1>3, BecomesGoes

LEMMA ReadFilesGoes ==
  ASSUME RunTypes, NEW q \in Calls, ReadFiles(q)
  PROVE  Goes(q, "queued", "read") /\ request'[q].files = Files(q)
<1> DEFINE new == [request[q] EXCEPT !.pc = "read", !.files = Files(q)]
<1>1. request[q].pc = "queued" /\ request[q] \in RequestRecords
  BY DEF ReadFiles, At, RunTypes
<1>2. Files(q) \in SUBSET Sources
  BY DEF RunTypes, Files, Sources
<1>3. new \in RequestRecords /\ new.pc = "read" /\ new.files = Files(q)
  BY <1>1, <1>2, RecordFields DEF Pcs
<1>4. request' = [request EXCEPT ![q] = new]
  BY <1>1, RecordFields DEF ReadFiles, RunTypes
<1> HIDE DEF new
<1>5. request'[q] = new
  BY <1>4 DEF RunTypes
<1> QED
  BY <1>1, <1>3, <1>4, <1>5, BecomesGoes

LEMMA ListGoes ==
  ASSUME RunTypes, NEW q \in Calls, Probe(q) \/ MarkStale(q)
  PROVE  Goes(q, "idle", "stale") \/ Goes(q, "stale", "idle")
<1>1. CASE Probe(q)
  <2>1. PICK unreachable \in SUBSET Untracked :
          request' = [request EXCEPT ![q].pc = "stale", ![q].runs = unreachable]
    BY <1>1 DEF Probe
  <2>2. unreachable \in SUBSET Runs
    BY DEF Untracked, ActivePreviews, Runs
  <2>3. request[q] \in RequestRecords /\ request[q].pc = "idle"
    BY <1>1 DEF RunTypes, Probe, At
  <2> DEFINE new == [request[q] EXCEPT !.pc = "stale", !.runs = unreachable]
  <2>4. new \in RequestRecords /\ new.pc = "stale" /\ new.files = request[q].files
    BY <2>2, <2>3, RecordFields DEF Pcs
  <2>5. request' = [request EXCEPT ![q] = new]
    BY <2>1, RecordFields DEF RunTypes
  <2> HIDE DEF new
  <2> QED
    BY <2>3, <2>4, <2>5, BecomesGoes
<1>2. CASE MarkStale(q)
  <2> DEFINE new == [request[q] EXCEPT !.pc = "idle", !.runs = {}]
  <2>1. request[q].pc = "stale" /\ request[q] \in RequestRecords
    BY <1>2 DEF MarkStale, At, RunTypes
  <2>2. new \in RequestRecords /\ new.pc = "idle" /\ new.files = request[q].files
    BY <2>1, RecordFields DEF Pcs
  <2>3. request' = [request EXCEPT ![q] = new]
    BY <1>2, <2>1, RecordFields DEF MarkStale, RunTypes
  <2> HIDE DEF new
  <2> QED
    BY <2>1, <2>2, <2>3, BecomesGoes
<1> QED
  BY <1>1, <1>2

-----------------------------------------------------------------------------
(* No process is out of reach.                                             *)
LEMMA NoneForgotten ==
  ASSUME RunTypes, NoOrphanProcess, NEW q \in Calls, NEW from, NEW to,
         Goes(q, from, to), UNCHANGED <<child, tracked, crashes>>,
         from \notin {"spawned", "started", "refused"}
  PROVE  NoOrphanProcess'
<1>1. \A r \in Runs : r \in Calls
  BY DEF Calls
<1> QED
  BY <1>1 DEF NoOrphanProcess, Goes, Others

LEMMA KillReaches ==
  ASSUME RunTypes, NoOrphanProcess, NEW q \in Calls, Kill(q)
  PROVE  NoOrphanProcess'
<1>1. Goes(q, "found", "stopping")
  BY PcGoes DEF Kill, At, Pcs
<1>2. ASSUME NEW r \in Runs, crashes = 0, child'[r] = "alive"
      PROVE  r \in tracked' \/ request'[r].pc \in {"spawned", "started", "refused"}
  <2>1. child[r] = "alive" /\ ~(r \in request[q].runs \cap tracked)
    BY <1>2 DEF Kill
  <2>2. r \in tracked \/ request[r].pc \in {"spawned", "started", "refused"}
    BY <1>2, <2>1 DEF NoOrphanProcess
  <2>3. r \in tracked => r \in tracked'
    BY <2>1 DEF Kill
  <2>4. r \in Calls /\ (r # q => request'[r] = request[r])
    BY <1>1 DEF Goes, Others, Calls
  <2> QED
    BY <1>1, <2>2, <2>3, <2>4 DEF Goes
<1>3. crashes' = crashes
  BY DEF Kill
<1> QED
  BY <1>2, <1>3 DEF NoOrphanProcess

LEMMA StartReaches ==
  ASSUME RunTypes, NoOrphanProcess, NEW q \in Runs,
         Spawn(q) \/ MarkRunning(q) \/ MarkRunningFails(q) \/ Track(q)
  PROVE  NoOrphanProcess'
<1>1. q \in Calls
  BY DEF Calls
<1>2. \A r \in Runs \ {q} : /\ request'[r] = request[r] /\ child'[r] = child[r]
                            /\ r \in tracked' <=> r \in tracked
  <2>1. Others(q)
    <3>1. PICK pc \in Pcs : Move(q, pc)
      BY DEF Spawn, MarkRunning, MarkRunningFails, Track, Pcs
    <3> QED
      BY <1>1, <3>1, PcMoves DEF RunTypes
  <2>2. \A r \in Runs \ {q} : request'[r] = request[r]
    BY <2>1 DEF Others, Calls
  <2>3. \A r \in Runs \ {q} : child'[r] = child[r] /\ (r \in tracked' <=> r \in tracked)
    BY DEF Spawn, MarkRunning, MarkRunningFails, Track, process, RunTypes, RowsTyped
  <2> QED
    BY <2>2, <2>3
<1>3. \/ request'[q].pc \in {"spawned", "started", "refused"}
      \/ q \in tracked'
  <2>1. CASE Track(q)
    BY <2>1 DEF Track
  <2>2. CASE ~Track(q)
    <3>1. PICK pc \in {"spawned", "started", "refused"} : Move(q, pc)
      BY <2>2 DEF Spawn, MarkRunning, MarkRunningFails
    <3>2. request'[q] = [request[q] EXCEPT !.pc = pc]
      BY <1>1, <3>1, PcMoves DEF RunTypes, Pcs
    <3> QED
      BY <1>1, <3>2, RecordFields DEF RunTypes
  <2> QED
    BY <2>1, <2>2
<1>4. crashes' = crashes
  BY DEF Spawn, MarkRunning, MarkRunningFails, Track
<1> QED
  BY <1>2, <1>3, <1>4 DEF NoOrphanProcess

LEMMA ExitReaches ==
  ASSUME RunTypes, NoOrphanProcess, NEW q \in Runs, ChildExits(q)
  PROVE  NoOrphanProcess'
<1>1. \A r \in Runs : child'[r] = "alive" =>
        child[r] = "alive" /\ (r \in tracked => r \in tracked')
  BY DEF ChildExits, RunTypes, RowsTyped
<1>2. UNCHANGED <<request, crashes>>
  BY DEF ChildExits
<1> QED
  BY <1>1, <1>2 DEF NoOrphanProcess

LEMMA StepReaches ==
  ASSUME RunTypes, RequestsAssumption, NoOrphanProcess, [Next]_vars
  PROVE  NoOrphanProcess'
<1>1. ASSUME NEW q \in Calls, Serve(q)
      PROVE  NoOrphanProcess'
  <2>1. CASE Kill(q)
    BY <2>1, KillReaches
  <2>2. ASSUME NEW r \in Runs, MarkStopped(q, r)
        PROVE  NoOrphanProcess'
    <3>1. UNCHANGED <<child, tracked, crashes>>
      BY <2>2 DEF MarkStopped, process
    <3> QED
      BY <2>2, <3>1, MarkStoppedGoes, NoneForgotten
  <2>3. CASE FindActive(q)
    <3>1. UNCHANGED <<child, tracked, crashes>>
      BY <2>3 DEF FindActive, process
    <3> QED
      BY <2>3, <3>1, FindActiveGoes, NoneForgotten
  <2>4. CASE BeginCommand(q)
    <3>1. UNCHANGED <<child, tracked, crashes>>
      BY <2>4 DEF BeginCommand, process
    <3> QED
      BY <2>4, <3>1, BeginCommandGoes, NoneForgotten
  <2>5. CASE ReadFiles(q)
    <3>1. UNCHANGED <<child, tracked, crashes>>
      BY <2>5 DEF ReadFiles, process
    <3> QED
      BY <2>5, <3>1, ReadFilesGoes, NoneForgotten
  <2>6. CASE Probe(q) \/ MarkStale(q)
    <3>1. UNCHANGED <<child, tracked, crashes>>
      BY <2>6 DEF Probe, MarkStale, process
    <3>2. Goes(q, "idle", "stale") \/ Goes(q, "stale", "idle")
      BY <2>6, ListGoes
    <3> QED
      BY <3>1, <3>2, NoneForgotten
  <2>7. CASE \/ Stopped(q) \/ Save(q) \/ Enqueue(q) \/ EmptyMirror(q)
             \/ WriteMirror(q) \/ MirrorFails(q)
    <3>1. UNCHANGED <<child, tracked, crashes>>
      BY <2>7 DEF Stopped, Save, Enqueue, EmptyMirror, WriteMirror, MirrorFails,
                  process
    <3>2. PICK to \in Pcs : to # "read" /\ Move(q, to)
      BY <2>7 DEF Stopped, Save, Enqueue, EmptyMirror, WriteMirror, MirrorFails, Pcs
    <3>3. request[q].pc \notin {"spawned", "started", "refused"}
      BY <2>7 DEF Stopped, Save, Enqueue, EmptyMirror, WriteMirror, MirrorFails, At
    <3> QED
      BY <3>1, <3>2, <3>3, PcGoes, NoneForgotten
  <2> QED
    BY <1>1, <2>1, <2>2, <2>3, <2>4, <2>5, <2>6, <2>7 DEF Serve
<1>2. ASSUME NEW r \in Runs, Start(r)
      PROVE  NoOrphanProcess'
  <2>1. CASE NoTarget(r) \/ CreateRun(r)
    <3>1. UNCHANGED <<child, tracked, crashes>> /\ request[r].pc = "ready"
      BY <2>1 DEF NoTarget, CreateRun, process, At
    <3>2. PICK to \in Pcs : to # "read" /\ Move(r, to)
      BY <2>1 DEF NoTarget, CreateRun, Pcs
    <3>3. r \in Calls
      BY DEF Calls
    <3> QED
      BY <3>1, <3>2, <3>3, PcGoes, NoneForgotten
  <2>2. CASE RecordExit(r)
    BY <2>2 DEF RecordExit, NoOrphanProcess
  <2> QED
    BY <1>2, <2>1, <2>2, StartReaches, ExitReaches DEF Start
<1>3. CASE Crash
  <2>1. crashes' = crashes + 1
    BY <1>3, Zenon DEF Crash
  <2>2. crashes' # 0
    BY <2>1 DEF RunTypes, RowsTyped
  <2> QED
    BY <2>2 DEF NoOrphanProcess
<1>4. CASE UNCHANGED vars
  BY <1>4 DEF vars, NoOrphanProcess
<1> QED
  BY <1>1, <1>2, <1>3, <1>4 DEF Next

-----------------------------------------------------------------------------
(* The mirror.                                                             *)
InQueue == {"queued", "read", "emptied"}
AtMirror == {"read", "emptied"}

(* A request is queued while it has a place, and works at the head.        *)
QueueSound ==
  /\ \A i \in 1 .. Len(queue) : request[queue[i]].pc \in InQueue
  /\ \A i, j \in 1 .. Len(queue) : queue[i] = queue[j] => i = j
  /\ \A q \in Calls : request[q].pc \in InQueue =>
                        \E i \in 1 .. Len(queue) : queue[i] = q
  /\ \A q \in Calls : request[q].pc \in AtMirror => queue[1] = q

(* It finds the mirror empty when it writes the one set it has read.       *)
MirrorSound ==
  /\ mirror = {} \/ \E s \in Sources : mirror = {s}
  /\ \A q \in Calls : request[q].pc = "emptied" => mirror = {}
  /\ \A q \in Calls : request[q].pc \in AtMirror =>
                        \E s \in Sources : request[q].files = {s}

(* What the mirror gets is fresh, or a refresh is still to come or failed. *)
Fresh == {draft, SelectedVersion}
Later == \E q \in Calls : request[q].pc \in {"prepare", "queued", "refused"}

FreshSound ==
  /\ \A q \in Calls : request[q].pc \in AtMirror =>
                        request[q].files \subseteq Fresh \/ Later
  /\ \/ mirror \subseteq Fresh
     \/ Later
     \/ \E q \in Calls : request[q].pc \in AtMirror

DiskSound == QueueSound /\ MirrorSound /\ FreshSound

LEMMA DiskIsCurrent ==
  ASSUME DiskSound, RunTypes
  PROVE  MirrorIsCurrent
<1>1. Cardinality(mirror) <= 1
  <2>1. \A s : Cardinality({s}) = 1
    BY FS_Singleton
  <2>2. Cardinality({}) = 0
    BY FS_EmptySet
  <2>3. CASE mirror = {}
    BY <2>2, <2>3
  <2>4. ASSUME NEW s \in Sources, mirror = {s}
        PROVE  Cardinality(mirror) <= 1
    BY <2>1, <2>4
  <2> QED
    BY <2>3, <2>4 DEF DiskSound, MirrorSound
<1>2. ASSUME \A q \in Calls : request[q].pc \notin {"prepare", "queued", "read",
                                                   "emptied", "refused"}
      PROVE  mirror \subseteq {draft, SelectedVersion}
  BY <1>2 DEF DiskSound, FreshSound, Fresh, Later, AtMirror
<1> QED
  BY <1>1, <1>2 DEF MirrorIsCurrent

LEMMA DiskAside ==
  ASSUME RunTypes, DiskSound, NEW q \in Calls, NEW from, NEW to, Goes(q, from, to),
         UNCHANGED disk,
         from \notin InQueue \cup {"prepare", "refused"}, to \notin InQueue
  PROVE  DiskSound'
<1>1. \A p \in Calls : request'[p].pc \in InQueue <=> request[p].pc \in InQueue
  BY DEF Goes, Others
<1>2. \A p \in Calls : request[p].pc \in InQueue => request'[p] = request[p]
  BY DEF Goes, Others
<1>3. \A i \in 1 .. Len(queue) : queue[i] \in Calls
  BY DEF RunTypes, RowsTyped
<1>4. AtMirror \subseteq InQueue /\ "emptied" \in AtMirror
  BY DEF AtMirror, InQueue
<1>5. queue' = queue /\ mirror' = mirror /\ draft' = draft
  BY DEF disk
<1>6. QueueSound'
  BY <1>1, <1>2, <1>3, <1>4, <1>5 DEF DiskSound, QueueSound
<1>7. MirrorSound'
  BY <1>1, <1>2, <1>4, <1>5 DEF DiskSound, MirrorSound, Sources, Drafts
<1>8. Later => Later'
  BY DEF Later, Goes, Others, InQueue
<1>9. FreshSound'
  BY <1>1, <1>2, <1>4, <1>5, <1>8 DEF DiskSound, FreshSound, Fresh
<1> QED
  BY <1>6, <1>7, <1>9 DEF DiskSound

LEMMA SaveDisk ==
  ASSUME RunTypes, DiskSound, NEW q \in Calls, Save(q)
  PROVE  DiskSound'
<1>1. Goes(q, "idle", "prepare")
  BY PcGoes DEF Save, At, Pcs
<1>2. \A p \in Calls : request'[p].pc \in InQueue <=> request[p].pc \in InQueue
  BY <1>1 DEF Goes, Others, InQueue
<1>3. \A p \in Calls : request[p].pc \in InQueue => request'[p] = request[p]
  BY <1>1 DEF Goes, Others, InQueue
<1>4. \A i \in 1 .. Len(queue) : queue[i] \in Calls
  BY DEF RunTypes, RowsTyped
<1>5. AtMirror \subseteq InQueue /\ "emptied" \in AtMirror
  BY DEF AtMirror, InQueue
<1>6. queue' = queue /\ mirror' = mirror
  BY DEF Save
<1>7. QueueSound'
  BY <1>2, <1>3, <1>4, <1>5, <1>6 DEF DiskSound, QueueSound
<1>8. MirrorSound'
  BY <1>2, <1>3, <1>5, <1>6 DEF DiskSound, MirrorSound, Sources, Drafts
<1>9. Later'
  BY <1>1 DEF Later, Goes
<1> QED
  BY <1>7, <1>8, <1>9 DEF DiskSound, FreshSound

LEMMA EnqueueDisk ==
  ASSUME RunTypes, DiskSound, NEW q \in Calls, Enqueue(q)
  PROVE  DiskSound'
<1>1. Goes(q, "prepare", "queued")
  BY PcGoes DEF Enqueue, At, Pcs
<1>2. \A p \in Calls \ {q} : request'[p] = request[p]
  BY <1>1 DEF Goes, Others
<1>3. queue' = Append(queue, q) /\ mirror' = mirror /\ draft' = draft
  BY DEF Enqueue
<1>4. /\ queue \in Seq(Calls) /\ Len(queue) \in Nat
      /\ \A i \in 1 .. Len(queue) : queue[i] \in Calls /\ queue'[i] = queue[i]
      /\ Len(queue') = Len(queue) + 1 /\ queue'[Len(queue) + 1] = q
  BY <1>3 DEF RunTypes, RowsTyped
<1>5. \A i \in 1 .. Len(queue) : queue[i] # q
  BY <1>1 DEF DiskSound, QueueSound, InQueue, Goes
<1>6. request[q].pc = "prepare" /\ request'[q].pc = "queued"
  BY <1>1 DEF Goes
<1>7. QueueSound'
  <2>1. \A i \in 1 .. Len(queue') : request'[queue'[i]].pc \in InQueue
    BY <1>2, <1>4, <1>5, <1>6 DEF DiskSound, QueueSound, InQueue
  <2>2. \A i, j \in 1 .. Len(queue') : queue'[i] = queue'[j] => i = j
    BY <1>4, <1>5 DEF DiskSound, QueueSound
  <2>3. \A p \in Calls : request'[p].pc \in InQueue =>
          \E i \in 1 .. Len(queue') : queue'[i] = p
    <3>1. ASSUME NEW p \in Calls \ {q}, request'[p].pc \in InQueue
          PROVE  \E i \in 1 .. Len(queue') : queue'[i] = p
      <4>1. PICK i \in 1 .. Len(queue) : queue[i] = p
        BY <1>2, <3>1 DEF DiskSound, QueueSound
      <4>2. i \in 1 .. Len(queue') /\ queue'[i] = p
        BY <1>4, <4>1
      <4> QED
        BY <4>2
    <3>2. Len(queue) + 1 \in 1 .. Len(queue')
      BY <1>4
    <3> QED
      BY <1>4, <3>1, <3>2
  <2>4. \A p \in Calls : request'[p].pc \in AtMirror => queue'[1] = p
    <3>1. ASSUME NEW p \in Calls, request'[p].pc \in AtMirror
          PROVE  queue'[1] = p
      <4>1. p # q /\ request[p].pc \in AtMirror
        BY <1>2, <1>6, <3>1 DEF AtMirror
      <4>2. queue[1] = p /\ \E i \in 1 .. Len(queue) : queue[i] = p
        BY <4>1 DEF DiskSound, QueueSound, AtMirror, InQueue
      <4>3. 1 \in 1 .. Len(queue)
        BY <1>4, <4>2
      <4> QED
        BY <1>4, <4>2, <4>3
    <3> QED
      BY <3>1
  <2> QED
    BY <2>1, <2>2, <2>3, <2>4 DEF QueueSound
<1>8. \A p \in Calls : request'[p].pc \in AtMirror =>
        request[p].pc \in AtMirror /\ request'[p] = request[p]
  BY <1>2, <1>6 DEF AtMirror
<1>9. MirrorSound'
  BY <1>3, <1>8 DEF DiskSound, MirrorSound, AtMirror, Sources, Drafts
<1>10. Later'
  BY <1>6 DEF Later
<1> QED
  BY <1>7, <1>9, <1>10 DEF DiskSound, FreshSound

(* The request at the head of the queue works alone.                       *)
LEMMA WorksAlone ==
  ASSUME RunTypes, DiskSound, NEW q \in Calls,
         \/ request[q].pc = "queued" /\ Head(queue) = q
         \/ request[q].pc \in AtMirror
  PROVE  /\ queue[1] = q /\ queue # <<>>
         /\ \A p \in Calls \ {q} : request[p].pc \notin AtMirror
<1>1. request[q].pc \in InQueue
  BY DEF InQueue, AtMirror
<1>2. PICK i \in 1 .. Len(queue) : queue[i] = q
  BY <1>1 DEF DiskSound, QueueSound
<1>3. queue # <<>> /\ queue \in Seq(Calls)
  BY <1>2 DEF RunTypes, RowsTyped
<1>4. queue[1] = q
  BY <1>3 DEF DiskSound, QueueSound
<1> QED
  BY <1>3, <1>4 DEF DiskSound, QueueSound

LEMMA ReadFilesDisk ==
  ASSUME RunTypes, DiskSound, NEW q \in Calls, ReadFiles(q)
  PROVE  DiskSound'
<1>1. Goes(q, "queued", "read") /\ request'[q].files = Files(q)
  BY ReadFilesGoes
<1>2. request[q].pc = "queued" /\ Head(queue) = q
  BY DEF ReadFiles, At
<1>3. queue[1] = q /\ \A p \in Calls \ {q} : request[p].pc \notin AtMirror
  BY <1>2, WorksAlone
<1>4. \A p \in Calls \ {q} : request'[p] = request[p]
  BY <1>1 DEF Goes, Others
<1>5. request'[q].pc = "read" /\ queue' = queue /\ mirror' = mirror /\ draft' = draft
  BY <1>1 DEF Goes, ReadFiles, disk
<1>6. \A p \in Calls : request'[p].pc \in InQueue <=> request[p].pc \in InQueue
  BY <1>2, <1>4, <1>5 DEF InQueue
<1>7. \A i \in 1 .. Len(queue) : queue[i] \in Calls
  BY DEF RunTypes, RowsTyped
<1>8. QueueSound'
  BY <1>3, <1>4, <1>5, <1>6, <1>7 DEF DiskSound, QueueSound
<1>9. \A p \in Calls : request'[p].pc \in AtMirror => p = q
  BY <1>3, <1>4
<1>10. \E s \in Sources : Files(q) = {s} /\ s \in Fresh
  BY DEF Files, Sources, Fresh, RunTypes
<1>11. MirrorSound'
  BY <1>1, <1>5, <1>9, <1>10 DEF DiskSound, MirrorSound, AtMirror, Sources, Drafts
<1>12. FreshSound'
  BY <1>1, <1>5, <1>9, <1>10 DEF FreshSound, AtMirror, Fresh
<1> QED
  BY <1>8, <1>11, <1>12 DEF DiskSound

LEMMA EmptyMirrorDisk ==
  ASSUME RunTypes, DiskSound, NEW q \in Calls, EmptyMirror(q)
  PROVE  DiskSound'
<1>1. Goes(q, "read", "emptied")
  BY PcGoes DEF EmptyMirror, At, Pcs
<1>2. \A p \in Calls \ {q} : request'[p] = request[p]
  BY <1>1 DEF Goes, Others
<1>3. /\ request[q].pc = "read" /\ request'[q].pc = "emptied"
      /\ request'[q].files = request[q].files
      /\ queue' = queue /\ mirror' = {} /\ draft' = draft
  BY <1>1 DEF Goes, EmptyMirror
<1>4. \A p \in Calls \ {q} : request[p].pc \notin AtMirror
  BY <1>3, WorksAlone DEF AtMirror
<1>5. \A p \in Calls : /\ request'[p].pc \in InQueue <=> request[p].pc \in InQueue
                       /\ request'[p].pc \in AtMirror <=> request[p].pc \in AtMirror
                       /\ request'[p].files = request[p].files
  BY <1>2, <1>3 DEF InQueue, AtMirror
<1>6. \A i \in 1 .. Len(queue) : queue[i] \in Calls
  BY DEF RunTypes, RowsTyped
<1>7. QueueSound'
  BY <1>3, <1>5, <1>6 DEF DiskSound, QueueSound
<1>8. MirrorSound'
  BY <1>3, <1>5 DEF DiskSound, MirrorSound, Sources, Drafts
<1>9. Later <=> Later'
  BY <1>2, <1>3 DEF Later
<1>10. FreshSound'
  BY <1>3, <1>5, <1>9 DEF DiskSound, FreshSound, Fresh
<1> QED
  BY <1>7, <1>8, <1>10 DEF DiskSound

(* The head leaves the queue, and nothing else does.                       *)
LEMMA HeadLeaves ==
  ASSUME RunTypes, DiskSound, NEW q \in Calls, queue[1] = q, queue # <<>>, Dequeue,
         \A p \in Calls \ {q} : request'[p] = request[p] /\ request[p].pc \notin AtMirror,
         request'[q].pc \notin InQueue
  PROVE  QueueSound'
<1>1. queue \in Seq(Calls) /\ queue' = Tail(queue)
  BY DequeueTyped DEF RunTypes, RowsTyped
<1>2. /\ Len(queue) \in Nat /\ Len(queue') = Len(queue) - 1
      /\ \A i \in 1 .. Len(queue') : queue'[i] = queue[i + 1]
      /\ \A i \in 1 .. Len(queue) : queue[i] \in Calls
  BY <1>1
<1>3. \A i \in 1 .. Len(queue') :
        i + 1 \in 1 .. Len(queue) /\ queue'[i] \in Calls \ {q}
  BY <1>2 DEF DiskSound, QueueSound
<1>4. \A i \in 1 .. Len(queue') : request'[queue'[i]].pc \in InQueue
  BY <1>2, <1>3 DEF DiskSound, QueueSound
<1>5. \A i, j \in 1 .. Len(queue') : queue'[i] = queue'[j] => i = j
  <2>1. ASSUME NEW i \in 1 .. Len(queue'), NEW j \in 1 .. Len(queue'),
               queue'[i] = queue'[j]
        PROVE  i = j
    <3>1. queue[i + 1] = queue[j + 1]
      BY <1>2, <2>1
    <3>2. i + 1 = j + 1
      BY <1>3, <3>1 DEF DiskSound, QueueSound
    <3> QED
      BY <3>2
  <2> QED
    BY <2>1
<1>6. ASSUME NEW p \in Calls, request'[p].pc \in InQueue
      PROVE  \E i \in 1 .. Len(queue') : queue'[i] = p
  <2>1. p # q /\ request[p].pc \in InQueue
    BY <1>6
  <2>2. PICK i \in 1 .. Len(queue) : queue[i] = p
    BY <2>1 DEF DiskSound, QueueSound
  <2>3. i - 1 \in 1 .. Len(queue') /\ (i - 1) + 1 = i
    BY <1>2, <2>1, <2>2
  <2>4. queue'[i - 1] = p
    BY <1>2, <2>2, <2>3
  <2> QED
    BY <2>3, <2>4
<1>7. \A p \in Calls : request'[p].pc \notin AtMirror
  BY DEF AtMirror, InQueue
<1> QED
  BY <1>4, <1>5, <1>6, <1>7 DEF QueueSound

LEMMA LeaveDisk ==
  ASSUME RunTypes, DiskSound, NEW q \in Calls, WriteMirror(q) \/ MirrorFails(q)
  PROVE  DiskSound'
<1>1. PICK to \in {"done", "ready", "refused"} :
        Move(q, to) /\ (MirrorFails(q) => to = "refused")
  <2>1. CASE WriteMirror(q) /\ ~MirrorFails(q)
    BY <2>1 DEF WriteMirror
  <2>2. CASE MirrorFails(q)
    BY <2>2 DEF MirrorFails
  <2> QED
    BY <2>1, <2>2
<1>2. Goes(q, request[q].pc, to)
  BY <1>1, PcGoes DEF Pcs
<1>3. \A p \in Calls \ {q} : request'[p] = request[p]
  BY <1>2 DEF Goes, Others
<1>4. request'[q].pc = to
  BY <1>2 DEF Goes
<1>5. \/ request[q].pc = "queued" /\ Head(queue) = q
      \/ request[q].pc \in AtMirror
  BY DEF WriteMirror, MirrorFails, At, AtMirror
<1>6. /\ queue[1] = q /\ queue # <<>>
      /\ \A p \in Calls \ {q} : request[p].pc \notin AtMirror
  BY <1>5, WorksAlone
<1>7. Dequeue /\ draft' = draft
  BY DEF WriteMirror, MirrorFails
<1>8. QueueSound'
  BY <1>3, <1>4, <1>6, <1>7, HeadLeaves DEF InQueue
<1>9. \A p \in Calls : request'[p].pc \notin AtMirror
  BY <1>3, <1>4, <1>6 DEF AtMirror
<1>10. CASE MirrorFails(q)
  <2>1. mirror' = mirror
    BY <1>10 DEF MirrorFails
  <2>2. MirrorSound'
    BY <1>7, <1>9, <2>1 DEF DiskSound, MirrorSound, AtMirror, Sources, Drafts
  <2>3. Later'
    BY <1>1, <1>4, <1>10 DEF Later
  <2> QED
    BY <1>8, <2>2, <2>3 DEF DiskSound, FreshSound
<1>11. CASE WriteMirror(q) /\ ~MirrorFails(q)
  <2>1. request[q].pc = "emptied" /\ mirror' = mirror \cup request[q].files
    BY <1>11 DEF WriteMirror, At
  <2>2. mirror = {} /\ \E s \in Sources : request[q].files = {s}
    BY <2>1 DEF DiskSound, MirrorSound, AtMirror
  <2>3. mirror' = request[q].files
    BY <2>1, <2>2
  <2>4. MirrorSound'
    BY <1>7, <1>9, <2>2, <2>3 DEF MirrorSound, AtMirror, Sources, Drafts
  <2>5. request[q].files \subseteq Fresh \/ Later
    BY <2>1 DEF DiskSound, FreshSound, AtMirror
  <2>6. Later => Later'
    <3>1. ASSUME NEW p \in Calls, request[p].pc \in {"prepare", "queued", "refused"}
          PROVE  request'[p].pc \in {"prepare", "queued", "refused"}
      BY <1>3, <2>1, <3>1
    <3> QED
      BY <3>1 DEF Later
  <2>7. FreshSound'
    BY <1>7, <1>9, <2>3, <2>5, <2>6 DEF FreshSound, Fresh
  <2> QED
    BY <1>8, <2>4, <2>7 DEF DiskSound
<1> QED
  BY <1>10, <1>11

LEMMA CrashDisk ==
  ASSUME RunTypes, DiskSound, Crash
  PROVE  DiskSound'
<1> DEFINE Lost(q) == IF q \in Lists
                        THEN [request[q] EXCEPT !.pc = "idle", !.runs = {}]
                        ELSE [request[q] EXCEPT !.pc = "refused"]
<1>1. ASSUME NEW q \in Calls
      PROVE  Lost(q).pc = IF q \in Lists THEN "idle" ELSE "refused"
  BY RecordFields DEF RunTypes
<1> HIDE DEF Lost
<1>2. request' = [q \in Calls |-> IF request[q].pc = "idle" \/ request[q].pc = "done"
                                    THEN request[q] ELSE Lost(q)]
  BY DEF Crash, At, Lost
<1>3. \A q \in Calls : request'[q].pc \in {"idle", "done", "refused"}
  BY <1>1, <1>2
<1>4. queue' = <<>> /\ mirror' = mirror /\ draft' = draft
  BY Zenon DEF Crash
<1>5. QueueSound'
  BY <1>3, <1>4 DEF QueueSound, InQueue, AtMirror
<1>6. MirrorSound'
  BY <1>3, <1>4 DEF DiskSound, MirrorSound, AtMirror, Sources, Drafts
<1>7. ASSUME NEW q \in Calls, request[q].pc \in InQueue \cup {"prepare", "refused"}
      PROVE  request'[q].pc = "refused"
  <2>1. q \notin Lists
    BY <1>7 DEF RunTypes, ListsOnly, InQueue
  <2> QED
    BY <1>1, <1>2, <1>7, <2>1 DEF InQueue
<1>8. mirror' \subseteq Fresh' \/ Later'
  BY <1>4, <1>7 DEF DiskSound, FreshSound, Fresh, Later, AtMirror, InQueue
<1> QED
  BY <1>3, <1>5, <1>6, <1>8 DEF DiskSound, FreshSound, AtMirror

LEMMA StepDisk ==
  ASSUME RunTypes, DiskSound, [Next]_vars
  PROVE  DiskSound'
<1>1. ASSUME NEW q \in Calls, Serve(q)
      PROVE  DiskSound'
  <2>1. CASE \/ Save(q) \/ Enqueue(q) \/ ReadFiles(q) \/ EmptyMirror(q)
             \/ WriteMirror(q) \/ MirrorFails(q)
    BY <2>1, SaveDisk, EnqueueDisk, ReadFilesDisk, EmptyMirrorDisk, LeaveDisk
  <2>2. ASSUME NEW r \in Runs, MarkStopped(q, r)
        PROVE  DiskSound'
    BY <2>2, MarkStoppedGoes, DiskAside DEF MarkStopped, InQueue
  <2>3. CASE FindActive(q)
    BY <2>3, FindActiveGoes, DiskAside DEF FindActive, InQueue
  <2>4. CASE BeginCommand(q)
    BY <2>4, BeginCommandGoes, DiskAside DEF BeginCommand, InQueue
  <2>5. CASE Probe(q) \/ MarkStale(q)
    BY <2>5, ListGoes, DiskAside DEF Probe, MarkStale, InQueue
  <2>6. CASE Kill(q) \/ Stopped(q)
    <3>1. UNCHANGED disk /\ request[q].pc \in {"found", "stopping"}
      BY <2>6 DEF Kill, Stopped, At
    <3>2. PICK to \in {"stopping", "done", "prepare"} : Move(q, to)
      BY <2>6 DEF Kill, Stopped
    <3>3. Goes(q, request[q].pc, to)
      BY <3>2, PcGoes DEF Pcs
    <3> QED
      BY <3>1, <3>3, DiskAside DEF InQueue
  <2> QED
    BY <1>1, <2>1, <2>2, <2>3, <2>4, <2>5, <2>6 DEF Serve
<1>2. ASSUME NEW r \in Runs, Start(r)
      PROVE  DiskSound'
  <2>1. CASE ChildExits(r) \/ RecordExit(r)
    <3>1. UNCHANGED <<request, queue, mirror, draft>>
      BY <2>1 DEF ChildExits, RecordExit, disk
    <3> QED
      BY <3>1 DEF DiskSound, QueueSound, MirrorSound, FreshSound, Fresh, Later,
                  Sources, Drafts
  <2>2. CASE ~(ChildExits(r) \/ RecordExit(r))
    <3>1. /\ UNCHANGED disk
          /\ request[r].pc \in {"ready", "created", "spawned", "started"}
      BY <1>2, <2>2 DEF Start, NoTarget, CreateRun, Spawn, MarkRunning,
                        MarkRunningFails, Track, At
    <3>2. PICK to \in {"refused", "created", "spawned", "started", "done"} :
            Move(r, to)
      BY <1>2, <2>2 DEF Start, NoTarget, CreateRun, Spawn, MarkRunning,
                        MarkRunningFails, Track
    <3>3. r \in Calls
      BY DEF Calls
    <3>4. Goes(r, request[r].pc, to)
      BY <3>2, <3>3, PcGoes DEF Pcs
    <3> QED
      BY <3>1, <3>3, <3>4, DiskAside DEF InQueue
  <2> QED
    BY <2>1, <2>2
<1>3. CASE UNCHANGED vars
  BY <1>3 DEF vars, DiskSound, QueueSound, MirrorSound, FreshSound, Fresh, Later,
              Sources, Drafts
<1> QED
  BY <1>1, <1>2, <1>3, CrashDisk DEF Next

LEMMA InitSound ==
  ASSUME Init, RunTypes
  PROVE  DiskSound /\ NoOrphanProcess
<1>1. NoOrphanProcess
  BY DEF Init, NoOrphanProcess
<1>2. \A q \in Calls : request[q].pc = "idle"
  BY DEF Init
<1>3. queue = <<>> /\ mirror = {0} /\ draft = 0 /\ 0 \in Sources
  BY DEF Init, Sources, RunTypes
<1>4. DiskSound
  BY <1>2, <1>3 DEF DiskSound, QueueSound, MirrorSound, FreshSound, Fresh, InQueue,
                    AtMirror
<1> QED
  BY <1>1, <1>4

-----------------------------------------------------------------------------
(* The inductive invariant, and what it gives for any set of requests.     *)
RunsInvariant == RunTypes /\ NoOrphanProcess /\ DiskSound

LEMMA RunsStart ==
  ASSUME RequestsAssumption, Init
  PROVE  RunsInvariant
BY InitTyped, InitSound DEF RunsInvariant

LEMMA RunsStep ==
  ASSUME RequestsAssumption, RunsInvariant, [Next]_vars
  PROVE  RunsInvariant'
BY StepTyped, StepReaches, StepDisk DEF RunsInvariant

LEMMA RunsHold ==
  ASSUME RunsInvariant
  PROVE  TypeOK /\ NoOrphanProcess /\ MirrorIsCurrent
BY RunTypesTyped, DiskIsCurrent DEF RunsInvariant

(* Whatever previews, commands, saves, stops and listings of a workspace   *)
(* interleave, and however often the server crashes: rows and requests     *)
(* have their types, no process is out of reach, and the mirror is of one  *)
(* request and, when every refresh is through, of the newest draft.        *)
THEOREM RunsFollow ==
  RequestsAssumption /\ Spec => [](TypeOK /\ NoOrphanProcess /\ MirrorIsCurrent)
<1> SUFFICES ASSUME RequestsAssumption
             PROVE  Spec => [](TypeOK /\ NoOrphanProcess /\ MirrorIsCurrent)
  OBVIOUS
<1>1. Init => RunsInvariant
  BY RunsStart
<1>2. RunsInvariant /\ [Next]_vars => RunsInvariant'
  BY RunsStep
<1>3. RunsInvariant => TypeOK /\ NoOrphanProcess /\ MirrorIsCurrent
  BY RunsHold
<1> QED
  BY <1>1, <1>2, <1>3, PTL DEF Spec
=============================================================================
