---------------------------- MODULE AssistantRun ----------------------------
(***************************************************************************)
(* One conversation with the assistant and the AssistantRun rows of it.    *)
(*                                                                         *)
(* A conversation of the team starts without a Wiki: it takes one turn at  *)
(* a time, until the creation of a Wiki adopts it.  From then on it takes  *)
(* chats, and deep research: a plan is proposed, a person approves or      *)
(* dismisses it, and a request starts its execution.                       *)
(*                                                                         *)
(* A request is a sequence of awaits in the server.  Its reply streams     *)
(* from the model; the first text of it moves the run while the stream     *)
(* goes on.  The server may crash: rows stay, requests are lost.           *)
(*                                                                         *)
(* A request makes at most one run, which has its name.  A chat stands     *)
(* also for a continued proposal and for the reply to a comment, whose     *)
(* answer is stored in the thread.  A reader who disconnects aborts the    *)
(* model: the stream then ends with an error or with the text so far.      *)
(***************************************************************************)
EXTENDS Naturals

CONSTANTS
  Turns,       \* onboarding messages
  Adoptions,   \* requests that create a Wiki out of the conversation
  Chats,       \* messages in the Wiki
  Decisions,   \* approvals and dismissals of the research plan
  Starts,      \* requests that start the planned research
  MaxCrashes   \* bound on crashes of the server

Streams == Turns \cup Chats
Runs == Streams \cup Starts
Requests == Runs \cup Adoptions \cup Decisions

(* What the parameters must be: a request is of one kind.  The instances   *)
(* assume it.                                                              *)
AssistantAssumption ==
  /\ MaxCrashes \in Nat
  /\ Turns \cap Chats = {} /\ Streams \cap Starts = {}
  /\ Runs \cap Adoptions = {} /\ Runs \cap Decisions = {}
  /\ Adoptions \cap Decisions = {}

VARIABLES
  scope,      \* scopeKind of the Session: the team, or a Wiki
  run,        \* status of each AssistantRun
  answers,    \* runs whose answer is a message of the conversation
  reports,    \* runs whose report is a file of the workspace
  plan,       \* status of the research plan, in the payload of its run
  step,       \* where each request is
  firstText,  \* the update that the first text of a stream causes
  crashes

vars == <<scope, run, answers, reports, plan, step, firstText, crashes>>

Active == {"queued", "planning", "running"}
Terminal == {"completed", "failed"}
Steps == {"idle", "opening", "streaming", "empty", "storing", "checked",
          "stored", "failing", "approve", "dismiss", "approved",
          "searching", "reporting", "reported", "ended", "refused", "lost"}

TypeOK ==
  /\ scope \in {"team", "wiki"}
  /\ run \in [Runs -> {"none"} \cup Active \cup Terminal]
  /\ answers \subseteq Runs
  /\ reports \subseteq Starts
  /\ plan \in {"none", "pending", "approved", "dismissed"}
  /\ step \in [Requests -> Steps]
  /\ firstText \in [Streams -> {"none", "read", "settled"}]
  /\ crashes \in 0 .. MaxCrashes

(* A conversation is of the team, or was made with its workspace.          *)
Init ==
  /\ scope \in {"team", "wiki"}
  /\ run = [r \in Runs |-> "none"]
  /\ answers = {} /\ reports = {}
  /\ plan = "none"
  /\ step = [q \in Requests |-> "idle"]
  /\ firstText = [r \in Streams |-> "none"]
  /\ crashes = 0

-----------------------------------------------------------------------------
(* The rows                                                                *)

(* The statuses a run may have before it gets this one.                    *)
TransitionsFrom(status) ==
  CASE status \in Terminal   -> Active \cup {status}
    [] status = "running"    -> Active
    [] status = "planning"   -> {"queued", "planning"}

MayBecome(r, status) == run[r] \in TransitionsFrom(status)

(* Mutant: what the handler means to write is written, as it is.           *)
UpdateRunBlindly(r, status) == run' = [run EXCEPT ![r] = status]

(* updateAssistantRun: it throws where the transition is not allowed.      *)
UpdateRun(r, status) ==
  run' = [run EXCEPT ![r] = IF MayBecome(r, status) THEN status ELSE @]

(* Mutant: a run that waits for its stream does not count.                 *)
TurnRunning == \E t \in Turns : run[t] \in {"planning", "running"}

(* The turn that beginOnboardingAssistantTurn and the adoption look for.   *)
TurnActive == \E t \in Turns : run[t] \in Active

Goto(q, next) == step' = [step EXCEPT ![q] = next]

-----------------------------------------------------------------------------
(* Beginning and adoption, each one transaction                            *)

(* beginOnboardingAssistantTurn.                                           *)
BeginTurn(t) ==
  /\ step[t] = "idle"
  /\ IF scope = "team" /\ ~TurnActive
       THEN run' = [run EXCEPT ![t] = "queued"] /\ Goto(t, "opening")
       ELSE UNCHANGED run /\ Goto(t, "refused")
  /\ UNCHANGED <<scope, answers, reports, plan, firstText, crashes>>

(* The creation of a Wiki that adopts the conversation.                    *)
Adopt(a) ==
  /\ step[a] = "idle"
  /\ IF scope = "team" /\ ~TurnActive
       THEN scope' = "wiki" /\ Goto(a, "ended")
       ELSE UNCHANGED scope /\ Goto(a, "refused")
  /\ UNCHANGED <<run, answers, reports, plan, firstText, crashes>>

(* The message of a chat, then its run.  A conversation stays in its Wiki, *)
(* so the checks on the way find what the first one found.                 *)
BeginChat(c) ==
  /\ step[c] = "idle"
  /\ IF scope = "wiki"
       THEN run' = [run EXCEPT ![c] = "planning"] /\ Goto(c, "opening")
       ELSE UNCHANGED run /\ Goto(c, "refused")
  /\ UNCHANGED <<scope, answers, reports, plan, firstText, crashes>>

-----------------------------------------------------------------------------
(* The stream                                                              *)

(* streamWorkspaceAssistantRun builds the context and starts the model.    *)
OpenStream(r) ==
  /\ step[r] = "opening"
  /\ Goto(r, "streaming")
  /\ UNCHANGED <<scope, run, answers, reports, plan, firstText, crashes>>

(* It throws: runWithAssistantRunFailureBoundary guards a turn only.       *)
OpenFails(r) ==
  /\ step[r] = "opening"
  /\ Goto(r, IF r \in Turns THEN "failing" ELSE "ended")
  /\ UNCHANGED <<scope, run, answers, reports, plan, firstText, crashes>>

(* onFirstText reads the run and later writes it; an error of the stream   *)
(* does not wait for it.  A status that does not allow it any more is no   *)
(* error here.                                                             *)
ReadOnFirstText(r) ==
  /\ step[r] = "streaming"
  /\ firstText[r] = "none"
  /\ firstText' = [firstText EXCEPT
       ![r] = IF MayBecome(r, "running") THEN "read" ELSE "settled"]
  /\ UNCHANGED <<scope, run, answers, reports, plan, step, crashes>>

WriteOnFirstText(r) ==
  /\ firstText[r] = "read"
  /\ UpdateRun(r, "running")
  /\ firstText' = [firstText EXCEPT ![r] = "settled"]
  /\ UNCHANGED <<scope, answers, reports, plan, step, crashes>>

(* The model is done: with a text, or with none.                           *)
EndStream(r) ==
  /\ step[r] = "streaming"
  /\ firstText[r] # "read"
  /\ \E next \in {"storing", "empty"} : Goto(r, next)
  /\ UNCHANGED <<scope, run, answers, reports, plan, firstText, crashes>>

(* Without a text onFinish fails the run and throws.                       *)
FailEmptyReply(r) ==
  /\ step[r] = "empty"
  /\ UpdateRun(r, "failed")
  /\ Goto(r, "failing")
  /\ UNCHANGED <<scope, answers, reports, plan, firstText, crashes>>

(* createConversationMessage compares the scope with the one of the run.   *)
CheckScope(r) ==
  /\ step[r] = "storing"
  /\ Goto(r, IF scope = (IF r \in Turns THEN "team" ELSE "wiki")
               THEN "checked" ELSE "failing")
  /\ UNCHANGED <<scope, run, answers, reports, plan, firstText, crashes>>

StoreAnswer(r) ==
  /\ step[r] = "checked"
  /\ answers' = answers \cup {r}
  /\ Goto(r, "stored")
  /\ UNCHANGED <<scope, run, reports, plan, firstText, crashes>>

(* The last update, after the title of the conversation was set.           *)
Complete(r) ==
  /\ step[r] = "stored"
  /\ UpdateRun(r, "completed")
  /\ Goto(r, IF MayBecome(r, "completed") THEN "ended" ELSE "failing")
  /\ UNCHANGED <<scope, answers, reports, plan, firstText, crashes>>

(* The model, a search or a write of the database throws.                  *)
Throw(r) ==
  /\ step[r] \in {"streaming", "storing", "checked", "stored",
                  "searching", "reporting", "reported"}
  /\ Goto(r, "failing")
  /\ UNCHANGED <<scope, run, answers, reports, plan, firstText, crashes>>

(* onError, the failure boundary, and the catch of the research: a run     *)
(* that has ended stays as it is.                                          *)
FailRun(r) ==
  /\ step[r] = "failing"
  /\ UpdateRun(r, "failed")
  /\ Goto(r, "ended")
  /\ UNCHANGED <<scope, answers, reports, plan, firstText, crashes>>

-----------------------------------------------------------------------------
(* Deep research                                                           *)

(* The plan is the payload of a run that is made as completed.             *)
ProposePlan ==
  /\ scope = "wiki" /\ plan = "none"
  /\ plan' = "pending"
  /\ UNCHANGED <<scope, run, answers, reports, step, firstText, crashes>>

(* A decision reads the payload, whatever its status, and writes it back.  *)
ReadForDecision(d) ==
  /\ step[d] = "idle"
  /\ plan # "none"
  /\ \E action \in {"approve", "dismiss"} : Goto(d, action)
  /\ UNCHANGED <<scope, run, answers, reports, plan, firstText, crashes>>

WriteDecision(d) ==
  /\ step[d] \in {"approve", "dismiss"}
  /\ plan' = IF step[d] = "approve" THEN "approved" ELSE "dismissed"
  /\ Goto(d, "ended")
  /\ UNCHANGED <<scope, run, answers, reports, firstText, crashes>>

ReadForStart(s) ==
  /\ step[s] = "idle"
  /\ plan # "none"
  /\ Goto(s, IF plan = "approved" THEN "approved" ELSE "refused")
  /\ UNCHANGED <<scope, run, answers, reports, plan, firstText, crashes>>

(* Without a search provider the payload is written back with a note.      *)
NoProvider(s) ==
  /\ step[s] = "approved"
  /\ plan' = "approved"
  /\ Goto(s, "refused")
  /\ UNCHANGED <<scope, run, answers, reports, firstText, crashes>>

StartResearch(s) ==
  /\ step[s] = "approved"
  /\ run' = [run EXCEPT ![s] = "planning"]
  /\ Goto(s, "searching")
  /\ UNCHANGED <<scope, answers, reports, plan, firstText, crashes>>

(* The searches and the analysis of their gaps report their progress.      *)
Search(s) ==
  /\ step[s] = "searching"
  /\ MayBecome(s, "running")
  /\ UpdateRun(s, "running")
  /\ Goto(s, "reporting")
  /\ UNCHANGED <<scope, answers, reports, plan, firstText, crashes>>

WriteReport(s) ==
  /\ step[s] = "reporting"
  /\ reports' = reports \cup {s}
  /\ Goto(s, "reported")
  /\ UNCHANGED <<scope, run, answers, plan, firstText, crashes>>

(* The last progress completes the run; its answer is stored after it.     *)
FinishResearch(s) ==
  /\ step[s] = "reported"
  /\ MayBecome(s, "completed")
  /\ UpdateRun(s, "completed")
  /\ Goto(s, "storing")
  /\ UNCHANGED <<scope, answers, reports, plan, firstText, crashes>>

-----------------------------------------------------------------------------
(* The server stops: what it had in memory is gone.                        *)
Crash ==
  /\ crashes < MaxCrashes
  /\ crashes' = crashes + 1
  /\ step' = [q \in Requests |->
       IF step[q] \in {"idle", "ended", "refused"} THEN step[q] ELSE "lost"]
  /\ firstText' = [r \in Streams |->
       IF firstText[r] = "read" THEN "settled" ELSE firstText[r]]
  /\ UNCHANGED <<scope, run, answers, reports, plan>>

(* The steps of a request that has begun.                                  *)
Serve(r) ==
  \/ r \in Streams /\ (\/ OpenStream(r) \/ OpenFails(r) \/ ReadOnFirstText(r)
                       \/ WriteOnFirstText(r) \/ EndStream(r)
                       \/ FailEmptyReply(r))
  \/ r \in Starts /\ (\/ NoProvider(r) \/ StartResearch(r) \/ Search(r)
                      \/ WriteReport(r) \/ FinishResearch(r))
  \/ CheckScope(r) \/ StoreAnswer(r) \/ Complete(r) \/ Throw(r) \/ FailRun(r)

Next ==
  \/ \E t \in Turns : BeginTurn(t)
  \/ \E a \in Adoptions : Adopt(a)
  \/ \E c \in Chats : BeginChat(c)
  \/ ProposePlan
  \/ \E d \in Decisions : ReadForDecision(d) \/ WriteDecision(d)
  \/ \E s \in Starts : ReadForStart(s)
  \/ \E r \in Runs : Serve(r)
  \/ Crash

Spec == Init /\ [][Next]_vars

(* The server serves on what it took up; the model ends its stream, with   *)
(* an error at the latest.                                                 *)
FairSpec == Spec /\ \A r \in Runs : WF_vars(Serve(r))
-----------------------------------------------------------------------------
(* One reply at a time, before there is a Wiki.                            *)
OneReply ==
  \A t, u \in Turns : run[t] \in Active /\ run[u] \in Active => t = u

(* A Wiki takes over a conversation in which no turn is active, and none   *)
(* becomes active afterwards.                                              *)
AdoptedIsQuiet == scope = "wiki" => ~TurnActive

(* A reply that is called complete is in the conversation, and a completed *)
(* research has its report.                                                *)
CompletedIsStored ==
  \A r \in Runs : run[r] = "completed" =>
    r \in (IF r \in Starts THEN reports ELSE answers)

(* As long as no crash takes it away, somebody is about to end an active   *)
(* turn or research: an initialization that fails leaves no queued orphan. *)
ActiveIsServed ==
  \A r \in Turns \cup Starts : run[r] \in Active =>
    step[r] \notin {"idle", "ended", "refused"}

ConversationSound ==
  TypeOK /\ OneReply /\ AdoptedIsQuiet /\ CompletedIsStored /\ ActiveIsServed

(* The status of a run that ended stays, whatever was under way when it    *)
(* did, and no answer of a turn or chat arrives after the end, nor of a    *)
(* turn after the adoption.                                                *)
StaysEnded ==
  /\ \A r \in Runs : run[r] \in Terminal => run'[r] = run[r]
  /\ \A r \in Streams : r \in answers' \ answers =>
       run[r] \in Active /\ (r \in Turns => scope = "team")

EndedIsFinal == [][StaysEnded]_vars

(* Unless the server crashes, every turn and every research ends: each run *)
(* is made once, so in the end none is active and the conversation is free.*)
EveryRunEnds ==
  <>[](crashes # 0 \/ \A r \in Turns \cup Starts : run[r] \notin Active)
=============================================================================
