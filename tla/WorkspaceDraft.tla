--------------------------- MODULE WorkspaceDraft ---------------------------
(***************************************************************************)
(* The one editable draft of a Page: its files, its immutable versions     *)
(* with their labels, the edit lock and the proposals agents leave for     *)
(* review.  A request is a sequence of awaits: it checks the lock, reads   *)
(* rows, and writes in a transaction of its own; two tabs of a user, or    *)
(* two users around the expiry of the lock, interleave between them.       *)
(*                                                                         *)
(* A file is its path: rows are unique by (document, path) and a deleted   *)
(* row keeps its path.  Folders, renames, sort order and the role of a     *)
(* file are left out; every file is a deliverable at the root.             *)
(***************************************************************************)
EXTENDS Naturals, FiniteSets, FiniteSetsExt

CONSTANTS
    Requests,       \* the request slots (browser tabs, an agent's turn)
    UserOf,         \* the user each slot acts for
    NoUser,         \* nobody holds the lock
    Paths,          \* paths of files
    DefaultPath,    \* the file ensureWorkspaceFiles makes of the document
    Contents,       \* contents of files
    Initial,        \* the content of a fresh document and a fresh file
    Proposals,      \* proposal slots
    Ops,            \* the operations users call in this instance
    MaxPinned,      \* MAX_PINNED_RECOVERY_POINTS
    MaxCalls        \* bound: calls made in all

FileOps == {"edit", "setPrimary", "create", "delete"}
VersionOps == {"restore", "continue", "switch", "pin", "unpin"}
OtherOps == {"milestone", "checkpoint", "patch", "propose"}

ASSUME DraftAssumption ==
    /\ DefaultPath \in Paths /\ Initial \in Contents
    /\ Ops \subseteq FileOps \cup VersionOps \cup OtherOps
    /\ MaxPinned \in Nat \ {0} /\ MaxCalls \in Nat

VARIABLES
    files,      \* the WorkspaceFile row of each path
    doc,        \* the Document row
    versions,   \* the Version rows with their labels, by versionNum
    lock,       \* the WikiEditLock row
    proposals,  \* the StagedChangeSet rows
    req,        \* what each request slot is doing
    calls       \* calls made so far

vars == <<files, doc, versions, lock, proposals, req, calls>>

NoRow == [status |-> "none", content |-> Initial, revision |-> 0, primary |-> FALSE]
LiveIn(rows) == {p \in Paths : rows[p].status = "live"}
(* What a version stores of the draft: its live files. *)
DraftOf(rows) == [p \in LiveIn(rows) |-> [content |-> rows[p].content,
                                          primary |-> rows[p].primary]]
Draft == DraftOf(files)

Idle == [op |-> "none", pc |-> "idle", path |-> DefaultPath, content |-> Initial,
         target |-> 0, doc |-> [current |-> 0], rows |-> <<>>, primary |-> FALSE,
         snapshot |-> <<>>, base |-> 0, saved |-> 0, stale |-> {}]

NoProposal == [status |-> "none"]

Init ==
    /\ files = [p \in Paths |-> IF p = DefaultPath
                                  THEN [status |-> "live", content |-> Initial,
                                        revision |-> 1, primary |-> TRUE]
                                  ELSE NoRow]
    /\ doc = [draftRevision |-> 0, revision |-> 1, content |-> Initial,
              base |-> 0, current |-> 0]
    /\ versions = <<>>
    /\ lock = [user |-> NoUser, live |-> FALSE]
    /\ proposals = [s \in Proposals |-> NoProposal]
    /\ req = [r \in Requests |-> Idle]
    /\ calls = 0

-----------------------------------------------------------------------------
(* Steps of a request.  A request that throws answers an error and is over. *)

At(r, pc) == req[r].pc = pc
Goto(r, pc) == req' = [req EXCEPT ![r].pc = pc]
Done(r) == req' = [req EXCEPT ![r] = Idle]
Numbers == DOMAIN versions
LiveVersion(n) == n \in Numbers /\ versions[n].live

(* A user calls an operation. *)
Call(r, op, p, c, n) ==
    /\ At(r, "idle") /\ calls < MaxCalls
    /\ calls' = calls + 1
    /\ req' = [req EXCEPT ![r] = [Idle EXCEPT !.op = op, !.pc = "check", !.path = p,
                                              !.content = c, !.target = n]]
    /\ UNCHANGED <<files, doc, versions, lock, proposals>>

Start(r) ==
    \E op \in Ops :
        \/ op \in {"edit"} /\ \E p \in Paths, c \in Contents : Call(r, op, p, c, 0)
        \/ op \in FileOps \ {"edit"} /\ \E p \in Paths : Call(r, op, p, Initial, 0)
        \/ op = "patch" /\ \E c \in Contents : Call(r, op, DefaultPath, c, 0)
        \/ op \in VersionOps /\ \E n \in Numbers : Call(r, op, DefaultPath, Initial, n)
        \/ op \in {"milestone", "checkpoint"} /\ Call(r, op, DefaultPath, Initial, 0)

LockedOut(u) == lock.live /\ lock.user # u

(* ensureWorkspaceEditable: a live lock of the user is enough, one of      *)
(* another user refuses, an absent or expired one is taken.  createWork-   *)
(* spaceVersion checks again on behalf of restore, continue and switch.    *)
Check(r) ==
    /\ \/ At(r, "check") \/ At(r, "checkAgain")
    /\ LET next == IF At(r, "checkAgain") \/ req[r].op \in {"milestone", "checkpoint"}
                     THEN "document" ELSE "read"
       IN  IF LockedOut(UserOf[r]) THEN Done(r)
           ELSE IF lock.live THEN Goto(r, next)
           ELSE Goto(r, IF next = "read" THEN "acquire" ELSE "acquireAgain")
    /\ UNCHANGED <<files, doc, versions, lock, proposals, calls>>

(* acquireWorkspaceLock writes the lock it read free, whoever has it now. *)
Acquire(r) ==
    /\ \/ At(r, "acquire") \/ At(r, "acquireAgain")
    /\ lock' = [user |-> UserOf[r], live |-> TRUE]
    /\ Goto(r, IF At(r, "acquire") THEN "read" ELSE "document")
    /\ UNCHANGED <<files, doc, versions, proposals, calls>>

(* Fifteen minutes pass. *)
LockExpires ==
    /\ lock.live
    /\ lock' = [lock EXCEPT !.live = FALSE]
    /\ UNCHANGED <<files, doc, versions, proposals, req, calls>>

-----------------------------------------------------------------------------
(* Files. *)

(* ensureWorkspaceFiles: a draft with no live file gets the default file   *)
(* with the document's content; the row of a deleted one is in the way.    *)
CanEnsure == LiveIn(files) # {} \/ files[DefaultPath].status = "none"
Ensured ==
    IF LiveIn(files) # {} THEN files
    ELSE [files EXCEPT ![DefaultPath] = [status |-> "live", content |-> doc.content,
                                         revision |-> 1, primary |-> TRUE]]

Touch(row) == [row EXCEPT !.revision = @ + 1]
DraftChanged(d) == [d EXCEPT !.draftRevision = @ + 1]
DocumentShows(d, c) == [DraftChanged(d) EXCEPT !.revision = @ + 1, !.content = c]

(* The read before the transaction: the row of the request, and for a      *)
(* create the names taken by live siblings.                                *)
ReadFile(r) ==
    /\ At(r, "read") /\ req[r].op \in FileOps
    /\ IF req[r].op = "create"
         THEN /\ files' = IF CanEnsure THEN Ensured ELSE files
              /\ IF CanEnsure /\ req[r].path \notin LiveIn(Ensured)
                   THEN Goto(r, "write") ELSE Done(r)
         ELSE /\ files' = files
              /\ IF req[r].path \in LiveIn(files)
                   THEN req' = [req EXCEPT ![r].pc = "write",
                                           ![r].primary = files[req[r].path].primary,
                                           ![r].content = IF req[r].op = "edit" THEN @
                                                          ELSE files[req[r].path].content]
                   ELSE Done(r)
    /\ UNCHANGED <<doc, versions, lock, proposals, calls>>

(* updateWorkspaceFile with a content. *)
Edit(r) ==
    /\ At(r, "write") /\ req[r].op = "edit"
    /\ files' = [files EXCEPT ![req[r].path] = [Touch(@) EXCEPT !.content = req[r].content]]
    /\ doc' = IF files[req[r].path].primary THEN DocumentShows(doc, req[r].content)
              ELSE DraftChanged(doc)
    /\ Done(r)
    /\ UNCHANGED <<versions, lock, proposals, calls>>

(* updateWorkspaceFile with setPrimary and no content: the document gets   *)
(* the content read before the transaction.                                *)
SetPrimary(r) ==
    /\ At(r, "write") /\ req[r].op = "setPrimary"
    /\ files' = [p \in Paths |->
                   IF p = req[r].path
                     THEN [Touch(Touch(files[p])) EXCEPT !.primary = TRUE]
                   ELSE IF p \in LiveIn(files) /\ files[p].primary
                     THEN [Touch(files[p]) EXCEPT !.primary = FALSE]
                   ELSE files[p]]
    /\ doc' = DocumentShows(doc, req[r].content)
    /\ Done(r)
    /\ UNCHANGED <<versions, lock, proposals, calls>>

(* createWorkspaceFile: the row of a path, live or deleted, is unique. *)
Create(r) ==
    /\ At(r, "write") /\ req[r].op = "create"
    /\ IF files[req[r].path].status = "none"
         THEN /\ files' = [files EXCEPT ![req[r].path] =
                             [status |-> "live", content |-> Initial,
                              revision |-> 1, primary |-> FALSE]]
              /\ doc' = DraftChanged(doc)
         ELSE UNCHANGED <<files, doc>>
    /\ Done(r)
    /\ UNCHANGED <<versions, lock, proposals, calls>>

(* The files that may replace a deleted primary: a primary one first. *)
Replacements(rows) ==
    LET live == LiveIn(rows)
        primaries == {p \in live : rows[p].primary}
    IN  IF primaries # {} THEN primaries ELSE live

(* deleteWorkspaceFile: whether the file was primary is what it read. *)
Delete(r) ==
    /\ At(r, "write") /\ req[r].op = "delete"
    /\ LET gone == [files EXCEPT ![req[r].path] = [Touch(@) EXCEPT !.status = "deleted"]]
       IN  IF req[r].primary /\ LiveIn(gone) # {}
             THEN \E p \in Replacements(gone) :
                    /\ files' = [gone EXCEPT ![p] = [Touch(@) EXCEPT !.primary = TRUE]]
                    /\ doc' = DocumentShows(doc, gone[p].content)
             ELSE files' = gone /\ doc' = DraftChanged(doc)
    /\ Done(r)
    /\ UNCHANGED <<versions, lock, proposals, calls>>

(* The file resolvePrimaryFile picks. *)
PrimaryOf(draft) ==
    LET primaries == {p \in DOMAIN draft : draft[p].primary}
    IN  CHOOSE p \in DOMAIN draft : primaries # {} => p \in primaries
ContentOf(draft) == IF draft = <<>> THEN Initial ELSE draft[PrimaryOf(draft)].content

(* updateWorkspace with a content, PATCH of the document: the file and the *)
(* document are two writes, outside a transaction.                         *)
PatchRead(r) ==
    /\ At(r, "read") /\ req[r].op = "patch"
    /\ IF CanEnsure
         THEN /\ files' = Ensured
              /\ req' = [req EXCEPT ![r].pc = "patchFile",
                                    ![r].path = PrimaryOf(DraftOf(Ensured))]
         ELSE files' = files /\ Done(r)
    /\ UNCHANGED <<doc, versions, lock, proposals, calls>>

PatchFile(r) ==
    /\ At(r, "patchFile")
    /\ files' = [files EXCEPT ![req[r].path] = [Touch(@) EXCEPT !.content = req[r].content]]
    /\ proposals' = [s \in Proposals |->
                       IF proposals[s].status = "pending"
                         THEN [proposals[s] EXCEPT !.patched = @ \cup {req[r].path}]
                         ELSE proposals[s]]
    /\ Goto(r, "patchDocument")
    /\ UNCHANGED <<doc, versions, lock, calls>>

PatchDocument(r) ==
    /\ At(r, "patchDocument")
    /\ doc' = [doc EXCEPT !.content = req[r].content, !.revision = @ + 1]
    /\ Done(r)
    /\ UNCHANGED <<files, versions, lock, proposals, calls>>

-----------------------------------------------------------------------------
(* Versions. *)

Visible(n) == LiveVersion(n) /\ versions[n].kind = "milestone"
Recoveries == {n \in Numbers : LiveVersion(n) /\ versions[n].kind = "recovery"}

(* The formal version a restored one descends from: recovery points hang   *)
(* off the base their draft had.                                           *)
DraftBaseOf ==
    LET base[n \in Numbers \cup {0}] ==
          IF n = 0 \/ ~LiveVersion(n) THEN 0
          ELSE IF versions[n].kind = "milestone" THEN n
          ELSE base[versions[n].parent]
    IN  base

(* restore, continue and switch read the version; a switch wants a head,   *)
(* a pin a recovery point.                                                 *)
ReadVersion(r) ==
    /\ At(r, "read") /\ req[r].op \in VersionOps
    /\ LET n == req[r].target
           op == req[r].op
           fits == /\ LiveVersion(n)
                   /\ op = "switch" => versions[n].head
                   /\ op \in {"pin", "unpin"} => versions[n].kind = "recovery"
       IN  IF ~fits THEN Done(r)
           ELSE req' = [req EXCEPT
                  ![r].pc = CASE op = "pin" /\ ~versions[n].pinned -> "count"
                              [] op \in {"pin", "unpin"} -> "label"
                              [] OTHER -> "checkAgain",
                  ![r].primary = versions[n].pinned,
                  ![r].snapshot = versions[n].files,
                  ![r].base = IF op = "restore" THEN DraftBaseOf[n] ELSE n]
    /\ UNCHANGED <<files, doc, versions, lock, proposals, calls>>

(* createWorkspaceVersion reads the document, then the files. *)
ReadDocument(r) ==
    /\ At(r, "document")
    /\ req' = [req EXCEPT ![r].pc = "files", ![r].doc = doc]
    /\ UNCHANGED <<files, doc, versions, lock, proposals, calls>>

ReadFiles(r) ==
    /\ At(r, "files")
    /\ IF CanEnsure
         THEN /\ files' = Ensured
              /\ req' = [req EXCEPT ![r].pc = "commit", ![r].rows = DraftOf(Ensured)]
         ELSE files' = files /\ Done(r)
    /\ UNCHANGED <<doc, versions, lock, proposals, calls>>

NewVersion(snapshot, kind, parent) ==
    [files |-> snapshot, kind |-> kind, parent |-> parent,
     head |-> kind = "milestone", pinned |-> FALSE, live |-> TRUE]

(* Mutant of NoLongerHead: the parent's head label stays. *)
StillHead(n) == versions

(* The head label of n is archived, its other labels stay. *)
NoLongerHead(n) == [m \in Numbers |-> IF m = n THEN [versions[m] EXCEPT !.head = FALSE]
                                      ELSE versions[m]]
WithVersion(vs, n, v) == [m \in DOMAIN vs \cup {n} |-> IF m = n THEN v ELSE vs[m]]

(* Mutant of StillAsRead: the draft revision is not compared. *)
DraftUncompared(read) ==
    /\ doc.current = read.current /\ doc.base = read.base
    /\ doc.revision = read.revision

(* The comparison in the update of the document. *)
StillAsRead(read) ==
    /\ doc.current = read.current /\ doc.base = read.base
    /\ doc.draftRevision = read.draftRevision /\ doc.revision = read.revision

(* The transaction of createWorkspaceVersion, fenced on everything it read *)
(* of the document; the version number is unique.                          *)
CommitVersion(r) ==
    /\ At(r, "commit")
    /\ LET read == req[r].doc
           n == read.current + 1
           milestone == req[r].op = "milestone"
           kind == IF milestone THEN "milestone" ELSE "recovery"
           valid == /\ read.base = 0 \/ LiveVersion(read.base)
                    /\ n \notin Numbers
                    /\ StillAsRead(read)
       IN  IF valid
             THEN /\ versions' = WithVersion(IF milestone THEN NoLongerHead(read.base)
                                             ELSE versions,
                                             n, NewVersion(req[r].rows, kind, read.base))
                  /\ doc' = [DocumentShows(doc, ContentOf(req[r].rows))
                               EXCEPT !.current = n,
                                      !.base = IF milestone THEN n ELSE @]
                  /\ IF milestone THEN Done(r)
                     ELSE req' = [req EXCEPT ![r].pc = "pruneRead", ![r].saved = n,
                                             ![r].rows = <<>>, ![r].doc = Idle.doc]
             ELSE UNCHANGED <<versions, doc>> /\ Done(r)
    /\ UNCHANGED <<files, lock, proposals, calls>>

(* pruneWorkspaceRecoveryCheckpoints keeps one recovery point nobody       *)
(* pinned; it reads the list, then deletes by id.                          *)
AfterPrune(r) ==
    CASE req[r].op \in {"restore", "switch"} -> "draft"
      [] req[r].op = "continue" -> "number"
      [] OTHER -> "idle"

Leave(r, pc) == IF pc = "idle" THEN Done(r)
                ELSE req' = [req EXCEPT ![r].pc = pc, ![r].stale = {}]

PruneRead(r) ==
    /\ At(r, "pruneRead")
    /\ LET temporary == {n \in Recoveries : ~versions[n].pinned}
           stale == {n \in temporary : \E m \in temporary : m > n}
       IN  IF stale = {} THEN Leave(r, AfterPrune(r))
           ELSE req' = [req EXCEPT ![r].pc = "prune", ![r].stale = stale]
    /\ UNCHANGED <<files, doc, versions, lock, proposals, calls>>

Prune(r) ==
    /\ At(r, "prune")
    /\ versions' = [n \in Numbers |-> IF n \in req[r].stale
                                        THEN [versions[n] EXCEPT !.live = FALSE]
                                        ELSE versions[n]]
    /\ Leave(r, AfterPrune(r))
    /\ UNCHANGED <<files, doc, lock, proposals, calls>>

(* setWorkspaceVersionPinned counts outside the transaction that labels. *)
PinnedVersions == {n \in Numbers : LiveVersion(n) /\ versions[n].pinned}

CountPinned(r) ==
    /\ At(r, "count")
    /\ IF Cardinality(PinnedVersions) >= MaxPinned THEN Done(r) ELSE Goto(r, "label")
    /\ UNCHANGED <<files, doc, versions, lock, proposals, calls>>

LabelPinned(r) ==
    /\ At(r, "label")
    /\ versions' = [versions EXCEPT ![req[r].target].pinned =
                      IF req[r].op = "pin" /\ ~req[r].primary THEN TRUE
                      ELSE IF req[r].op = "unpin" /\ req[r].primary THEN FALSE
                      ELSE @]
    /\ Goto(r, "pruneRead")
    /\ UNCHANGED <<files, doc, lock, proposals, calls>>

(* continueWorkspaceFromVersion: the number is read again, then a branch   *)
(* version is made of the source, and the draft is replaced by it.         *)
ReadNumber(r) ==
    /\ At(r, "number")
    /\ req' = [req EXCEPT ![r].pc = "branch", ![r].doc = [current |-> doc.current]]
    /\ UNCHANGED <<files, doc, versions, lock, proposals, calls>>

Branch(r) ==
    /\ At(r, "branch")
    /\ LET n == req[r].doc.current + 1
       IN  IF n \notin Numbers
             THEN /\ versions' = WithVersion(NoLongerHead(req[r].target), n,
                                   NewVersion(req[r].snapshot, "milestone", req[r].target))
                  /\ doc' = [doc EXCEPT !.current = n, !.revision = @ + 1]
                  /\ req' = [req EXCEPT ![r].pc = "draft", ![r].base = n,
                                        ![r].doc = Idle.doc]
             ELSE UNCHANGED <<versions, doc>> /\ Done(r)
    /\ UNCHANGED <<files, lock, proposals, calls>>

(* replaceWorkspaceDraftWithVersionFiles reads the live files... *)
ReadDraft(r) ==
    /\ At(r, "draft")
    /\ IF CanEnsure
         THEN /\ files' = Ensured
              /\ req' = [req EXCEPT ![r].pc = "replace", ![r].stale = LiveIn(Ensured)]
         ELSE files' = files /\ Done(r)
    /\ UNCHANGED <<doc, versions, lock, proposals, calls>>

(* ... and replaces the draft: those it read are updated or deleted, the   *)
(* others created, which a row of the same path refuses.                   *)
Replaced(rows, snapshot, read) ==
    [p \in Paths |->
       IF p \in DOMAIN snapshot
         THEN [status |-> "live", content |-> snapshot[p].content,
               revision |-> rows[p].revision + 1, primary |-> snapshot[p].primary]
       ELSE IF p \in read THEN [Touch(rows[p]) EXCEPT !.status = "deleted"]
       ELSE rows[p]]

Replace(r) ==
    /\ At(r, "replace")
    /\ LET snapshot == req[r].snapshot
           created == DOMAIN snapshot \ req[r].stale
       IN  IF \A p \in created : files[p].status = "none"
             THEN /\ files' = Replaced(files, snapshot, req[r].stale)
                  /\ doc' = [DocumentShows(doc, ContentOf(snapshot))
                               EXCEPT !.base = req[r].base]
             ELSE UNCHANGED <<files, doc>>
    /\ Done(r)
    /\ UNCHANGED <<versions, lock, proposals, calls>>

-----------------------------------------------------------------------------
(* Proposals. *)

(* createStagedChangeSetInTransaction: the proposal carries the draft      *)
(* revision, the base and the preimage of the file it changes.  "seen" is  *)
(* what the draft was and "patched" the files the PATCH of the document    *)
(* wrote since, for the properties only.                                   *)
Propose(s, operation, p, c) ==
    /\ "propose" \in Ops /\ calls < MaxCalls
    /\ proposals[s].status = "none"
    /\ operation # "create" => p \in LiveIn(files)
    /\ proposals' = [proposals EXCEPT ![s] =
         [status |-> "pending", operation |-> operation, path |-> p, next |-> c,
          preimage |-> [revision |-> files[p].revision, content |-> files[p].content],
          draftRevision |-> doc.draftRevision, base |-> doc.base, seen |-> Draft,
          patched |-> {}]]
    /\ calls' = calls + 1
    /\ UNCHANGED <<files, doc, versions, lock, req>>

(* validateFileCas. *)
PreimageHolds(proposal) ==
    LET row == files[proposal.path]
    IN  IF proposal.operation = "create" THEN row.status # "live"
        ELSE /\ row.status = "live"
             /\ proposal.preimage = [revision |-> row.revision, content |-> row.content]

(* Mutant of Fits: the preimage of the changed file is thought enough. *)
FitsPreimage(proposal) == doc.base = proposal.base /\ PreimageHolds(proposal)

Fits(proposal) ==
    /\ doc.draftRevision = proposal.draftRevision
    /\ doc.base = proposal.base
    /\ doc.base # 0 => LiveVersion(doc.base)
    /\ PreimageHolds(proposal)

(* The rows after applyFilePatches; a created path must have no row. *)
Patched(proposal) ==
    LET p == proposal.path
    IN  CASE proposal.operation = "update" ->
               [files EXCEPT ![p] = [Touch(@) EXCEPT !.content = proposal.next]]
          [] proposal.operation = "delete" ->
               [files EXCEPT ![p] = [Touch(@) EXCEPT !.status = "deleted"]]
          [] OTHER ->
               [files EXCEPT ![p] = [status |-> "live", content |-> proposal.next,
                                     revision |-> 1, primary |-> FALSE]]

WithCheckpoint(d) == [d EXCEPT !.current = @ + 1]

(* applyStagedChangeSetInTransaction: one transaction, for the owner a     *)
(* free slot acts for, that also writes the recovery point of the draft.   *)
Apply(r, s) ==
    /\ At(r, "idle")
    /\ proposals[s].status = "pending"
    /\ ~LockedOut(UserOf[r])
    /\ Fits(proposals[s])
    /\ proposals[s].operation = "create" => files[proposals[s].path].status = "none"
    /\ doc.current + 1 \notin Numbers
    /\ lock' = [user |-> UserOf[r], live |-> TRUE]
    /\ versions' = WithVersion(versions, doc.current + 1,
                               NewVersion(Draft, "recovery", doc.base))
    /\ LET rows == Patched(proposals[s])
           primaries == {p \in LiveIn(rows) : rows[p].primary}
       IN  IF LiveIn(rows) = {}
             THEN files' = rows /\ doc' = WithCheckpoint(DocumentShows(doc, Initial))
             ELSE \E p \in Replacements(rows) :
                    /\ files' = IF primaries # {} THEN rows
                                ELSE [rows EXCEPT ![p] = [Touch(@) EXCEPT !.primary = TRUE]]
                    /\ doc' = WithCheckpoint(DocumentShows(doc, rows[p].content))
    /\ proposals' = [proposals EXCEPT ![s].status = "applied"]
    /\ UNCHANGED <<req, calls>>

Discard(s) ==
    /\ proposals[s].status = "pending"
    /\ proposals' = [proposals EXCEPT ![s] = [status |-> "discarded"]]
    /\ UNCHANGED <<files, doc, versions, lock, req, calls>>

-----------------------------------------------------------------------------
Users == {UserOf[r] : r \in Requests}

Next ==
    \/ \E r \in Requests :
         \/ Start(r) \/ Check(r) \/ Acquire(r)
         \/ ReadFile(r) \/ Edit(r) \/ SetPrimary(r) \/ Create(r) \/ Delete(r)
         \/ PatchRead(r) \/ PatchFile(r) \/ PatchDocument(r)
         \/ ReadVersion(r) \/ ReadDocument(r) \/ ReadFiles(r) \/ CommitVersion(r)
         \/ PruneRead(r) \/ Prune(r) \/ CountPinned(r) \/ LabelPinned(r)
         \/ ReadNumber(r) \/ Branch(r) \/ ReadDraft(r) \/ Replace(r)
    \/ LockExpires
    \/ \E s \in Proposals :
         \/ \E operation \in {"update", "delete", "create"}, p \in Paths, c \in Contents :
              Propose(s, operation, p, c)
         \/ \E r \in Requests : Apply(r, s)
         \/ Discard(s)

Spec == Init /\ [][Next]_vars

-----------------------------------------------------------------------------
Snapshots == UNION {[D -> [content : Contents, primary : BOOLEAN]] : D \in SUBSET Paths}

TypeOK ==
    /\ files \in [Paths -> [status : {"none", "live", "deleted"}, content : Contents,
                            revision : Nat, primary : BOOLEAN]]
    /\ doc \in [draftRevision : Nat, revision : Nat, content : Contents,
                base : Nat, current : Nat]
    /\ \A n \in Numbers :
         versions[n] \in [files : Snapshots, kind : {"milestone", "recovery"},
                          parent : Nat, head : BOOLEAN, pinned : BOOLEAN, live : BOOLEAN]
    /\ lock \in [user : Users \cup {NoUser}, live : BOOLEAN]
    /\ DOMAIN proposals = Proposals /\ DOMAIN req = Requests /\ calls \in 0..MaxCalls

(* A document patch has written the file and not yet the document. *)
HalfPatched == \E r \in Requests : At(r, "patchDocument")

(* A version made of the draft holds exactly the files the draft has when  *)
(* the version is committed, although createWorkspaceVersion reads the     *)
(* document and the files before its transaction: whatever commits in      *)
(* between is seen by its comparison of the document.  Only the PATCH of   *)
(* the document writes the file first.                                     *)
VersionIsDraft ==
    [][\A n \in DOMAIN versions' \ Numbers :
         \/ versions'[n].files = Draft
         \/ HalfPatched
         \/ \E r \in Requests : At(r, "branch") /\ ~At(r, "branch")']_vars

(* Applying a proposal changes the draft its author saw, and keeps the     *)
(* draft it changes as the newest version.  Only the PATCH of the document *)
(* may have written a file since, when the proposal changes another: it    *)
(* does not raise the draft revision, and the file it read as primary may  *)
(* be another than the primary file by now.                                *)
AsSeen(proposal) ==
    proposal.seen # <<>> =>
      /\ DOMAIN Draft = DOMAIN proposal.seen
      /\ \A p \in DOMAIN Draft :
           \/ Draft[p] = proposal.seen[p]
           \/ /\ p \in proposal.patched \ {proposal.path}
              /\ Draft[p].primary = proposal.seen[p].primary

ApplyIsExact ==
    [][\A s \in Proposals :
         proposals[s].status = "pending" /\ proposals'[s].status = "applied" =>
           /\ AsSeen(proposals[s])
           /\ doc'.current \notin Numbers
           /\ versions'[doc'.current].files = Draft]_vars

(* The document's version number is the newest version's: every writer of  *)
(* versions takes the next one from it.                                    *)
CurrentIsNewest == doc.current = Max(Numbers \cup {0})

(* A milestone is a head exactly while no milestone was made from it. *)
HeadsAreTips ==
    \A n \in Numbers :
        versions[n].head <=> /\ versions[n].kind = "milestone"
                             /\ \A m \in Numbers : versions[m].kind = "milestone"
                                                     => versions[m].parent # n

(* The base of the draft is a live milestone, whatever was restored and    *)
(* however recovery points were pruned: it is the parent of the versions   *)
(* made next.                                                              *)
BaseIsFormal == doc.base # 0 => Visible(doc.base)

(* The versions form the tree the panel shows, after any mixture of its    *)
(* four writers, their bases and prune: the parts above.                   *)
VersionsFormTree == TypeOK /\ CurrentIsNewest /\ HeadsAreTips /\ BaseIsFormal

-----------------------------------------------------------------------------
(* What the documents say and the code does not do. *)

(* A restore replaces the draft with the version. *)
RestoreReplaces ==
    [][\A r \in Requests :
         At(r, "replace") /\ At(r, "idle")' => Draft' = req[r].snapshot]_vars

(* What a restore replaces is in the safety recovery point it made first. *)
SafetyHoldsReplaced ==
    [][\A r \in Requests :
         At(r, "replace") /\ At(r, "idle")' /\ Draft' # Draft
           => versions[req[r].saved].files = Draft]_vars

-----------------------------------------------------------------------------
=============================================================================
